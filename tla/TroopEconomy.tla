---------------------------- MODULE TroopEconomy ----------------------------
(***************************************************************************)
(* A running game: who owns which hex, the troops on the hexes and in the  *)
(* hands of the players, the commanders' raids and rallies, the offers of  *)
(* troops between allies, the regeneration tick and the end of the game.   *)
(*                                                                         *)
(* Every operation runs under the room's lock and is one step; the tick is *)
(* several, with anything in between.  Players walk as they like, so where *)
(* they stand is chosen when an operation asks.  Clocks are choices too: a *)
(* cooldown has run out when it matters, a deadline passes at any moment.  *)
(* Forts, sabotage and the fields that only clients read are left out, as  *)
(* are pausing, which refuses calls and skips ticks, and the hex that the  *)
(* troops in a hand come from, which only ever refuses a pick-up.          *)
(***************************************************************************)
EXTENDS Integers, FiniteSets

CONSTANTS
  Players, Alliances, Hexes, None,
  Team,        \* Team[p]: the alliance of p; nobody starts a game without one
  HQ,          \* HQ[a]: the headquarters of a, or None; fixed once playing
  Master,      \* the master tile
  Commanders,
  ClaimModes,  \* adjacency is a matter of geometry and then as presence
  WinTypes,
  WinShare,    \* WinConditionValue
  HQRaidShare, \* percent of the map to be claimed before; 40 in the code
  StartTroops, \* StartingTroopCount
  MaxTroops    \* bound: on a hex, in a hand

ASSUME TeamsAreAlliances == Team \in [Players -> Alliances]
ASSUME HQsAreHexes == HQ \in [Alliances -> Hexes \cup {None}]
ASSUME MasterIsHex == Master \in Hexes
ASSUME MapIsFinite == IsFiniteSet(Hexes)
ASSUME WinTypesAreKnown == WinTypes \subseteq {"Percent", "Elimination", "Timed"}
ASSUME ShareIsNat == HQRaidShare \in Nat
ASSUME CommandersPlay == Commanders \subseteq Players
ASSUME NoneIsNothing == None \notin Players \cup Alliances \cup Hexes
ASSUME BoundIsNat == MaxTroops \in Nat \ {0} /\ StartTroops \in 0 .. MaxTroops

VARIABLES
  phase, winner,
  claimMode, winType,  \* chosen in the lobby
  hqOn,     \* Dynamics.HQEnabled
  owner,    \* owner[h]: OwnerId, or None
  ally,     \* ally[h]: OwnerAllianceId, or None
  troops,   \* troops[h]
  carried,  \* carried[p]: CarriedTroops
  offers,   \* ActiveTroopTransfers
  raid,     \* raid[a]: the target of the raid of a, or None
  rally,    \* rally[c]: the rally point of c, or None
  frozen,   \* the alliances whose ClaimFrozenUntil is to come
  tick      \* what the regeneration tick does next in this room

rules == <<claimMode, winType>>
outcome == <<phase, winner>>
tiles == <<owner, ally>>
calls == <<raid, rally>>
vars == <<outcome, rules, hqOn, tiles, troops, carried, offers, calls, frozen, tick>>

Amounts == 0 .. MaxTroops
HQs == {HQ[a] : a \in Alliances} \cap Hexes
Members(a) == {p \in Players : Team[p] = a}
Claimable == Hexes \ {Master}
Claimed == {h \in Claimable : owner[h] # None}
Territory(a) == {h \in Hexes : ally[h] = a}
Offers == [from : Players, to : Players, amount : Amounts]

TypeOK ==
  /\ phase \in {"Playing", "GameOver"}
  /\ winner \in Alliances \cup {None}
  /\ claimMode \in ClaimModes
  /\ winType \in WinTypes
  /\ hqOn \in BOOLEAN
  /\ owner \in [Hexes -> Players \cup {None}]
  /\ ally \in [Hexes -> Alliances \cup {None}]
  /\ troops \in [Hexes -> Amounts]
  /\ carried \in [Players -> Amounts]
  /\ offers \subseteq Offers
  /\ raid \in [Alliances -> Hexes \cup {None}]
  /\ rally \in [Commanders -> Hexes \cup {None}]
  /\ frozen \subseteq Alliances
  /\ tick \in {"idle", "raids", "rallies", "reinforcements"}

AllyOf(o) == [h \in Hexes |-> IF o[h] = None THEN None ELSE Team[o[h]]]

\* What StartGame leaves: a neutral master tile, and a tile for every alliance.
Init ==
  /\ phase = "Playing"
  /\ winner = None
  /\ claimMode \in ClaimModes
  /\ winType \in WinTypes
  /\ hqOn \in BOOLEAN
  /\ owner \in [Hexes -> Players \cup {None}]
  /\ owner[Master] = None
  /\ ally = AllyOf(owner)
  /\ \A p \in Players : Territory(Team[p]) # {}
  /\ troops = [h \in Hexes |-> IF h = Master THEN 1 ELSE IF owner[h] = None THEN 0 ELSE StartTroops]
  /\ carried = [p \in Players |-> StartTroops]
  /\ offers = {}
  /\ raid = [a \in Alliances |-> None]
  /\ rally = [c \in Commanders |-> None]
  /\ frozen = {}
  /\ tick = "idle"

Playing == phase = "Playing"

----------------------------------------------------------------------------
(* The end of the game *)

Leaders ==
  {a \in Alliances : \A b \in Alliances :
     Cardinality(Territory(b)) <= Cardinality(Territory(a))}
Reached ==
  {a \in Alliances : Cardinality(Territory(a)) * 100 >= Cardinality(Claimable) * WinShare}
Survivors == {a \in Alliances : Territory(a) # {}}

\* Who may be declared winner now; in a timed game, if the time is over.
Winners ==
  CASE winType = "Percent" ->
         IF Reached # {} THEN Reached ELSE IF Claimed = Claimable THEN Leaders ELSE {}
    [] winType = "Elimination" -> IF Cardinality(Survivors) <= 1 THEN Leaders ELSE {}
    [] winType = "Timed" -> Leaders

\* Mutant: the check forgets that the game is over.
CheckWin_Again ==
  \/ /\ phase' = "GameOver"
     /\ winner' \in Winners'
  \/ /\ ~Playing \/ winType = "Timed" \/ Winners' = {}
     /\ UNCHANGED outcome

\* ApplyWinCondition, after the rest of an operation.
CheckWin ==
  \/ /\ Playing
     /\ phase' = "GameOver"
     /\ winner' \in Winners'
  \/ /\ ~Playing \/ winType = "Timed" \/ Winners' = {}
     /\ UNCHANGED outcome

\* A move changes nothing else here, but every move is checked.
UpdatePlayerLocation ==
  /\ Playing
  /\ UNCHANGED <<rules, hqOn, tiles, troops, carried, offers, calls, frozen, tick>>
  /\ CheckWin

----------------------------------------------------------------------------
(* Picking up and placing troops *)

Friendly(p, h) == owner[h] = p \/ ally[h] = Team[p]

\* Mutant: the hex stays with the old alliance.
SetCellOwner_OwnerOnly(p, h) ==
  /\ owner' = [owner EXCEPT ![h] = p]
  /\ UNCHANGED ally

SetCellOwner(p, h) ==
  /\ owner' = [owner EXCEPT ![h] = p]
  /\ ally' = [ally EXCEPT ![h] = Team[p]]

Carry(p, n) == carried' = [carried EXCEPT ![p] = n]

PickUpTroops(p, h, n) ==
  /\ Playing
  /\ h # Master
  /\ Friendly(p, h)
  /\ n <= troops[h]
  /\ carried[p] + n <= MaxTroops
  /\ troops' = [troops EXCEPT ![h] = @ - n]
  /\ Carry(p, carried[p] + n)
  /\ UNCHANGED <<rules, hqOn, tiles, offers, calls, frozen, tick>>
  /\ CheckWin

ReinforceHex(p, h, n) ==
  /\ Playing
  /\ h # Master
  /\ Friendly(p, h)
  /\ n <= carried[p]
  /\ troops[h] + n <= MaxTroops
  /\ troops' = [troops EXCEPT ![h] = @ + n]
  /\ Carry(p, carried[p] - n)
  /\ UNCHANGED <<rules, hqOn, tiles, offers, calls, frozen, tick>>
  /\ CheckWin

\* Troops a claim leaves on the hex.
Garrison == IF claimMode = "PresenceWithTroop" THEN 1 ELSE 0

ClaimCell(p, h) ==
  /\ Playing
  /\ h # Master
  /\ owner[h] = None
  /\ ~(hqOn /\ Team[p] \in frozen)
  /\ Garrison <= carried[p]
  /\ Garrison <= MaxTroops
  /\ SetCellOwner(p, h)
  /\ troops' = [troops EXCEPT ![h] = Garrison]
  /\ IF Garrison = 0 THEN UNCHANGED carried ELSE Carry(p, carried[p] - 1)
  /\ UNCHANGED <<rules, hqOn, offers, calls, frozen, tick>>

\* Mutant: the win check is left to a later operation.
ClaimNeutralHex_NotChecked(p, h) == ClaimCell(p, h) /\ UNCHANGED outcome

ClaimNeutralHex(p, h) == ClaimCell(p, h) /\ CheckWin

\* n against d troops, with bonuses of at most 1 for the attack, 2 for the
\* defence: whether the attack wins, who is left of it, and what stays behind.
Classic(n, d) ==
  LET won == [won |-> TRUE, left |-> IF n > d THEN n - d ELSE 1, stays |-> 0]
      cap == IF (n + 1) \div 2 <= d THEN (n + 1) \div 2 ELSE d
      loss == IF cap <= 1 THEN (IF n = 0 THEN 0 ELSE 1) ELSE cap
      lost == [won |-> FALSE, left |-> n - loss, stays |-> d]
  IN  {r \in {won, lost} : \E a \in 0 .. 1, b \in 0 .. 2 : r.won <=> n + a > d + b}

Dice(n, d) ==
  {[won |-> s = 0 /\ l > 0, left |-> l, stays |-> s] :
     l \in IF d = 0 THEN {n} ELSE 0 .. n, s \in IF n = 0 THEN {d} ELSE 0 .. d}

ResolveCombat(n, d) == Classic(n, d) \cup Dice(n, d)

\* Mutant: the headquarters are forgotten.
Immune_MasterOnly(h) == h = Master

\* Which hexes only a raid can take.
Immune(h) == h = Master \/ (hqOn /\ h \in HQs)

\* With no count given all carried troops attack, even if there are none.
AttackHex(p, h, n) ==
  /\ Playing
  /\ owner[h] # None
  /\ ~Friendly(p, h)
  /\ ~Immune(h)
  /\ n <= carried[p]
  /\ n = 0 => carried[p] = 0
  /\ \E r \in ResolveCombat(n, troops[h]) :
       /\ carried[p] - n + r.left <= MaxTroops
       /\ Carry(p, carried[p] - n + r.left)
       /\ troops' = [troops EXCEPT ![h] = r.stays]
       /\ IF r.won THEN SetCellOwner(p, h) ELSE UNCHANGED tiles
  /\ UNCHANGED <<rules, hqOn, offers, calls, frozen, tick>>
  /\ CheckWin

----------------------------------------------------------------------------
(* Troops that change hands otherwise *)

InitiateTroopTransfer(p, q, n) ==
  /\ Playing
  /\ Team[p] = Team[q]
  /\ n <= carried[p]
  /\ \A o \in offers : o.from # p \/ o.to # q
  /\ offers' = offers \cup {[from |-> p, to |-> q, amount |-> n]}
  /\ UNCHANGED <<outcome, rules, hqOn, tiles, troops, carried, calls, frozen, tick>>

HandOver(o) ==
  /\ o \in offers
  /\ carried[o.to] + o.amount <= MaxTroops
  /\ LET given == [carried EXCEPT ![o.from] = @ - o.amount]
     IN  carried' = [given EXCEPT ![o.to] = @ + o.amount]
  /\ offers' = offers \ {o}
  /\ UNCHANGED <<outcome, rules, hqOn, tiles, troops, calls, frozen, tick>>

AcceptTroopTransfer(o) ==
  /\ o.amount <= carried[o.from]
  /\ HandOver(o)

\* Declined, or expired.
DropTroopTransfer(o) ==
  /\ o \in offers
  /\ offers' = offers \ {o}
  /\ UNCHANGED <<outcome, rules, hqOn, tiles, troops, carried, calls, frozen, tick>>

\* All that matters here of a field battle: somebody has nothing left.
ResolveFieldBattle(left) ==
  /\ left # carried
  /\ \A p \in Players : left[p] <= carried[p]
  /\ \E p \in Players : left[p] = 0
  /\ carried' = left
  /\ UNCHANGED <<outcome, rules, hqOn, tiles, troops, offers, calls, frozen, tick>>

----------------------------------------------------------------------------
(* Raids and rallies *)

PeakReached == Cardinality(Claimed) * 100 >= Cardinality(Hexes) * HQRaidShare

CallRaid(c, h) ==
  /\ Playing
  /\ raid[Team[c]] = None
  /\ raid' = [raid EXCEPT ![Team[c]] = h]
  /\ UNCHANGED <<outcome, rules, hqOn, tiles, troops, carried, offers, rally, frozen, tick>>

ActivateCommandoRaid(c, h) ==
  /\ h \in HQs => PeakReached
  /\ CallRaid(c, h)

ActivateRallyPoint(c, h) ==
  /\ Playing
  /\ Friendly(c, h)
  /\ rally' = [rally EXCEPT ![c] = h]
  /\ UNCHANGED <<outcome, rules, hqOn, tiles, troops, carried, offers, raid, frozen, tick>>

ClaimFreezeEnds(a) ==
  /\ a \in frozen
  /\ frozen' = frozen \ {a}
  /\ UNCHANGED <<outcome, rules, hqOn, tiles, troops, carried, offers, calls, tick>>

----------------------------------------------------------------------------
(* The tick, for a room that was playing when the list was made *)

GetPlayingRoomCodes ==
  /\ tick = "idle"
  /\ Playing
  /\ tick' = "raids"
  /\ UNCHANGED <<outcome, rules, hqOn, tiles, troops, carried, offers, calls, frozen>>

\* Raids won are taken over by one of the attackers, at least two of whom are
\* there and more than defenders: two raids of the same hex are not both won.
Takes(won, taker) ==
  /\ \A a \in won : taker[a] \in Members(a) /\ Cardinality(Members(a)) >= 2
  /\ \A a, b \in won : raid[a] = raid[b] => a = b

ResolveRaids(won, taker) ==
  LET hit(h) == {a \in won : raid[a] = h}
      raider(h) == CHOOSE a \in hit(h) : TRUE
  IN  /\ owner' = [h \in Hexes |-> IF hit(h) = {} THEN owner[h] ELSE taker[raider(h)]]
      /\ ally' = [h \in Hexes |-> IF hit(h) = {} THEN ally[h] ELSE raider(h)]
      /\ frozen' = frozen \cup
           {CHOOSE b \in Alliances : HQ[b] = raid[a] : a \in {a \in won : raid[a] \in HQs}}

ResolveExpiredCommandoRaids(expired) ==
  /\ tick = "raids"
  /\ tick' = "rallies"
  /\ \A a \in expired : raid[a] # None
  /\ raid' = [a \in Alliances |-> IF a \in expired THEN None ELSE raid[a]]
  /\ UNCHANGED <<rules, hqOn, troops, carried, offers, rally>>
  /\ IF expired = {} THEN UNCHANGED <<outcome, tiles, frozen>>
     ELSE \E won \in SUBSET expired : \E taker \in [won -> Players] :
            /\ Takes(won, taker)
            /\ ResolveRaids(won, taker)
            /\ CheckWin

AtMost(n) == IF n <= MaxTroops THEN n ELSE MaxTroops

\* For each rally two troops for every ally who came, to whoever has the hex
\* by now; how many came is any number there can be.
Rallied(h, expired) ==
  LET here == {c \in expired : rally[c] = h}
  IN  IF here = {} THEN {troops[h]}
      ELSE {AtMost(troops[h] + 2 * k) : k \in 0 .. Cardinality(here) * Cardinality(Players)}

ResolveExpiredRallyPoints(expired) ==
  /\ tick = "rallies"
  /\ tick' = "reinforcements"
  /\ \A c \in expired : rally[c] # None
  /\ rally' = [c \in Commanders |-> IF c \in expired THEN None ELSE rally[c]]
  /\ troops' \in [Hexes -> Amounts]
  /\ \A h \in Hexes : troops'[h] \in Rallied(h, expired)
  /\ UNCHANGED <<outcome, rules, hqOn, tiles, carried, offers, raid, frozen>>

\* A neutral master tile grows.  An owned hex gains one, or three with friends
\* on it, or nothing with an enemy on it or sabotaged; a neglected one loses.
Regrown(h) ==
  IF owner[h] = None
  THEN {IF h = Master THEN AtMost(troops[h] + 1) ELSE troops[h]}
  ELSE {AtMost(troops[h] + g) : g \in {0, 1, 3}} \cup
       {n \in Amounts : h # Master /\ n = troops[h] - 1}

AddReinforcementsToAllHexes ==
  /\ tick = "reinforcements"
  /\ tick' = "idle"
  /\ UNCHANGED <<rules, hqOn, tiles, carried, offers, calls, frozen>>
  /\ \/ /\ ~Playing
        /\ UNCHANGED <<outcome, troops>>
     \/ /\ Playing
        /\ troops' \in [Hexes -> Amounts]
        /\ \A h \in Hexes : troops'[h] \in Regrown(h)
        /\ CheckWin

----------------------------------------------------------------------------
(* The host *)

UpdateGameDynamicsLive ==
  /\ Playing
  /\ hqOn' = ~hqOn
  /\ UNCHANGED <<outcome, rules, tiles, troops, carried, offers, calls, frozen, tick>>

\* Calamity strikes any hex, the other events owned ones; none is followed by
\* a win check, as none changes the territory.
TriggerGameEvent ==
  /\ Playing
  /\ \/ \E h \in Hexes : troops' = [troops EXCEPT ![h] = 0]
     \/ \E h \in Claimable :
          /\ ally[h] # None
          /\ troops' = [troops EXCEPT ![h] = IF @ <= 2 THEN 0 ELSE @ - 2]
     \/ \E lucky \in SUBSET Claimable :
          /\ \A h \in lucky : ally[h] # None
          /\ \A g, h \in lucky : ally[g] = ally[h] => g = h
          /\ troops' = [h \in Hexes |-> IF h \in lucky THEN AtMost(troops[h] + 2) ELSE troops[h]]
  /\ UNCHANGED <<outcome, rules, hqOn, tiles, carried, offers, calls, frozen, tick>>

----------------------------------------------------------------------------
PlayerActs(p) ==
  \/ \E h \in Hexes, n \in 1 .. MaxTroops : PickUpTroops(p, h, n) \/ ReinforceHex(p, h, n)
  \/ \E h \in Hexes : ClaimNeutralHex(p, h)
  \/ \E h \in Hexes, n \in Amounts : AttackHex(p, h, n)
  \/ \E q \in Players, n \in 1 .. MaxTroops : InitiateTroopTransfer(p, q, n)

CommanderActs(c) ==
  \E h \in Hexes : ActivateCommandoRaid(c, h) \/ ActivateRallyPoint(c, h)

Tick ==
  \/ GetPlayingRoomCodes
  \/ \E expired \in SUBSET Alliances : ResolveExpiredCommandoRaids(expired)
  \/ \E expired \in SUBSET Commanders : ResolveExpiredRallyPoints(expired)
  \/ AddReinforcementsToAllHexes

Next ==
  \/ \E p \in Players : PlayerActs(p)
  \/ \E c \in Commanders : CommanderActs(c)
  \/ \E o \in offers : AcceptTroopTransfer(o) \/ DropTroopTransfer(o)
  \/ \E left \in [Players -> Amounts] : ResolveFieldBattle(left)
  \/ \E a \in Alliances : ClaimFreezeEnds(a)
  \/ UpdatePlayerLocation
  \/ UpdateGameDynamicsLive
  \/ TriggerGameEvent
  \/ Tick

Spec == Init /\ [][Next]_vars

----------------------------------------------------------------------------
(* A hex and its owner are always of one alliance, and a neutral hex has   *)
(* no troops: PlaceTroops overwrites what lies on a hex it claims, and the *)
(* raids, rallies and events that reach a hex do not ask whose it is.      *)
BoardIsSound ==
  /\ ally = AllyOf(owner)
  /\ \A h \in Claimable : owner[h] = None => troops[h] = 0

(* A raid of a headquarters is only under way once two fifths of the map   *)
(* are claimed, also when it is resolved five minutes after the check in   *)
(* ActivateCommandoRaid.                                                   *)
HQRaidsAreUnlocked == \A a \in Alliances : raid[a] \in HQs => PeakReached

(* The master tile, and while headquarters count a headquarters of anybody *)
(* (PlaceTroops, the check of HQEnabled), change hands only in the tick,   *)
(* to an alliance that had a raid on them.                                 *)
ImmuneTilesFallToRaids ==
  [][\A h \in Hexes :
       /\ owner'[h] # owner[h]
       /\ h = Master \/ (hqOn /\ h \in HQs /\ owner[h] # None)
       => tick = "raids" /\ raid[ally'[h]] = h]_vars

(* No change of territory that decides the game goes unnoticed: the step   *)
(* that makes it also ends the game (ApplyWinConditionAndLog is called by  *)
(* every operation that changes owners).                                   *)
WinIsNoticed ==
  [][owner' # owner /\ Playing /\ winType # "Timed" /\ Winners' # {}
       => phase' = "GameOver" /\ winner' \in Winners']_vars

(* The winner stays the winner, although a tick begun before the end goes  *)
(* on and may still resolve raids: ApplyWinCondition looks at the phase.   *)
WinnerIsFinal == [][phase = "GameOver" => UNCHANGED outcome]_vars

=============================================================================
