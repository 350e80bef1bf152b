----------------------------- MODULE FieldBattle -----------------------------
(***************************************************************************)
(* Field battles in one Playing room.  A service call holds the room's     *)
(* SyncRoot and is one action; a hub method or timer that joins, flees or  *)
(* waits and then resolves is two, with a duty to resolve in between.      *)
(*                                                                         *)
(* A battle is in ActiveFieldBattles or gone: Resolved is set and the      *)
(* battle removed in one locked section, so nobody ever reads it as TRUE.  *)
(* Who owns a hex, the tactical strikes and the raids are other parts of   *)
(* the room: any hex may be free for a battle.                             *)
(***************************************************************************)
EXTENDS Integers, FiniteSetsExt, Functions

CONSTANTS
  Players,      \* the players of the room, each of whom has an alliance
  Side,         \* Side[p]: the AllianceId of p
  Grid,         \* the hexes of the map
  Beyond,       \* hexes outside the map that a player can walk to
  MaxTroops,    \* bound on the troops a player carries
  MaxBattles,   \* bound on the battles started
  MaxCrashes,   \* bound on crashes of the process
  HighestOnly,  \* the resolution modes in use: may only the strongest enemy count?
  Boosts,       \* the random bonuses of a side: 0..5, or {0} in the plain modes
  None,         \* no hex, no battle, no target, no cooldown
  Unknown,      \* the hex of a cooldown whose hex was not saved
  Timer         \* the 30-second task of a battle

Places == Grid \cup Beyond
Battles == 1..MaxBattles
Fights ==
  [starter : Players, at : Grid, target : Players \cup {None},
   joined : SUBSET Players, fled : SUBSET Players, open : BOOLEAN]

ASSUME BoundsAreNats == MaxTroops \in Nat /\ MaxBattles \in Nat
ASSUME ModesInUse == HighestOnly \subseteq BOOLEAN /\ Boosts \subseteq Nat
ASSUME OddOnesOut ==
  /\ None \notin Places \cup Players \cup Fights
  /\ Unknown \notin Places \cup {None}
  /\ Timer \notin Players

VARIABLES
  hex,        \* CurrentHexQ/R of a player, or None
  gps,        \* where CurrentLat/Lng put a player without current hex, or None
  carried,    \* CarriedTroops
  cooldown,   \* None, or the hex of FieldBattleCooldownUntil, or Unknown
  battle,     \* battle[b]: the battle as it is in ActiveFieldBattles, or None
  started,    \* battles started so far; they are listed in this order
  duties,     \* <<b, who>>: who (a hub call, the timer) is still to resolve b
  fought,     \* history: where a player last fought, until reporting another hex
  saved,      \* the snapshot a restart would restore
  crashes

vars == <<hex, gps, carried, cooldown, battle, started, duties, fought, saved, crashes>>

\* What a restart brings back of a snapshot: no locations, and of a cooldown
\* its time (SnapshotState copies FieldBattleCooldownUntil, not its hex).
Snapshot ==
  [carried |-> carried, battle |-> battle, fought |-> fought,
   cooldown |-> [p \in Players |-> IF cooldown[p] = None THEN None ELSE Unknown]]

\* QueuePersistence; nothing reads the snapshot once no crash can follow.
Save == saved' = IF crashes < MaxCrashes THEN Snapshot' ELSE saved

Init ==
  /\ hex = [p \in Players |-> None]
  /\ gps = hex
  /\ carried = [p \in Players |-> 0]
  /\ cooldown = [p \in Players |-> None]
  /\ battle = [b \in Battles |-> None]
  /\ started = 0
  /\ duties = {}
  /\ fought = [p \in Players |-> None]
  /\ saved = Snapshot
  /\ crashes = 0

Live == {b \in Battles : battle[b] # None}

\* TryGetCurrentHex: without a current hex, the last coordinates decide.
Near(p) == IF hex[p] # None THEN hex[p] ELSE gps[p]

Enemies(p, q) == Side[p] # Side[q]

----------------------------------------------------------------------------
(* Moving *)

\* The targeted battles of p; a move looks at the first of the list only.
Targeting(p) == {b \in Live : battle[b].target = p}
Fleeing(p, moved, h) ==
  {b \in Targeting(p) : /\ moved
                        /\ \A c \in Targeting(p) : b <= c
                        /\ battle[b].at # h
                        /\ p \notin battle[b].fled}

\* The move marks p as fled, and the hub method goes on to resolve the battle.
Flee(p, fleeing) ==
  /\ battle' = [b \in Battles |->
       IF b \in fleeing THEN [battle[b] EXCEPT !.fled = @ \cup {p}] ELSE battle[b]]
  /\ duties' = duties \cup (fleeing \X {p})

\* The phone reports coordinates: the cooldown ends away from its hex.
UpdatePlayerLocation(p, h) ==
  /\ hex' = [hex EXCEPT ![p] = h]
  /\ gps' = [gps EXCEPT ![p] = None]
  /\ cooldown' = IF cooldown[p] \in Places \ {h} THEN [cooldown EXCEPT ![p] = None] ELSE cooldown
  /\ fought' = IF fought[p] # h THEN [fought EXCEPT ![p] = None] ELSE fought
  /\ Flee(p, Fleeing(p, Near(p) # h, h))
  /\ UNCHANGED <<carried, started, saved, crashes>>

\* The client reports a hex, which counts only on the map.  Off the map the
\* last coordinates, new or old, are what is left.  No cooldown is looked at.
UpdatePlayerPosition(p, h) ==
  /\ hex' = [hex EXCEPT ![p] = IF h \in Grid THEN h ELSE None]
  /\ \E g \in IF h \in Grid THEN {None} ELSE Places \cup {None} :
       gps' = [gps EXCEPT ![p] = g]
  /\ Flee(p, Fleeing(p, hex'[p] # hex[p], hex'[p]))
  /\ UNCHANGED <<carried, cooldown, started, fought, saved, crashes>>

\* PickUpTroops and PlaceTroops also set the location, and detect no flight.
ChangeTroops(p, h, n) ==
  /\ carried' = [carried EXCEPT ![p] = n]
  /\ hex' = [hex EXCEPT ![p] = h]
  /\ gps' = [gps EXCEPT ![p] = None]
  /\ UNCHANGED <<cooldown, battle, started, duties, fought, crashes>>
  /\ Save

PickUpTroops(p, h) == \E n \in carried[p] + 1 .. MaxTroops : ChangeTroops(p, h, n)

\* A placement that is refused late has already set the location, unsaved.
PlaceTroops(p, h) ==
  \/ \E n \in 0 .. carried[p] : ChangeTroops(p, h, n)
  \/ /\ hex' = [hex EXCEPT ![p] = h]
     /\ gps' = [gps EXCEPT ![p] = None]
     /\ UNCHANGED <<carried, cooldown, battle, started, duties, fought, saved, crashes>>

\* An ally accepts the troops p offered, wherever the two are.
RespondToTroopTransfer(p, ally) ==
  /\ ally # p /\ ~Enemies(p, ally)
  /\ \E n \in 1 .. carried[p] :
       /\ carried[ally] + n <= MaxTroops
       /\ carried' = [carried EXCEPT ![p] = @ - n, ![ally] = @ + n]
  /\ UNCHANGED <<hex, gps, cooldown, battle, started, duties, fought, crashes>>
  /\ Save

\* The regeneration tick changes hexes only, and saves the room as it is.
AddReinforcementsToAllHexes ==
  /\ UNCHANGED <<hex, gps, carried, cooldown, battle, started, duties, fought, crashes>>
  /\ Save

\* RemoveConnection of the last connection: the battles p started are dropped.
RemoveConnection(p) ==
  /\ battle' = [b \in Battles |->
       IF b \in Live /\ battle[b].starter = p THEN None ELSE battle[b]]
  /\ hex' = [hex EXCEPT ![p] = None]
  /\ gps' = [gps EXCEPT ![p] = None]
  /\ UNCHANGED <<carried, cooldown, started, duties, fought, crashes>>
  /\ Save

----------------------------------------------------------------------------
(* Starting, joining, fleeing *)

CanBeFought(p, h) == carried[p] > 0 /\ Near(p) = h

\* ChallengePlayer and InitiateFieldBattle; the hub then starts the timer.
CreateFieldBattle(p, target) ==
  /\ started < MaxBattles
  /\ Near(p) \in Grid /\ carried[p] > 0 /\ cooldown[p] = None
  /\ \A b \in Live : battle[b].starter # p /\ battle[b].at # Near(p)
  /\ \E q \in Players : Enemies(p, q) /\ CanBeFought(q, Near(p))
  /\ target # None => Enemies(p, target) /\ CanBeFought(target, Near(p))
  /\ started' = started + 1
  /\ battle' = [battle EXCEPT ![started'] =
       [starter |-> p, at |-> Near(p), target |-> target, joined |-> {}, fled |-> {}, open |-> TRUE]]
  /\ duties' = duties \cup {<<started', Timer>>}
  /\ UNCHANGED <<hex, gps, carried, cooldown, fought, crashes>>
  /\ Save

\* Mutant: a battle with a target can be joined by any enemy.
JoinFieldBattle_TargetNotChecked(p, b) ==
  /\ b \in Live /\ battle[b].open
  /\ Enemies(p, battle[b].starter)
  /\ CanBeFought(p, battle[b].at)
  /\ p \notin battle[b].joined
  /\ battle' = [battle EXCEPT ![b].joined = @ \cup {p}]
  /\ duties' = duties \cup {<<b, p>>}
  /\ UNCHANGED <<hex, gps, carried, cooldown, started, fought, saved, crashes>>

\* The joiner's hub call then resolves the battle.
JoinFieldBattle(p, b) ==
  /\ b \in Live /\ battle[b].open
  /\ Enemies(p, battle[b].starter)
  /\ battle[b].target \in {None, p}
  /\ CanBeFought(p, battle[b].at)
  /\ p \notin battle[b].joined
  /\ battle' = [battle EXCEPT ![b].joined = @ \cup {p}]
  /\ duties' = duties \cup {<<b, p>>}
  /\ UNCHANGED <<hex, gps, carried, cooldown, started, fought, saved, crashes>>

\* The initiator picks a target among those who joined.
SelectFieldBattleTarget(b, target) ==
  /\ b \in Live /\ battle[b].open
  /\ battle[b].target = None
  /\ target \in battle[b].joined \ battle[b].fled
  /\ Enemies(target, battle[b].starter)
  /\ CanBeFought(target, battle[b].at)
  /\ battle' = [battle EXCEPT ![b].target = target]
  /\ UNCHANGED <<hex, gps, carried, cooldown, started, duties, fought, crashes>>
  /\ Save

\* The target gives up without moving; the hub call then resolves the battle.
FleeBattle(p, b) ==
  /\ b \in Live /\ battle[b].open
  /\ battle[b].target = p
  /\ p \notin battle[b].fled
  /\ Flee(p, {b})
  /\ UNCHANGED <<hex, gps, carried, cooldown, started, fought, saved, crashes>>

\* 30 seconds pass.
CloseWindow(b) ==
  /\ b \in Live /\ battle[b].open
  /\ battle' = [battle EXCEPT ![b].open = FALSE]
  /\ UNCHANGED <<hex, gps, carried, cooldown, started, duties, fought, saved, crashes>>

----------------------------------------------------------------------------
(* Resolving *)

Troops(S) == SumFunctionOnSet(carried, S)
HalfUp(n) == (n + 1) \div 2

Least(m, n) == IF m <= n THEN m ELSE n

\* The stronger of two enemies pays first; equals pay in the order of their ids,
\* which is any order here.
PaysAll(losses, E) ==
  \A e \in E : losses[e] > 0 =>
    \A d \in E : carried[d] > carried[e] => losses[d] = carried[d]
PaidOneByOne(losses, E) ==
  \A d, e \in E : d # e /\ losses[d] \in 1 .. carried[d] - 1 =>
    losses[e] \in {0, carried[e]}
Losses(E, total) ==
  {losses \in [E -> 0..MaxTroops] :
     /\ \A e \in E : losses[e] <= carried[e]
     /\ SumFunction(losses) = total
     /\ PaysAll(losses, E)
     /\ PaidOneByOne(losses, E)}

\* The participants get the cooldown, and the battle is over.
EndBattle(b, participants) ==
  /\ cooldown' = [p \in Players |-> IF p \in participants THEN battle[b].at ELSE cooldown[p]]
  /\ fought' = [p \in Players |-> IF p \in participants THEN battle[b].at ELSE fought[p]]
  /\ battle' = [battle EXCEPT ![b] = None]
  /\ UNCHANGED <<hex, gps, started, crashes>>
  /\ Save

\* Mutant: a target that has fled leaves the battle unopposed.
Unopposed_WhenTargetFled(b) ==
  /\ battle[b].joined = {} \/ battle[b].fled # {}
  /\ UNCHANGED carried
  /\ EndBattle(b, {battle[b].starter})

\* Nobody joined: the initiator wins, and pays nothing.
Unopposed(b) ==
  /\ battle[b].joined = {}
  /\ UNCHANGED carried
  /\ EndBattle(b, {battle[b].starter})

\* Mutant: the whole other side loses its troops, also those who never joined.
InitiatorWins_OtherSidePays(b, own, theirs) ==
  /\ own >= theirs
  /\ carried' = [p \in Players |-> IF Side[p] # Side[battle[b].starter] THEN 0
                    ELSE IF p = battle[b].starter
                      THEN carried[p] - Least(carried[p], HalfUp(theirs))
                    ELSE carried[p]]

\* The initiator wins ties; the winner pays half the strength it overcame.
InitiatorWins(b, own, theirs) ==
  /\ own >= theirs
  /\ \E loss \in 0 .. carried[battle[b].starter] :
       /\ loss = Least(carried[battle[b].starter], HalfUp(theirs))
       /\ carried' = [p \in Players |-> IF p \in battle[b].joined THEN 0
                                       ELSE IF p = battle[b].starter THEN carried[p] - loss
                                       ELSE carried[p]]

EnemiesWin(b, own, theirs) ==
  /\ own < theirs
  /\ \E losses \in Losses(battle[b].joined, Least(Troops(battle[b].joined), HalfUp(own))) :
       carried' = [p \in Players |-> IF p \in battle[b].joined THEN carried[p] - losses[p]
                                    ELSE IF p = battle[b].starter THEN 0
                                    ELSE carried[p]]

\* The mode and the troops are those of the moment of the resolution.
Fight(b) ==
  /\ battle[b].joined # {}
  /\ \E highest \in HighestOnly, x, y \in Boosts :
       LET E == battle[b].joined
           own == carried[battle[b].starter] + x
           theirs == y + IF highest THEN Max({carried[e] : e \in E}) ELSE Troops(E)
       IN InitiatorWins(b, own, theirs) \/ EnemiesWin(b, own, theirs)
  /\ EndBattle(b, {battle[b].starter} \cup battle[b].joined)

\* The timer of b does not resolve it before the window closes.
Due(b, who) ==
  /\ <<b, who>> \in duties
  /\ who = Timer /\ b \in Live => ~battle[b].open

ResolveFieldBattle(b, who) ==
  /\ Due(b, who)
  /\ duties' = duties \ {<<b, who>>}
  /\ IF b \in Live THEN Unopposed(b) \/ Fight(b)
     ELSE UNCHANGED <<hex, gps, carried, cooldown, battle, started, fought, saved, crashes>>

\* Mutant: battles that somebody joined are kept.
CleanupRoomBattles_KeepsJoined(b) ==
  /\ b \in Live /\ ~battle[b].open
  /\ battle[b].joined = {}
  /\ <<b, Timer>> \notin duties
  /\ battle' = [battle EXCEPT ![b] = None]
  /\ UNCHANGED <<hex, gps, carried, cooldown, started, duties, fought, saved, crashes>>

\* FieldBattleCleanupService removes what is ten minutes old: by then the
\* timer of this process has fired, or the process that had it is gone.
CleanupRoomBattles(b) ==
  /\ b \in Live /\ ~battle[b].open
  /\ <<b, Timer>> \notin duties
  /\ battle' = [battle EXCEPT ![b] = None]
  /\ UNCHANGED <<hex, gps, carried, cooldown, started, duties, fought, saved, crashes>>

\* Twenty-four hours pass.
CooldownExpires(p) ==
  /\ cooldown[p] # None
  /\ cooldown' = [cooldown EXCEPT ![p] = None]
  /\ fought' = [fought EXCEPT ![p] = None]
  /\ UNCHANGED <<hex, gps, carried, battle, started, duties, saved, crashes>>

\* The process dies, its timers with it, and the saved room comes back.
CrashAndRestore ==
  /\ crashes < MaxCrashes
  /\ crashes' = crashes + 1
  /\ hex' = [p \in Players |-> None]
  /\ gps' = hex'
  /\ carried' = saved.carried
  /\ cooldown' = saved.cooldown
  /\ battle' = saved.battle
  /\ fought' = saved.fought
  /\ duties' = {}
  /\ UNCHANGED <<started, saved>>

----------------------------------------------------------------------------
Player(p) ==
  \/ \E h \in Places : \/ UpdatePlayerLocation(p, h)
                        \/ UpdatePlayerPosition(p, h)
                        \/ PickUpTroops(p, h)
                        \/ PlaceTroops(p, h)
  \/ \E ally \in Players : RespondToTroopTransfer(p, ally)
  \/ RemoveConnection(p)
  \/ \E target \in Players \cup {None} : CreateFieldBattle(p, target)
  \/ \E b \in Battles : JoinFieldBattle(p, b) \/ FleeBattle(p, b)
  \/ CooldownExpires(p)

Next ==
  \/ \E p \in Players : Player(p)
  \/ \E b \in Battles :
       \/ \E target \in Players : SelectFieldBattleTarget(b, target)
       \/ CloseWindow(b)
       \/ \E who \in Players \cup {Timer} : ResolveFieldBattle(b, who)
       \/ CleanupRoomBattles(b)
  \/ AddReinforcementsToAllHexes
  \/ CrashAndRestore

Spec == Init /\ [][Next]_vars

(* The clock advances, the thread pool runs timers and hub calls to their   *)
(* end, and the cleanup service ticks; players owe the server nothing.      *)
FairSpec ==
  /\ Spec
  /\ \A b \in Battles :
       /\ WF_vars(CloseWindow(b))
       /\ WF_vars(CleanupRoomBattles(b))
       /\ \A who \in Players \cup {Timer} : WF_vars(ResolveFieldBattle(b, who))

----------------------------------------------------------------------------
FightsOrNone == [Battles -> Fights \cup {None}]
Whereabouts == [Players -> Places \cup {None}]
Carriers == [Players -> 0..MaxTroops]
Cooldowns == [Players -> Places \cup {None, Unknown}]

\* Every variable keeps its shape; in particular no battle leaves a player with
\* a negative number of troops.
TypeOK ==
  /\ hex \in Whereabouts /\ gps \in Whereabouts
  /\ carried \in Carriers
  /\ cooldown \in Cooldowns
  /\ battle \in FightsOrNone
  /\ started \in 0..MaxBattles
  /\ duties \subseteq Battles \X (Players \cup {Timer})
  /\ fought \in Whereabouts
  /\ saved \in [carried : Carriers, battle : FightsOrNone, fought : Whereabouts,
               cooldown : Cooldowns]
  /\ crashes \in Nat

\* A hex has one battle and a player has started one, across restarts as well.
OneBattleAtATime ==
  \A b, c \in Live :
    b # c => battle[b].at # battle[c].at /\ battle[b].starter # battle[c].starter

\* Whatever joins, targets and flights cross each other: those in a battle are
\* enemies of its initiator, a battle with a target has nobody in it who joined
\* after the target was chosen, and nobody flees but the target.
WhoMayFight ==
  \A b \in Live : LET f == battle[b] IN
    /\ \A p \in f.joined : Enemies(p, f.starter)
    /\ f.target # None =>
         Enemies(f.target, f.starter) /\ (f.target \in f.joined \/ f.joined = {})
    /\ f.fled \subseteq {f.target}

\* A battle started by this process has its timer, however the hub calls of
\* joiners and fleeing targets went: it needs no cleanup.
TimerIsComing == crashes = 0 => \A b \in Live : <<b, Timer>> \in duties

\* Joining counts: whichever hub call or timer ends a battle, it is fought by
\* all who had joined by then, fled or not, wherever they have gone since.
JoinersFight ==
  [][\A b \in Live :
       battle'[b] = None /\ duties' # duties /\ crashes' = crashes =>
         \A p \in battle[b].joined : fought'[p] = battle[b].at]_vars

\* A fight makes nobody richer, costs a bystander nothing, and leaves the
\* initiator or everybody who joined without troops.
FightsAreDecisive ==
  [][\A b \in Live :
       LET f == battle[b]
           fighters == {f.starter} \cup f.joined
       IN battle'[b] = None /\ crashes' = crashes /\ duties' # duties =>
            /\ \A p \in Players : carried'[p] <= carried[p]
            /\ \A p \in Players \ fighters : carried'[p] = carried[p]
            /\ f.joined # {} => carried'[f.starter] = 0 \/ \A p \in f.joined : carried'[p] = 0]_vars

\* Who has fought on a hex cannot start a battle there until the phone has
\* reported another place or a day has passed; a restart changes nothing.
NoRematchInPlace ==
  [][\A b \in Battles :
       battle[b] = None /\ battle'[b] # None /\ crashes' = crashes =>
         fought[battle'[b].starter] # battle'[b].at]_vars

\* No battle stays in the list: its initiator and its hex become free again.
EveryBattleEnds == \A b \in Battles : (b \in Live) ~> (b \notin Live)

----------------------------------------------------------------------------
(* What the program says of itself, and does not do *)

\* en.ts: "Move away from this tile within {{seconds}} seconds to flee."
LeavingIsFleeing ==
  \A b \in Live : LET t == battle[b].target IN
    battle[b].open /\ t # None /\ hex[t] \in Places \ {battle[b].at} => t \in battle[b].fled

\* GameplayService.cs: "Position-based cooldown - clear when player moves off
\* the cooldown hex".
CooldownEndsOffHex ==
  [][\A p \in Players, h \in Places :
       UpdatePlayerLocation(p, h) /\ h # fought[p] => cooldown'[p] = None]_vars
=============================================================================
