------------------------ MODULE TroopEconomy_proofs ------------------------
(***************************************************************************)
(* Proofs of the properties of TroopEconomy for any players, alliances,    *)
(* map, headquarters and bounds.                                           *)
(***************************************************************************)
EXTENDS TroopEconomy, FiniteSetTheorems, TLAPS

(* A rally is on a hex that somebody owned when it was called, and hexes   *)
(* never become neutral again: so rallied troops never lie on a neutral    *)
(* hex.  Without this BoardIsSound is not inductive.                       *)
RalliesAreOnOwnedHexes ==
  \A c \in Commanders : rally[c] # None => owner[rally[c]] # None

IInv ==
  /\ TypeOK
  /\ BoardIsSound
  /\ HQRaidsAreUnlocked
  /\ RalliesAreOnOwnedHexes

Assumptions ==
  /\ Team \in [Players -> Alliances]
  /\ Commanders \subseteq Players
  /\ Master \in Hexes
  /\ None \notin Players
  /\ None \notin Alliances
  /\ None \notin Hexes
  /\ MaxTroops \in Nat
  /\ MaxTroops >= 1
  /\ StartTroops \in Amounts
  /\ IsFiniteSet(Hexes)
  /\ HQRaidShare \in Nat
  /\ WinTypes \subseteq {"Percent", "Elimination", "Timed"}

(* The assumptions on the constants, in the form the proofs use.           *)
LEMMA ConstantsAreSound == Assumptions
  BY TeamsAreAlliances, CommandersPlay, MasterIsHex, NoneIsNothing, BoundIsNat, MapIsFinite,
     ShareIsNat, WinTypesAreKnown DEF Assumptions, Amounts

(* Only alliances win.                                                     *)
LEMMA WinnersAreAlliances == winType' \in WinTypes => Winners' \subseteq Alliances
<1> SUFFICES ASSUME winType' \in WinTypes PROVE Winners' \subseteq Alliances
  OBVIOUS
<1>1. Leaders' \subseteq Alliances /\ Reached' \subseteq Alliances
  BY DEF Leaders, Reached
<1>2. winType' \in {"Percent", "Elimination", "Timed"}
  BY WinTypesAreKnown
<1> QED
  BY <1>1, <1>2 DEF Winners

(* A win check leaves a proper outcome.                                    *)
LEMMA CheckWinType ==
  ASSUME TypeOK, CheckWin, winType' = winType
  PROVE  phase' \in {"Playing", "GameOver"} /\ winner' \in Alliances \cup {None}
<1>1. winType' \in WinTypes
  BY DEF TypeOK
<1> QED
  BY <1>1, WinnersAreAlliances DEF TypeOK, CheckWin, outcome

(* What combat leaves of the two sides.                                    *)
LEMMA CombatLeaves ==
  ASSUME NEW n \in Nat, NEW d \in Nat, NEW r \in ResolveCombat(n, d)
  PROVE  /\ r.won \in BOOLEAN
         /\ r.left \in Nat
         /\ r.stays \in 0 .. d
<1>1. CASE r \in Classic(n, d)
  <2> DEFINE won == [won |-> TRUE, left |-> IF n > d THEN n - d ELSE 1, stays |-> 0]
             cap == IF (n + 1) \div 2 <= d THEN (n + 1) \div 2 ELSE d
             loss == IF cap <= 1 THEN (IF n = 0 THEN 0 ELSE 1) ELSE cap
             lost == [won |-> FALSE, left |-> n - loss, stays |-> d]
  <2>1. (n + 1) \div 2 \in Nat /\ (n >= 1 => (n + 1) \div 2 <= n) /\ (n = 0 => (n + 1) \div 2 = 0)
    OBVIOUS
  <2> HIDE DEF cap
  <2>2. cap \in Nat /\ (n >= 1 => cap <= n) /\ (n = 0 => cap = 0)
    BY <2>1 DEF cap
  <2>3. n - loss \in Nat
    BY <2>2
  <2>4. (IF n > d THEN n - d ELSE 1) \in Nat
    OBVIOUS
  <2> HIDE DEF loss
  <2>5. won.won \in BOOLEAN /\ won.left \in Nat /\ won.stays \in 0 .. d
    BY <2>4
  <2>6. lost.won \in BOOLEAN /\ lost.left \in Nat /\ lost.stays \in 0 .. d
    BY <2>3
  <2>7. r = won \/ r = lost
    BY <1>1 DEF Classic, cap, loss
  <2> QED
    BY <2>5, <2>6, <2>7
<1>2. CASE r \in Dice(n, d)
  <2>1. PICK l \in (IF d = 0 THEN {n} ELSE 0 .. n), s \in (IF n = 0 THEN {d} ELSE 0 .. d) :
          r = [won |-> s = 0 /\ l > 0, left |-> l, stays |-> s]
    BY <1>2 DEF Dice
  <2>2. l \in Nat /\ s \in 0 .. d
    BY <2>1
  <2> QED
    BY <2>1, <2>2
<1> QED
  BY <1>1, <1>2 DEF ResolveCombat

(* A hex that is somebody's, alone or with the alliance, is not neutral.   *)
LEMMA FriendlyIsOwned ==
  ASSUME TypeOK, BoardIsSound, NEW p \in Players, NEW h \in Hexes, Friendly(p, h)
  PROVE  owner[h] # None
  BY ConstantsAreSound DEF Assumptions, TypeOK, BoardIsSound, AllyOf, Friendly

(* Once enough of the map is claimed, it is as long as no hex becomes      *)
(* neutral again.                                                          *)
LEMMA PeakStays ==
  ASSUME TypeOK, \A h \in Hexes : owner[h] # None => owner'[h] # None, PeakReached
  PROVE  PeakReached'
<1>1. Claimed \subseteq Claimed' /\ Claimed' \subseteq Hexes
  BY DEF Claimed, Claimable
<1>2. IsFiniteSet(Claimed') /\ Cardinality(Claimed) <= Cardinality(Claimed')
  BY <1>1, FS_Subset, ConstantsAreSound DEF Assumptions
<1>3. IsFiniteSet(Claimed)
  BY <1>1, <1>2, FS_Subset
<1>4. Cardinality(Claimed) \in Nat /\ Cardinality(Claimed') \in Nat /\ Cardinality(Hexes) \in Nat
  BY <1>2, <1>3, FS_CardinalityType, ConstantsAreSound DEF Assumptions
<1>5. Cardinality(Hexes) * HQRaidShare \in Nat
  BY <1>4, ConstantsAreSound DEF Assumptions
<1> DEFINE bar == Cardinality(Hexes) * HQRaidShare
<1>6. bar \in Nat
  BY <1>5
<1>7. Cardinality(Claimed) * 100 >= bar
  BY DEF PeakReached
<1> HIDE DEF bar
<1>8. Cardinality(Claimed') * 100 >= bar
  BY <1>2, <1>4, <1>6, <1>7
<1> QED
  BY <1>8 DEF PeakReached, bar

(* What the raids and rallies need of any step.                            *)
LEMMA CallsStaySound ==
  ASSUME IInv,
         \A h \in Hexes : owner[h] # None => owner'[h] # None,
         \A a \in Alliances : raid'[a] \in {raid[a], None},
         \A c \in Commanders : rally'[c] \in {rally[c], None}
  PROVE  HQRaidsAreUnlocked' /\ RalliesAreOnOwnedHexes'
<1>1. HQRaidsAreUnlocked'
  BY PeakStays, ConstantsAreSound DEF IInv, HQRaidsAreUnlocked, HQs, Assumptions
<1>2. RalliesAreOnOwnedHexes'
  BY DEF IInv, TypeOK, RalliesAreOnOwnedHexes
<1> QED
  BY <1>1, <1>2

(* Nothing that leaves the board alone makes it unsound.                   *)
LEMMA BoardUntouched ==
  ASSUME BoardIsSound, UNCHANGED <<tiles, troops>>
  PROVE  BoardIsSound'
  BY DEF BoardIsSound, AllyOf, tiles

(* A hex taken by a player is the alliance's too.                          *)
LEMMA TakenForTheAlliance ==
  ASSUME TypeOK, ally = AllyOf(owner), NEW p \in Players, NEW h \in Hexes, SetCellOwner(p, h)
  PROVE  /\ owner' \in [Hexes -> Players \cup {None}]
         /\ ally' \in [Hexes -> Alliances \cup {None}]
         /\ ally' = AllyOf(owner')
         /\ \A g \in Hexes : owner[g] # None => owner'[g] # None
         /\ \A g \in Hexes : owner'[g] = None => owner[g] = None /\ g # h
<1>1. owner' = [owner EXCEPT ![h] = p] /\ ally' = [ally EXCEPT ![h] = Team[p]]
  BY DEF SetCellOwner
<1>2. Team[p] \in Alliances /\ p # None
  BY ConstantsAreSound DEF Assumptions
<1>3. owner' \in [Hexes -> Players \cup {None}] /\ ally' \in [Hexes -> Alliances \cup {None}]
  BY <1>1, <1>2 DEF TypeOK
<1>4. \A g \in Hexes : owner'[g] = IF g = h THEN p ELSE owner[g]
  BY <1>1 DEF TypeOK
<1>5. \A g \in Hexes : ally'[g] = IF owner'[g] = None THEN None ELSE Team[owner'[g]]
  <2> SUFFICES ASSUME NEW g \in Hexes
               PROVE  ally'[g] = IF owner'[g] = None THEN None ELSE Team[owner'[g]]
    OBVIOUS
  <2>1. CASE g = h
    BY <1>1, <1>2, <1>4, <2>1 DEF TypeOK
  <2>2. CASE g # h
    <3>1. ally'[g] = ally[g] /\ owner'[g] = owner[g]
      BY <1>1, <2>2 DEF TypeOK
    <3> QED
      BY <3>1 DEF AllyOf
  <2> QED
    BY <2>1, <2>2
<1>6. ally' = AllyOf(owner')
  BY <1>3, <1>5 DEF AllyOf
<1> QED
  BY <1>2, <1>3, <1>4, <1>6

(* A raid that is won gives its hex to the raiding alliance.               *)
LEMMA RaidsTakeForTheAlliance ==
  ASSUME TypeOK, ally = AllyOf(owner),
         NEW won \in SUBSET Alliances, NEW taker \in [won -> Players],
         Takes(won, taker), ResolveRaids(won, taker)
  PROVE  /\ owner' \in [Hexes -> Players \cup {None}]
         /\ ally' \in [Hexes -> Alliances \cup {None}]
         /\ frozen' \subseteq Alliances
         /\ ally' = AllyOf(owner')
         /\ \A h \in Hexes : owner[h] # None => owner'[h] # None
         /\ \A h \in Hexes : owner'[h] # owner[h] => ally'[h] \in won /\ raid[ally'[h]] = h
<1> DEFINE hit(h) == {a \in won : raid[a] = h}
           raider(h) == CHOOSE a \in hit(h) : TRUE
<1>1. /\ owner' = [h \in Hexes |-> IF hit(h) = {} THEN owner[h] ELSE taker[raider(h)]]
      /\ ally' = [h \in Hexes |-> IF hit(h) = {} THEN ally[h] ELSE raider(h)]
  BY DEF ResolveRaids
<1>2. \A h \in Hexes : hit(h) # {} => raider(h) \in hit(h)
  OBVIOUS
<1>3. \A h \in Hexes : hit(h) # {} =>
        /\ raider(h) \in won
        /\ raid[raider(h)] = h
        /\ taker[raider(h)] \in Players
        /\ Team[taker[raider(h)]] = raider(h)
  BY <1>2 DEF Takes, Members
<1> HIDE DEF hit, raider
<1>4. owner' \in [Hexes -> Players \cup {None}] /\ ally' \in [Hexes -> Alliances \cup {None}]
  BY <1>1, <1>3 DEF TypeOK
<1>5. frozen' \subseteq Alliances
  <2>1. \A a \in won : raid[a] \in HQs => (CHOOSE b \in Alliances : HQ[b] = raid[a]) \in Alliances
    BY DEF HQs
  <2> QED
    BY <2>1 DEF ResolveRaids, TypeOK
<1>6. \A h \in Hexes : ally'[h] = IF owner'[h] = None THEN None ELSE Team[owner'[h]]
  <2> SUFFICES ASSUME NEW h \in Hexes
               PROVE  ally'[h] = IF owner'[h] = None THEN None ELSE Team[owner'[h]]
    OBVIOUS
  <2>1. CASE hit(h) = {}
    <3>1. ally'[h] = ally[h] /\ owner'[h] = owner[h]
      BY <1>1, <2>1
    <3> QED
      BY <3>1 DEF AllyOf
  <2>2. CASE hit(h) # {}
    BY <1>1, <1>3, <2>2, ConstantsAreSound DEF Assumptions
  <2> QED
    BY <2>1, <2>2
<1>7. ally' = AllyOf(owner')
  BY <1>4, <1>6 DEF AllyOf
<1>8. \A h \in Hexes : owner[h] # None => owner'[h] # None
  BY <1>1, <1>3, ConstantsAreSound DEF Assumptions
<1>9. \A h \in Hexes : owner'[h] # owner[h] => ally'[h] \in won /\ raid[ally'[h]] = h
  BY <1>1, <1>3
<1> QED
  BY <1>4, <1>5, <1>7, <1>8, <1>9

----------------------------------------------------------------------------
(* The invariant, operation by operation *)

LEMMA InitSound == Init => IInv
<1> SUFFICES ASSUME Init PROVE IInv
  OBVIOUS
<1> USE ConstantsAreSound DEF Assumptions
<1>1. owner \in [Hexes -> Players \cup {None}] /\ ally = AllyOf(owner)
  BY DEF Init
<1>2. ally \in [Hexes -> Alliances \cup {None}]
  BY <1>1 DEF AllyOf
<1>3. troops \in [Hexes -> Amounts]
  BY DEF Init, Amounts
<1>4. TypeOK
  BY <1>1, <1>2, <1>3 DEF Init, TypeOK, Offers
<1>5. BoardIsSound
  BY <1>1 DEF Init, BoardIsSound, Claimable
<1>6. HQRaidsAreUnlocked /\ RalliesAreOnOwnedHexes
  BY DEF Init, HQRaidsAreUnlocked, RalliesAreOnOwnedHexes, HQs
<1> QED
  BY <1>4, <1>5, <1>6 DEF IInv

LEMMA MoveSound == ASSUME IInv, UpdatePlayerLocation PROVE IInv'
<1>1. UNCHANGED <<rules, hqOn, tiles, troops, carried, offers, calls, frozen, tick>>
  BY DEF UpdatePlayerLocation
<1>2. TypeOK'
  BY <1>1, CheckWinType DEF UpdatePlayerLocation, IInv, TypeOK, rules, tiles, calls
<1>3. BoardIsSound'
  BY <1>1, BoardUntouched DEF IInv
<1> QED
  BY <1>1, <1>2, <1>3, CallsStaySound DEF IInv, tiles, calls

LEMMA PickUpSound ==
  ASSUME IInv, NEW p \in Players, NEW h \in Hexes, NEW n \in 1 .. MaxTroops, PickUpTroops(p, h, n)
  PROVE  IInv'
<1>1. UNCHANGED <<rules, hqOn, tiles, offers, calls, frozen, tick>>
  BY DEF PickUpTroops
<1>2. carried' \in [Players -> Amounts]
  BY ConstantsAreSound DEF Assumptions, PickUpTroops, Carry, IInv, TypeOK, Amounts
<1>3. troops' \in [Hexes -> Amounts]
  BY ConstantsAreSound DEF Assumptions, PickUpTroops, IInv, TypeOK, Amounts
<1>4. TypeOK'
  BY <1>1, <1>2, <1>3, CheckWinType DEF PickUpTroops, IInv, TypeOK, rules, tiles, calls
<1>5. BoardIsSound'
  <2>1. owner[h] # None
    BY FriendlyIsOwned DEF PickUpTroops, IInv
  <2>2. \A g \in Hexes : g # h => troops'[g] = troops[g]
    BY DEF PickUpTroops, IInv, TypeOK
  <2> QED
    BY <1>1, <2>1, <2>2 DEF IInv, BoardIsSound, tiles, AllyOf, Claimable
<1> QED
  BY <1>1, <1>4, <1>5, CallsStaySound DEF IInv, tiles, calls

LEMMA ReinforceSound ==
  ASSUME IInv, NEW p \in Players, NEW h \in Hexes, NEW n \in 1 .. MaxTroops, ReinforceHex(p, h, n)
  PROVE  IInv'
<1>1. UNCHANGED <<rules, hqOn, tiles, offers, calls, frozen, tick>>
  BY DEF ReinforceHex
<1>2. carried' \in [Players -> Amounts]
  BY ConstantsAreSound DEF Assumptions, ReinforceHex, Carry, IInv, TypeOK, Amounts
<1>3. troops' \in [Hexes -> Amounts]
  BY ConstantsAreSound DEF Assumptions, ReinforceHex, IInv, TypeOK, Amounts
<1>4. TypeOK'
  BY <1>1, <1>2, <1>3, CheckWinType DEF ReinforceHex, IInv, TypeOK, rules, tiles, calls
<1>5. BoardIsSound'
  <2>1. owner[h] # None
    BY FriendlyIsOwned DEF ReinforceHex, IInv
  <2>2. \A g \in Hexes : g # h => troops'[g] = troops[g]
    BY DEF ReinforceHex, IInv, TypeOK
  <2> QED
    BY <1>1, <2>1, <2>2 DEF IInv, BoardIsSound, tiles, AllyOf, Claimable
<1> QED
  BY <1>1, <1>4, <1>5, CallsStaySound DEF IInv, tiles, calls

LEMMA ClaimSound ==
  ASSUME IInv, NEW p \in Players, NEW h \in Hexes, ClaimNeutralHex(p, h)
  PROVE  IInv'
<1> USE DEF ClaimNeutralHex
<1>1. UNCHANGED <<rules, hqOn, offers, calls, frozen, tick>> /\ SetCellOwner(p, h)
  BY DEF ClaimCell
<1>2. /\ owner' \in [Hexes -> Players \cup {None}]
      /\ ally' \in [Hexes -> Alliances \cup {None}]
      /\ ally' = AllyOf(owner')
      /\ \A g \in Hexes : owner[g] # None => owner'[g] # None
      /\ \A g \in Hexes : owner'[g] = None => owner[g] = None /\ g # h
  BY <1>1, TakenForTheAlliance DEF IInv, BoardIsSound
<1>3. Garrison \in {0, 1} /\ Garrison <= MaxTroops /\ Garrison <= carried[p]
  BY DEF Garrison, ClaimCell
<1>4. carried' \in [Players -> Amounts]
  BY <1>3, ConstantsAreSound DEF Assumptions, ClaimCell, Carry, IInv, TypeOK, Amounts
<1>5. troops' \in [Hexes -> Amounts]
  BY <1>3, ConstantsAreSound DEF Assumptions, ClaimCell, IInv, TypeOK, Amounts
<1>6. TypeOK'
  BY <1>1, <1>2, <1>4, <1>5, CheckWinType DEF IInv, TypeOK, rules, calls
<1>7. BoardIsSound'
  <2>1. \A g \in Hexes : g # h => troops'[g] = troops[g]
    BY DEF ClaimCell, IInv, TypeOK
  <2> QED
    BY <1>2, <2>1 DEF IInv, BoardIsSound, Claimable, AllyOf
<1> QED
  BY <1>1, <1>2, <1>6, <1>7, CallsStaySound DEF IInv, calls

LEMMA AttackSound ==
  ASSUME IInv, NEW p \in Players, NEW h \in Hexes, NEW n \in Amounts, AttackHex(p, h, n)
  PROVE  IInv'
<1>1. UNCHANGED <<rules, hqOn, offers, calls, frozen, tick>> /\ owner[h] # None /\ n <= carried[p]
  BY DEF AttackHex
<1>2. PICK r \in ResolveCombat(n, troops[h]) :
        /\ carried[p] - n + r.left <= MaxTroops
        /\ Carry(p, carried[p] - n + r.left)
        /\ troops' = [troops EXCEPT ![h] = r.stays]
        /\ IF r.won THEN SetCellOwner(p, h) ELSE UNCHANGED tiles
  BY DEF AttackHex
<1>3. n \in Nat /\ troops[h] \in Amounts /\ carried[p] \in Amounts
  BY DEF IInv, TypeOK, Amounts
<1>4. r.left \in Nat /\ r.stays \in 0 .. troops[h]
  BY <1>2, <1>3, CombatLeaves DEF Amounts
<1>5. r.stays \in Amounts /\ carried[p] - n + r.left \in Amounts
  BY <1>1, <1>2, <1>3, <1>4, ConstantsAreSound DEF Assumptions, Amounts
<1>6. carried' \in [Players -> Amounts] /\ troops' \in [Hexes -> Amounts]
  BY <1>2, <1>5 DEF Carry, IInv, TypeOK
<1>7. /\ owner' \in [Hexes -> Players \cup {None}]
      /\ ally' \in [Hexes -> Alliances \cup {None}]
      /\ ally' = AllyOf(owner')
      /\ \A g \in Hexes : owner[g] # None => owner'[g] # None
      /\ \A g \in Hexes : owner'[g] = None => owner[g] = None /\ g # h
  <2>1. CASE r.won
    BY <1>2, <2>1, TakenForTheAlliance DEF IInv, BoardIsSound
  <2>2. CASE ~r.won
    <3>1. owner' = owner /\ ally' = ally
      BY <1>2, <2>2 DEF tiles
    <3> QED
      BY <1>1, <3>1 DEF IInv, TypeOK, BoardIsSound
  <2> QED
    BY <2>1, <2>2
<1>8. TypeOK'
  BY <1>1, <1>6, <1>7, CheckWinType DEF AttackHex, IInv, TypeOK, rules, calls
<1>9. BoardIsSound'
  <2>1. \A g \in Hexes : g # h => troops'[g] = troops[g]
    BY <1>2 DEF IInv, TypeOK
  <2> QED
    BY <1>7, <2>1 DEF IInv, BoardIsSound, Claimable, AllyOf
<1> QED
  BY <1>1, <1>7, <1>8, <1>9, CallsStaySound DEF IInv, calls

LEMMA OfferSound ==
  ASSUME IInv, NEW p \in Players, NEW q \in Players, NEW n \in 1 .. MaxTroops,
         InitiateTroopTransfer(p, q, n)
  PROVE  IInv'
<1>1. UNCHANGED <<outcome, rules, hqOn, tiles, troops, carried, calls, frozen, tick>>
  BY DEF InitiateTroopTransfer
<1>2. [from |-> p, to |-> q, amount |-> n] \in Offers
  BY ConstantsAreSound DEF Assumptions, Offers, Amounts
<1>3. TypeOK'
  BY <1>1, <1>2 DEF InitiateTroopTransfer, IInv, TypeOK, outcome, rules, tiles, calls
<1> QED
  BY <1>1, <1>3, BoardUntouched, CallsStaySound DEF IInv, tiles, calls

LEMMA AcceptSound == ASSUME IInv, NEW o \in offers, AcceptTroopTransfer(o) PROVE IInv'
<1>1. UNCHANGED <<outcome, rules, hqOn, tiles, troops, calls, frozen, tick>>
  BY DEF AcceptTroopTransfer, HandOver
<1>2. o.from \in Players /\ o.to \in Players /\ o.amount \in Amounts
  BY DEF IInv, TypeOK, Offers
<1> DEFINE given == [carried EXCEPT ![o.from] = @ - o.amount]
<1>3. given \in [Players -> Amounts]
  BY <1>2, ConstantsAreSound DEF Assumptions, AcceptTroopTransfer, IInv, TypeOK, Amounts
<1>4. given[o.to] <= carried[o.to]
  BY <1>2 DEF IInv, TypeOK, Amounts
<1>5. carried' = [given EXCEPT ![o.to] = @ + o.amount] /\ carried[o.to] + o.amount <= MaxTroops
  BY DEF AcceptTroopTransfer, HandOver
<1>6. given[o.to] + o.amount \in Amounts
  BY <1>2, <1>3, <1>4, <1>5, ConstantsAreSound DEF Assumptions, IInv, TypeOK, Amounts
<1> HIDE DEF given
<1>7. carried' \in [Players -> Amounts]
  BY <1>3, <1>5, <1>6
<1>8. TypeOK'
  BY <1>1, <1>7 DEF AcceptTroopTransfer, HandOver, IInv, TypeOK, outcome, rules, tiles, calls
<1> QED
  BY <1>1, <1>8, BoardUntouched, CallsStaySound DEF IInv, tiles, calls

LEMMA DropSound == ASSUME IInv, NEW o \in offers, DropTroopTransfer(o) PROVE IInv'
<1>1. UNCHANGED <<outcome, rules, hqOn, tiles, troops, carried, calls, frozen, tick>>
  BY DEF DropTroopTransfer
<1>2. TypeOK'
  BY <1>1 DEF DropTroopTransfer, IInv, TypeOK, outcome, rules, tiles, calls
<1> QED
  BY <1>1, <1>2, BoardUntouched, CallsStaySound DEF IInv, tiles, calls

LEMMA FieldBattleSound ==
  ASSUME IInv, NEW left \in [Players -> Amounts], ResolveFieldBattle(left)
  PROVE  IInv'
<1>1. UNCHANGED <<outcome, rules, hqOn, tiles, troops, offers, calls, frozen, tick>>
  BY DEF ResolveFieldBattle
<1>2. TypeOK'
  BY <1>1 DEF ResolveFieldBattle, IInv, TypeOK, outcome, rules, tiles, calls
<1> QED
  BY <1>1, <1>2, BoardUntouched, CallsStaySound DEF IInv, tiles, calls

LEMMA FreezeEndSound == ASSUME IInv, NEW a \in Alliances, ClaimFreezeEnds(a) PROVE IInv'
<1>1. UNCHANGED <<outcome, rules, hqOn, tiles, troops, carried, offers, calls, tick>>
  BY DEF ClaimFreezeEnds
<1>2. TypeOK'
  BY <1>1 DEF ClaimFreezeEnds, IInv, TypeOK, outcome, rules, tiles, calls
<1> QED
  BY <1>1, <1>2, BoardUntouched, CallsStaySound DEF IInv, tiles, calls

LEMMA RaidCallSound ==
  ASSUME IInv, NEW c \in Commanders, NEW h \in Hexes, ActivateCommandoRaid(c, h)
  PROVE  IInv'
<1>1. UNCHANGED <<outcome, rules, hqOn, tiles, troops, carried, offers, rally, frozen, tick>>
  BY DEF ActivateCommandoRaid, CallRaid
<1>2. Team[c] \in Alliances /\ raid' = [raid EXCEPT ![Team[c]] = h]
  BY ConstantsAreSound DEF Assumptions, ActivateCommandoRaid, CallRaid
<1>3. TypeOK'
  BY <1>1, <1>2 DEF IInv, TypeOK, outcome, rules, tiles
<1>4. HQRaidsAreUnlocked'
  <2>1. PeakReached' <=> PeakReached
    BY <1>1 DEF PeakReached, Claimed, tiles
  <2>2. \A a \in Alliances : raid'[a] = raid[a] \/ raid'[a] = h
    BY <1>2 DEF IInv, TypeOK
  <2>3. h \in HQs => PeakReached
    BY DEF ActivateCommandoRaid
  <2> QED
    BY <2>1, <2>2, <2>3 DEF IInv, HQRaidsAreUnlocked
<1>5. RalliesAreOnOwnedHexes'
  BY <1>1 DEF IInv, RalliesAreOnOwnedHexes, tiles
<1> QED
  BY <1>1, <1>3, <1>4, <1>5, BoardUntouched DEF IInv

LEMMA RallyCallSound ==
  ASSUME IInv, NEW c \in Commanders, NEW h \in Hexes, ActivateRallyPoint(c, h)
  PROVE  IInv'
<1>1. UNCHANGED <<outcome, rules, hqOn, tiles, troops, carried, offers, raid, frozen, tick>>
  BY DEF ActivateRallyPoint
<1>2. TypeOK'
  BY <1>1 DEF ActivateRallyPoint, IInv, TypeOK, outcome, rules, tiles
<1>3. HQRaidsAreUnlocked'
  BY <1>1 DEF IInv, HQRaidsAreUnlocked, PeakReached, Claimed, tiles
<1>4. RalliesAreOnOwnedHexes'
  <2>1. owner[h] # None
    BY FriendlyIsOwned, ConstantsAreSound DEF Assumptions, ActivateRallyPoint, IInv
  <2>2. \A d \in Commanders : rally'[d] = rally[d] \/ rally'[d] = h
    BY DEF ActivateRallyPoint, IInv, TypeOK
  <2> QED
    BY <1>1, <2>1, <2>2 DEF IInv, RalliesAreOnOwnedHexes, tiles
<1> QED
  BY <1>1, <1>2, <1>3, <1>4, BoardUntouched DEF IInv

LEMMA TickStartSound == ASSUME IInv, GetPlayingRoomCodes PROVE IInv'
<1>1. UNCHANGED <<outcome, rules, hqOn, tiles, troops, carried, offers, calls, frozen>>
  BY DEF GetPlayingRoomCodes
<1>2. TypeOK'
  BY <1>1 DEF GetPlayingRoomCodes, IInv, TypeOK, outcome, rules, tiles, calls
<1> QED
  BY <1>1, <1>2, BoardUntouched, CallsStaySound DEF IInv, tiles, calls

LEMMA RaidsSound ==
  ASSUME IInv, NEW expired \in SUBSET Alliances, ResolveExpiredCommandoRaids(expired)
  PROVE  IInv'
<1>1. UNCHANGED <<rules, hqOn, troops, carried, offers, rally>> /\ tick' = "rallies"
  BY DEF ResolveExpiredCommandoRaids
<1>2. raid' = [a \in Alliances |-> IF a \in expired THEN None ELSE raid[a]]
  BY DEF ResolveExpiredCommandoRaids
<1>3. raid' \in [Alliances -> Hexes \cup {None}] /\ \A a \in Alliances : raid'[a] \in {raid[a], None}
  BY <1>2 DEF IInv, TypeOK
<1>4. /\ owner' \in [Hexes -> Players \cup {None}]
      /\ ally' \in [Hexes -> Alliances \cup {None}]
      /\ frozen' \subseteq Alliances
      /\ ally' = AllyOf(owner')
      /\ \A h \in Hexes : owner[h] # None => owner'[h] # None
      /\ phase' \in {"Playing", "GameOver"}
      /\ winner' \in Alliances \cup {None}
  <2>1. CASE expired = {}
    BY <2>1 DEF ResolveExpiredCommandoRaids, outcome, tiles, IInv, TypeOK, BoardIsSound
  <2>2. CASE expired # {}
    <3>1. PICK won \in SUBSET expired : \E taker \in [won -> Players] :
                 Takes(won, taker) /\ ResolveRaids(won, taker) /\ CheckWin
      BY <2>2 DEF ResolveExpiredCommandoRaids
    <3>2. PICK taker \in [won -> Players] :
                 Takes(won, taker) /\ ResolveRaids(won, taker) /\ CheckWin
      BY <3>1
    <3>3. won \in SUBSET Alliances
      OBVIOUS
    <3>4. winType' = winType
      BY <1>1 DEF rules
    <3> QED
      BY <3>2, <3>3, <3>4, RaidsTakeForTheAlliance, CheckWinType DEF IInv, BoardIsSound
  <2> QED
    BY <2>1, <2>2
<1>5. TypeOK'
  BY <1>1, <1>3, <1>4 DEF IInv, TypeOK, rules
<1>6. BoardIsSound'
  BY <1>1, <1>4 DEF IInv, BoardIsSound, Claimable, AllyOf
<1> QED
  BY <1>1, <1>3, <1>4, <1>5, <1>6, CallsStaySound DEF IInv

LEMMA RalliesSound ==
  ASSUME IInv, NEW expired \in SUBSET Commanders, ResolveExpiredRallyPoints(expired)
  PROVE  IInv'
<1>1. UNCHANGED <<outcome, rules, hqOn, tiles, carried, offers, raid, frozen>>
  BY DEF ResolveExpiredRallyPoints
<1>2. rally' = [c \in Commanders |-> IF c \in expired THEN None ELSE rally[c]]
  BY DEF ResolveExpiredRallyPoints
<1>3. rally' \in [Commanders -> Hexes \cup {None}] /\ \A c \in Commanders : rally'[c] \in {rally[c], None}
  BY <1>2 DEF IInv, TypeOK
<1>4. TypeOK'
  BY <1>1, <1>3 DEF ResolveExpiredRallyPoints, IInv, TypeOK, outcome, rules, tiles
<1>5. BoardIsSound'
  <2>1. ASSUME NEW h \in Hexes, owner[h] = None PROVE troops'[h] = troops[h]
    <3>1. {c \in expired : rally[c] = h} = {}
      BY <2>1, ConstantsAreSound DEF Assumptions, IInv, RalliesAreOnOwnedHexes
    <3> QED
      BY <3>1 DEF ResolveExpiredRallyPoints, Rallied
  <2> QED
    BY <1>1, <2>1 DEF IInv, BoardIsSound, Claimable, AllyOf, tiles
<1> QED
  BY <1>1, <1>3, <1>4, <1>5, CallsStaySound DEF IInv, tiles

LEMMA ReinforcementsSound == ASSUME IInv, AddReinforcementsToAllHexes PROVE IInv'
<1>1. UNCHANGED <<rules, hqOn, tiles, carried, offers, calls, frozen>> /\ tick' = "idle"
  BY DEF AddReinforcementsToAllHexes
<1>2. CASE UNCHANGED <<outcome, troops>>
  <2>1. TypeOK'
    BY <1>1, <1>2 DEF IInv, TypeOK, outcome, rules, tiles, calls
  <2> QED
    BY <1>1, <1>2, <2>1, BoardUntouched, CallsStaySound DEF IInv, tiles, calls
<1>3. CASE /\ troops' \in [Hexes -> Amounts]
           /\ \A h \in Hexes : troops'[h] \in Regrown(h)
           /\ CheckWin
  <2>1. TypeOK'
    BY <1>1, <1>3, CheckWinType DEF IInv, TypeOK, rules, tiles, calls
  <2>2. \A h \in Claimable : owner[h] = None => troops'[h] = troops[h]
    BY <1>3 DEF Regrown, Claimable
  <2>3. BoardIsSound'
    BY <1>1, <2>2 DEF IInv, BoardIsSound, Claimable, AllyOf, tiles
  <2> QED
    BY <1>1, <2>1, <2>3, CallsStaySound DEF IInv, tiles, calls
<1> QED
  BY <1>2, <1>3 DEF AddReinforcementsToAllHexes

LEMMA DynamicsSound == ASSUME IInv, UpdateGameDynamicsLive PROVE IInv'
<1>1. UNCHANGED <<outcome, rules, tiles, troops, carried, offers, calls, frozen, tick>>
  BY DEF UpdateGameDynamicsLive
<1>2. hqOn' \in BOOLEAN
  BY DEF UpdateGameDynamicsLive
<1>3. TypeOK'
  BY <1>1, <1>2 DEF IInv, TypeOK, outcome, rules, tiles, calls
<1> QED
  BY <1>1, <1>3, BoardUntouched, CallsStaySound DEF IInv, tiles, calls

LEMMA GameEventSound == ASSUME IInv, TriggerGameEvent PROVE IInv'
<1>1. UNCHANGED <<outcome, rules, hqOn, tiles, carried, offers, calls, frozen, tick>>
  BY DEF TriggerGameEvent
<1>2. \A h \in Hexes : ally[h] # None => owner[h] # None
  BY DEF IInv, BoardIsSound, AllyOf
<1>3. /\ troops' \in [Hexes -> Amounts]
      /\ \A h \in Claimable : owner[h] = None => troops'[h] \in {troops[h], 0}
  <2> USE ConstantsAreSound DEF Assumptions, Amounts
  <2>1. CASE \E h \in Hexes : troops' = [troops EXCEPT ![h] = 0]
    BY <2>1 DEF IInv, TypeOK, Claimable
  <2>2. CASE \E h \in Claimable :
               /\ ally[h] # None
               /\ troops' = [troops EXCEPT ![h] = IF @ <= 2 THEN 0 ELSE @ - 2]
    <3>1. PICK h \in Claimable :
               /\ ally[h] # None
               /\ troops' = [troops EXCEPT ![h] = IF @ <= 2 THEN 0 ELSE @ - 2]
      BY <2>2
    <3>2. h \in Hexes /\ troops[h] \in Amounts
      BY DEF Claimable, IInv, TypeOK
    <3>3. (IF troops[h] <= 2 THEN 0 ELSE troops[h] - 2) \in Amounts
      BY <3>2
    <3>4. troops' \in [Hexes -> Amounts]
      BY <3>1, <3>3 DEF IInv, TypeOK
    <3>5. \A g \in Hexes : g # h => troops'[g] = troops[g]
      BY <3>1 DEF IInv, TypeOK
    <3> QED
      BY <1>2, <3>1, <3>2, <3>4, <3>5 DEF Claimable
  <2>3. CASE \E lucky \in SUBSET Claimable :
               /\ \A h \in lucky : ally[h] # None
               /\ \A g, h \in lucky : ally[g] = ally[h] => g = h
               /\ troops' = [h \in Hexes |-> IF h \in lucky THEN AtMost(troops[h] + 2) ELSE troops[h]]
    <3>1. PICK lucky \in SUBSET Claimable :
               /\ \A h \in lucky : ally[h] # None
               /\ troops' = [h \in Hexes |-> IF h \in lucky THEN AtMost(troops[h] + 2) ELSE troops[h]]
      BY <2>3
    <3>2. \A h \in Hexes : troops[h] \in Amounts /\ AtMost(troops[h] + 2) \in Amounts
      BY DEF AtMost, IInv, TypeOK
    <3>3. troops' \in [Hexes -> Amounts]
      BY <3>1, <3>2
    <3> QED
      BY <1>2, <3>1, <3>3 DEF Claimable
  <2> QED
    BY <2>1, <2>2, <2>3 DEF TriggerGameEvent
<1>4. TypeOK'
  BY <1>1, <1>3 DEF IInv, TypeOK, outcome, rules, tiles, calls
<1>5. BoardIsSound'
  BY <1>1, <1>3 DEF IInv, BoardIsSound, Claimable, AllyOf, tiles
<1> QED
  BY <1>1, <1>4, <1>5, CallsStaySound DEF IInv, tiles, calls

LEMMA StepSound == IInv /\ [Next]_vars => IInv'
<1> SUFFICES ASSUME IInv, [Next]_vars PROVE IInv'
  OBVIOUS
<1>1. CASE UNCHANGED vars
  <2>1. UNCHANGED <<outcome, rules, hqOn, tiles, troops, carried, offers, calls, frozen, tick>>
    BY <1>1 DEF vars
  <2>2. TypeOK'
    BY <2>1 DEF IInv, TypeOK, outcome, rules, tiles, calls
  <2> QED
    BY <2>1, <2>2, BoardUntouched, CallsStaySound DEF IInv, tiles, calls
<1>2. CASE \E p \in Players : PlayerActs(p)
  BY <1>2, PickUpSound, ReinforceSound, ClaimSound, AttackSound, OfferSound DEF PlayerActs
<1>3. CASE \E c \in Commanders : CommanderActs(c)
  BY <1>3, RaidCallSound, RallyCallSound DEF CommanderActs
<1>4. CASE \E o \in offers : AcceptTroopTransfer(o) \/ DropTroopTransfer(o)
  BY <1>4, AcceptSound, DropSound
<1>5. CASE \E left \in [Players -> Amounts] : ResolveFieldBattle(left)
  BY <1>5, FieldBattleSound
<1>6. CASE \E a \in Alliances : ClaimFreezeEnds(a)
  BY <1>6, FreezeEndSound
<1>7. CASE Tick
  BY <1>7, TickStartSound, RaidsSound, RalliesSound, ReinforcementsSound DEF Tick
<1> QED
  BY <1>1, <1>2, <1>3, <1>4, <1>5, <1>6, <1>7, MoveSound, DynamicsSound, GameEventSound DEF Next

LEMMA Invariance == Spec => []IInv
  BY InitSound, StepSound, PTL DEF Spec

----------------------------------------------------------------------------
(* The theorems *)

(* Every reachable state is well formed: no troops are handed over that    *)
(* are not there, and nobody but an alliance wins.                         *)
THEOREM TypeCorrect == Spec => []TypeOK
<1>1. IInv => TypeOK
  BY DEF IInv
<1> QED
  BY <1>1, Invariance, PTL

(* Owner and alliance of a hex agree, and neutral hexes are empty.         *)
THEOREM BoardIsSoundHolds == Spec => []BoardIsSound
<1>1. IInv => BoardIsSound
  BY DEF IInv
<1> QED
  BY <1>1, Invariance, PTL

(* No raid of a headquarters is under way before its share of the map is   *)
(* claimed, whatever happens between its call and its end.                 *)
THEOREM HQRaidsAreUnlockedHolds == Spec => []HQRaidsAreUnlocked
<1>1. IInv => HQRaidsAreUnlocked
  BY DEF IInv
<1> QED
  BY <1>1, Invariance, PTL

----------------------------------------------------------------------------
(* Steps that leave the territory, or the outcome, alone *)

(* Owners change only by a claim, by an attack that wins, or in the raids  *)
(* of a tick.                                                              *)
OwnersChange ==
  \/ \E p \in Players, h \in Hexes : ClaimNeutralHex(p, h)
  \/ \E p \in Players, h \in Hexes, n \in Amounts : AttackHex(p, h, n)
  \/ \E expired \in SUBSET Alliances : ResolveExpiredCommandoRaids(expired)

LEMMA OwnersStay == [Next]_vars => UNCHANGED owner \/ OwnersChange
<1> SUFFICES ASSUME [Next]_vars, ~OwnersChange PROVE UNCHANGED owner
  OBVIOUS
<1>1. CASE UNCHANGED vars
  BY <1>1 DEF vars, tiles
<1>2. CASE \E p \in Players : PlayerActs(p)
  BY <1>2 DEF PlayerActs, PickUpTroops, ReinforceHex, InitiateTroopTransfer, tiles, OwnersChange
<1>3. CASE \E c \in Commanders : CommanderActs(c)
  BY <1>3 DEF CommanderActs, ActivateCommandoRaid, CallRaid, ActivateRallyPoint, tiles
<1>4. CASE \E o \in offers : AcceptTroopTransfer(o) \/ DropTroopTransfer(o)
  BY <1>4 DEF AcceptTroopTransfer, HandOver, DropTroopTransfer, tiles
<1>5. CASE \E left \in [Players -> Amounts] : ResolveFieldBattle(left)
  BY <1>5 DEF ResolveFieldBattle, tiles
<1>6. CASE \E a \in Alliances : ClaimFreezeEnds(a)
  BY <1>6 DEF ClaimFreezeEnds, tiles
<1>7. CASE Tick
  BY <1>7 DEF Tick, GetPlayingRoomCodes, ResolveExpiredRallyPoints, AddReinforcementsToAllHexes,
     tiles, OwnersChange
<1>8. CASE UpdatePlayerLocation \/ UpdateGameDynamicsLive \/ TriggerGameEvent
  BY <1>8 DEF UpdatePlayerLocation, UpdateGameDynamicsLive, TriggerGameEvent, tiles
<1> QED
  BY <1>1, <1>2, <1>3, <1>4, <1>5, <1>6, <1>7, <1>8 DEF Next

(* Every step leaves the outcome alone or ends in a win check.             *)
LEMMA OutcomeStays == [Next]_vars => UNCHANGED outcome \/ CheckWin
<1> SUFFICES ASSUME [Next]_vars PROVE UNCHANGED outcome \/ CheckWin
  OBVIOUS
<1>1. CASE UNCHANGED vars
  BY <1>1 DEF vars
<1>2. CASE \E p \in Players : PlayerActs(p)
  BY <1>2 DEF PlayerActs, PickUpTroops, ReinforceHex, ClaimNeutralHex, AttackHex, InitiateTroopTransfer
<1>3. CASE \E c \in Commanders : CommanderActs(c)
  BY <1>3 DEF CommanderActs, ActivateCommandoRaid, CallRaid, ActivateRallyPoint
<1>4. CASE \E o \in offers : AcceptTroopTransfer(o) \/ DropTroopTransfer(o)
  BY <1>4 DEF AcceptTroopTransfer, HandOver, DropTroopTransfer
<1>5. CASE \E left \in [Players -> Amounts] : ResolveFieldBattle(left)
  BY <1>5 DEF ResolveFieldBattle
<1>6. CASE \E a \in Alliances : ClaimFreezeEnds(a)
  BY <1>6 DEF ClaimFreezeEnds
<1>7. CASE Tick
  <2>1. CASE GetPlayingRoomCodes
    BY <2>1 DEF GetPlayingRoomCodes
  <2>2. CASE \E expired \in SUBSET Alliances : ResolveExpiredCommandoRaids(expired)
    BY <2>2 DEF ResolveExpiredCommandoRaids
  <2>3. CASE \E expired \in SUBSET Commanders : ResolveExpiredRallyPoints(expired)
    BY <2>3 DEF ResolveExpiredRallyPoints
  <2>4. CASE AddReinforcementsToAllHexes
    BY <2>4 DEF AddReinforcementsToAllHexes
  <2> QED
    BY <1>7, <2>1, <2>2, <2>3, <2>4 DEF Tick
<1>8. CASE UpdatePlayerLocation \/ UpdateGameDynamicsLive \/ TriggerGameEvent
  BY <1>8 DEF UpdatePlayerLocation, UpdateGameDynamicsLive, TriggerGameEvent
<1> QED
  BY <1>1, <1>2, <1>3, <1>4, <1>5, <1>6, <1>7, <1>8 DEF Next

(* The master tile and the headquarters change hands only by a raid that   *)
(* was called on them: a claim takes neither the master tile nor an owned  *)
(* hex, an attack takes neither, and a raid takes its target only.         *)
THEOREM ImmuneTilesFallToRaidsHolds == Spec => ImmuneTilesFallToRaids
<1> DEFINE Falls(h) ==
      /\ owner'[h] # owner[h]
      /\ h = Master \/ (hqOn /\ h \in HQs /\ owner[h] # None)
      => tick = "raids" /\ raid[ally'[h]] = h
<1>1. ASSUME IInv, [Next]_vars PROVE \A h \in Hexes : Falls(h)
  <2>1. CASE UNCHANGED owner
    BY <2>1
  <2>2. ASSUME NEW p \in Players, NEW g \in Hexes, ClaimNeutralHex(p, g)
        PROVE  \A h \in Hexes : Falls(h)
    <3>1. g # Master /\ owner[g] = None /\ \A h \in Hexes : h # g => owner'[h] = owner[h]
      BY <2>2 DEF ClaimNeutralHex, ClaimCell, SetCellOwner, IInv, TypeOK
    <3> QED
      BY <3>1
  <2>3. ASSUME NEW p \in Players, NEW g \in Hexes, NEW n \in Amounts, AttackHex(p, g, n)
        PROVE  \A h \in Hexes : Falls(h)
    <3>1. PICK r \in ResolveCombat(n, troops[g]) : IF r.won THEN SetCellOwner(p, g) ELSE UNCHANGED tiles
      BY <2>3 DEF AttackHex
    <3>2. UNCHANGED owner \/ owner' = [owner EXCEPT ![g] = p]
      BY <3>1 DEF SetCellOwner, tiles
    <3>3. \A h \in Hexes : h # g => owner'[h] = owner[h]
      BY <1>1, <3>2 DEF IInv, TypeOK
    <3>4. ~Immune(g)
      BY <2>3 DEF AttackHex
    <3> QED
      BY <3>3, <3>4 DEF Immune
  <2>4. ASSUME NEW expired \in SUBSET Alliances, ResolveExpiredCommandoRaids(expired)
        PROVE  \A h \in Hexes : Falls(h)
    <3>1. tick = "raids"
      BY <2>4 DEF ResolveExpiredCommandoRaids
    <3>2. CASE expired = {}
      BY <2>4, <3>2 DEF ResolveExpiredCommandoRaids, tiles
    <3>3. CASE expired # {}
      <4>1. PICK won \in SUBSET expired : \E taker \in [won -> Players] :
                   Takes(won, taker) /\ ResolveRaids(won, taker)
        BY <2>4, <3>3 DEF ResolveExpiredCommandoRaids
      <4>2. PICK taker \in [won -> Players] : Takes(won, taker) /\ ResolveRaids(won, taker)
        BY <4>1
      <4>3. \A h \in Hexes : owner'[h] # owner[h] => raid[ally'[h]] = h
        BY <1>1, <4>2, RaidsTakeForTheAlliance DEF IInv, BoardIsSound
      <4> QED
        BY <3>1, <4>3
    <3> QED
      BY <3>2, <3>3
  <2> QED
    BY <1>1, <2>1, <2>2, <2>3, <2>4, OwnersStay DEF OwnersChange
<1> QED
  BY <1>1, Invariance, PTL DEF Spec, ImmuneTilesFallToRaids

(* Whoever changes the territory so that the game is decided also ends it. *)
THEOREM WinIsNoticedHolds == Spec => WinIsNoticed
<1>1. ASSUME IInv, [Next]_vars
      PROVE  owner' # owner /\ Playing /\ winType # "Timed" /\ Winners' # {}
               => phase' = "GameOver" /\ winner' \in Winners'
  <2>1. SUFFICES ASSUME owner' # owner, Playing, winType # "Timed", Winners' # {}
                 PROVE  phase' = "GameOver" /\ winner' \in Winners'
    OBVIOUS
  <2>2. OwnersChange
    BY <1>1, <2>1, OwnersStay
  <2>3. CheckWin
    <3>1. CASE \E p \in Players, h \in Hexes : ClaimNeutralHex(p, h)
      BY <3>1 DEF ClaimNeutralHex
    <3>2. CASE \E p \in Players, h \in Hexes, n \in Amounts : AttackHex(p, h, n)
      BY <3>2 DEF AttackHex
    <3>3. CASE \E expired \in SUBSET Alliances : ResolveExpiredCommandoRaids(expired)
      BY <2>1, <3>3 DEF ResolveExpiredCommandoRaids, tiles
    <3> QED
      BY <2>2, <3>1, <3>2, <3>3 DEF OwnersChange
  <2> QED
    BY <2>1, <2>3 DEF CheckWin
<1> QED
  BY <1>1, Invariance, PTL DEF Spec, WinIsNoticed

(* Nothing that happens after the end changes the outcome.                 *)
THEOREM WinnerIsFinalHolds == Spec => WinnerIsFinal
<1>1. [Next]_vars => (phase = "GameOver" => UNCHANGED outcome)
  BY OutcomeStays DEF CheckWin, Playing
<1> QED
  BY <1>1, PTL DEF Spec, WinnerIsFinal

=============================================================================
