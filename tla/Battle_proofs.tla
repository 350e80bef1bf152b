---------------------------- MODULE Battle_proofs ----------------------------
(***************************************************************************)
(* Proofs about FieldBattle, for every set of players, every division into *)
(* alliances, every map and every bound, and about AbilityCards, where a   *)
(* device shows invitations to battles. The two share no state.            *)
(*                                                                         *)
(* FieldBattle. The invariant says of the battles in memory and of those   *)
(* in the saved snapshot alike that they are consistent, so a restart      *)
(* keeps it; and it ties the cooldown to the history of fights that        *)
(* NoRematchInPlace reads.                                                 *)
(*                                                                         *)
(* AbilityCards. A panel is opened and closed together with its timer,     *)
(* also where a message replaces one panel by another; the types of the    *)
(* messages tell invitations from offers.                                  *)
(***************************************************************************)
EXTENDS FieldBattle, AbilityCards, TLAPS

(***************************************************************************)
(* Battles                                                                 *)
(***************************************************************************)

\* One list of battles: what OneBattleAtATime and WhoMayFight say of `battle`.
Apart(bs) ==
  \A b, c \in Battles : b # c /\ bs[b] # None /\ bs[c] # None =>
    bs[b].at # bs[c].at /\ bs[b].starter # bs[c].starter

Legal(f) ==
  /\ \A p \in f.joined : Enemies(p, f.starter)
  /\ f.target # None =>
       Enemies(f.target, f.starter) /\ (f.target \in f.joined \/ f.joined = {})
  /\ f.fled \subseteq {f.target}

AllLegal(bs) == \A b \in Battles : bs[b] # None => Legal(bs[b])

\* Who is remembered to have fought has the cooldown, of that hex or of no
\* known one.
Covers(cd, ft) == \A p \in Players : ft[p] # None => cd[p] \in {ft[p], Unknown}

IInv ==
  /\ TypeOK
  /\ Apart(battle) /\ Apart(saved.battle)
  /\ AllLegal(battle) /\ AllLegal(saved.battle)
  /\ TimerIsComing
  /\ Covers(cooldown, fought) /\ Covers(saved.cooldown, saved.fought)

----------------------------------------------------------------------------
(* Types *)

\* The snapshot taken, or kept, by QueuePersistence has the type of one.
LEMMA SaveType ==
  ASSUME TypeOK, Save, carried' \in Carriers, battle' \in FightsOrNone,
         fought' \in Whereabouts, cooldown' \in Cooldowns
  PROVE  saved' \in [carried : Carriers, battle : FightsOrNone,
                     fought : Whereabouts, cooldown : Cooldowns]
BY DEF TypeOK, Save, Snapshot, Cooldowns

\* ... and inherits what holds of the state it is taken of.
LEMMA SaveKeeps ==
  ASSUME IInv, Save, cooldown' \in Cooldowns,
         Apart(battle'), AllLegal(battle'), Covers(cooldown', fought')
  PROVE  Apart(saved'.battle) /\ AllLegal(saved'.battle)
         /\ Covers(saved'.cooldown, saved'.fought)
<1>1. CASE saved' = saved
  BY <1>1 DEF IInv
<1>2. CASE saved' = Snapshot'
  <2>1. saved'.battle = battle' /\ saved'.fought = fought'
    BY <1>2 DEF Snapshot
  <2>2. \A p \in Players : fought'[p] # None => saved'.cooldown[p] = Unknown
    BY <1>2, OddOnesOut DEF Snapshot, Covers
  <2>. QED  BY <2>1, <2>2 DEF Covers
<1>. QED  BY <1>1, <1>2 DEF Save

\* A battle is not None, and neither is a player or a hex.
LEMMA NotNone ==
  /\ \A f \in Fights : f # None
  /\ \A p \in Players : p # None
  /\ \A h \in Places : h # None /\ h # Unknown
BY OddOnesOut

LEMMA LiveTypes ==
  ASSUME TypeOK, NEW b \in Live
  PROVE  b \in Battles /\ battle[b] \in Fights /\ battle[b] # None
BY DEF TypeOK, Live, FightsOrNone

\* A flight changes nothing but who has fled: the targets in `fleeing` have p
\* as their target.
LEMMA FleeKeeps ==
  ASSUME IInv, NEW p \in Players, NEW fleeing \in SUBSET Live, Flee(p, fleeing),
         \A b \in fleeing : battle[b].target = p
  PROVE  /\ battle' \in FightsOrNone
         /\ duties' \subseteq Battles \X (Players \cup {Timer})
         /\ duties \subseteq duties'
         /\ \A b \in Battles : battle'[b] = None <=> battle[b] = None
         /\ Apart(battle') /\ AllLegal(battle')
<1> USE DEF IInv
<1>1. \A b \in Battles : battle'[b] =
        IF b \in fleeing THEN [battle[b] EXCEPT !.fled = @ \cup {p}] ELSE battle[b]
  BY DEF Flee
<1>2. \A b \in fleeing :
        /\ b \in Battles /\ battle[b] \in Fights
        /\ battle'[b] \in Fights
        /\ battle'[b].starter = battle[b].starter /\ battle'[b].at = battle[b].at
        /\ battle'[b].target = battle[b].target /\ battle'[b].joined = battle[b].joined
        /\ battle'[b].fled = battle[b].fled \cup {p}
  <2> SUFFICES ASSUME NEW b \in fleeing
               PROVE  /\ b \in Battles /\ battle[b] \in Fights
                      /\ battle'[b] \in Fights
                      /\ battle'[b].starter = battle[b].starter
                      /\ battle'[b].at = battle[b].at
                      /\ battle'[b].target = battle[b].target
                      /\ battle'[b].joined = battle[b].joined
                      /\ battle'[b].fled = battle[b].fled \cup {p}
    OBVIOUS
  <2>1. b \in Battles /\ battle[b] \in Fights
    BY LiveTypes
  <2>2. battle'[b] = [battle[b] EXCEPT !.fled = battle[b].fled \cup {p}]
    BY <1>1, <2>1
  <2>. QED  BY <2>1, <2>2 DEF Fights
<1>3. \A b \in Battles : b \notin fleeing => battle'[b] = battle[b]
  BY <1>1
<1>4. \A b \in Battles :
        /\ battle'[b] = None <=> battle[b] = None
        /\ battle'[b].starter = battle[b].starter /\ battle'[b].at = battle[b].at
        /\ battle'[b].target = battle[b].target /\ battle'[b].joined = battle[b].joined
  <2> SUFFICES ASSUME NEW b \in Battles
               PROVE  /\ battle'[b] = None <=> battle[b] = None
                      /\ battle'[b].starter = battle[b].starter
                      /\ battle'[b].at = battle[b].at
                      /\ battle'[b].target = battle[b].target
                      /\ battle'[b].joined = battle[b].joined
    OBVIOUS
  <2>1. CASE b \in fleeing
    BY <1>2, <2>1, NotNone
  <2>2. CASE b \notin fleeing
    BY <1>3, <2>2
  <2>. QED  BY <2>1, <2>2
<1>5. battle' \in FightsOrNone
  <2>1. \A b \in Battles : battle'[b] \in Fights \cup {None}
    BY <1>2, <1>3 DEF TypeOK, FightsOrNone
  <2>2. battle' = [b \in Battles |-> battle'[b]]
    BY DEF Flee
  <2>. QED  BY <2>1, <2>2 DEF FightsOrNone
<1>6. duties' \subseteq Battles \X (Players \cup {Timer}) /\ duties \subseteq duties'
  BY <1>2 DEF Flee, TypeOK
<1>7. Apart(battle')
  BY <1>4 DEF Apart
<1>8. AllLegal(battle')
  <2>1. ASSUME NEW b \in Battles, battle'[b] # None PROVE Legal(battle'[b])
    <3>1. Legal(battle[b])
      BY <1>4, <2>1 DEF AllLegal
    <3>2. CASE b \in fleeing
      BY <1>2, <3>1, <3>2 DEF Legal
    <3>. QED  BY <1>3, <3>1, <3>2
  <2>. QED  BY <2>1 DEF AllLegal
<1>. QED  BY <1>4, <1>5, <1>6, <1>7, <1>8

THEOREM InitInv == Init => IInv
<1> SUFFICES ASSUME Init PROVE IInv
  OBVIOUS
<1> USE DEF Init
<1>1. TypeOK
  BY BoundsAreNats DEF TypeOK, Snapshot, Whereabouts, Carriers, Cooldowns, FightsOrNone
<1>2. saved.battle = battle /\ saved.fought = fought
  BY DEF Snapshot
<1>3. Apart(battle) /\ AllLegal(battle) /\ Apart(saved.battle) /\ AllLegal(saved.battle)
  BY <1>2 DEF Apart, AllLegal
<1>4. TimerIsComing
  BY DEF TimerIsComing, Live
<1>5. Covers(cooldown, fought) /\ Covers(saved.cooldown, saved.fought)
  BY <1>2 DEF Covers
<1>. QED  BY <1>1, <1>3, <1>4, <1>5 DEF IInv

----------------------------------------------------------------------------
(* Changing one battle, removing some *)

LEMMA OneBattleChanged ==
  ASSUME IInv, NEW b \in Battles, NEW f \in Fights, battle' = [battle EXCEPT ![b] = f],
         Legal(f),
         \A c \in Battles \ {b} : battle[c] # None =>
           battle[c].at # f.at /\ battle[c].starter # f.starter
  PROVE  /\ battle' \in FightsOrNone
         /\ Apart(battle') /\ AllLegal(battle')
         /\ \A c \in Battles \ {b} : battle'[c] = battle[c]
         /\ battle'[b] = f /\ f # None
<1> USE DEF IInv
<1>1. /\ battle' \in FightsOrNone
      /\ \A c \in Battles \ {b} : battle'[c] = battle[c]
      /\ battle'[b] = f /\ f # None
  BY NotNone DEF TypeOK, FightsOrNone
<1>2. Apart(battle')
  <2> SUFFICES ASSUME NEW c \in Battles, NEW d \in Battles, c # d,
                      battle'[c] # None, battle'[d] # None
               PROVE  battle'[c].at # battle'[d].at /\ battle'[c].starter # battle'[d].starter
    BY DEF Apart
  <2>1. CASE c = b
    BY <1>1, <2>1
  <2>2. CASE d = b
    BY <1>1, <2>2
  <2>3. CASE c # b /\ d # b
    BY <1>1, <2>3 DEF Apart
  <2>. QED  BY <2>1, <2>2, <2>3
<1>3. AllLegal(battle')
  BY <1>1 DEF AllLegal
<1>. QED  BY <1>1, <1>2, <1>3

\* A change that leaves the initiator and the hex alone keeps battles apart.
LEMMA OneBattleUpdated ==
  ASSUME IInv, NEW b \in Live, NEW f \in Fights, battle' = [battle EXCEPT ![b] = f],
         Legal(f), f.at = battle[b].at, f.starter = battle[b].starter
  PROVE  /\ battle' \in FightsOrNone
         /\ Apart(battle') /\ AllLegal(battle')
         /\ \A c \in Battles : battle'[c] = None <=> battle[c] = None
<1>1. b \in Battles /\ battle[b] # None
  BY DEF Live
<1>2. \A c \in Battles \ {b} : battle[c] # None =>
        battle[c].at # f.at /\ battle[c].starter # f.starter
  BY <1>1 DEF IInv, Apart
<1>3. /\ battle' \in FightsOrNone
      /\ Apart(battle') /\ AllLegal(battle')
      /\ \A c \in Battles \ {b} : battle'[c] = battle[c]
      /\ battle'[b] = f /\ f # None
  BY <1>1, <1>2, OneBattleChanged
<1>4. \A c \in Battles : battle'[c] = None <=> battle[c] = None
  BY <1>1, <1>3
<1>. QED  BY <1>3, <1>4

LEMMA BattlesRemoved ==
  ASSUME IInv, NEW gone \in SUBSET Battles,
         battle' = [b \in Battles |-> IF b \in gone THEN None ELSE battle[b]]
  PROVE  battle' \in FightsOrNone /\ Apart(battle') /\ AllLegal(battle')
<1> USE DEF IInv
<1>1. \A b \in Battles : battle'[b] # None => battle'[b] = battle[b] /\ battle[b] # None
  OBVIOUS
<1>2. battle' \in FightsOrNone
  BY DEF TypeOK, FightsOrNone
<1>3. Apart(battle')
  BY <1>1 DEF Apart
<1>4. AllLegal(battle')
  BY <1>1 DEF AllLegal
<1>. QED  BY <1>2, <1>3, <1>4

\* Timers that are not given up stay until their battle is gone.
LEMMA TimersStay ==
  ASSUME IInv, crashes' = crashes, duties \subseteq duties',
         \A b \in Battles : battle'[b] # None => battle[b] # None
  PROVE  TimerIsComing'
BY DEF IInv, TimerIsComing, Live

----------------------------------------------------------------------------
(* One lemma per action *)

LEMMA StepUpdatePlayerLocation ==
  ASSUME IInv, NEW p \in Players, NEW h \in Places, UpdatePlayerLocation(p, h)
  PROVE  IInv'
<1> DEFINE F == Fleeing(p, Near(p) # h, h)
<1> USE DEF IInv, UpdatePlayerLocation
<1>1. F \in SUBSET Live /\ \A b \in F : battle[b].target = p
  BY DEF Fleeing, Targeting
<1>2. /\ battle' \in FightsOrNone
      /\ duties' \subseteq Battles \X (Players \cup {Timer})
      /\ duties \subseteq duties'
      /\ \A b \in Battles : battle'[b] = None <=> battle[b] = None
      /\ Apart(battle') /\ AllLegal(battle')
  BY <1>1, FleeKeeps
<1>3. TypeOK'
  BY <1>2 DEF TypeOK, Whereabouts, Cooldowns
<1>4. TimerIsComing'
  BY <1>2, TimersStay
<1>5. Covers(cooldown', fought')
  BY NotNone, OddOnesOut DEF Covers, TypeOK, Cooldowns, Whereabouts
<1>. QED  BY <1>2, <1>3, <1>4, <1>5

LEMMA StepUpdatePlayerPosition ==
  ASSUME IInv, NEW p \in Players, NEW h \in Places, UpdatePlayerPosition(p, h)
  PROVE  IInv'
<1> DEFINE F == Fleeing(p, hex'[p] # hex[p], hex'[p])
<1> USE DEF IInv, UpdatePlayerPosition
<1>1. F \in SUBSET Live /\ \A b \in F : battle[b].target = p
  BY DEF Fleeing, Targeting
<1>2. /\ battle' \in FightsOrNone
      /\ duties' \subseteq Battles \X (Players \cup {Timer})
      /\ duties \subseteq duties'
      /\ \A b \in Battles : battle'[b] = None <=> battle[b] = None
      /\ Apart(battle') /\ AllLegal(battle')
  BY <1>1, FleeKeeps
<1>3. TypeOK'
  BY <1>2 DEF TypeOK, Whereabouts, Places
<1>4. TimerIsComing'
  BY <1>2, TimersStay
<1>. QED  BY <1>2, <1>3, <1>4

\* Steps that only move players and troops, whether they save the room or not.
LEMMA StepTroopsOrPlaces ==
  ASSUME IInv, carried' \in Carriers, hex' \in Whereabouts, gps' \in Whereabouts,
         UNCHANGED <<cooldown, battle, started, duties, fought, crashes>>,
         Save \/ UNCHANGED saved
  PROVE  IInv'
<1> USE DEF IInv
<1>1. saved' \in [carried : Carriers, battle : FightsOrNone,
                  fought : Whereabouts, cooldown : Cooldowns]
  BY SaveType DEF TypeOK
<1>2. TypeOK'
  BY <1>1 DEF TypeOK
<1>3. TimerIsComing'
  BY TimersStay
<1>4. CASE UNCHANGED saved
  BY <1>2, <1>3, <1>4
<1>5. CASE Save
  BY <1>2, <1>3, <1>5, SaveKeeps DEF TypeOK
<1>. QED  BY <1>4, <1>5

LEMMA StepTroops ==
  ASSUME IInv, NEW p \in Players, NEW h \in Places,
         PickUpTroops(p, h) \/ PlaceTroops(p, h)
  PROVE  IInv'
<1>1. carried[p] \in 0..MaxTroops /\ carried \in Carriers
      /\ hex \in Whereabouts /\ gps \in Whereabouts
  BY DEF IInv, TypeOK, Carriers
<1>2. ASSUME NEW n \in 0..MaxTroops, ChangeTroops(p, h, n) PROVE IInv'
  BY <1>1, <1>2, StepTroopsOrPlaces DEF ChangeTroops, Carriers, Whereabouts
<1>3. CASE \E n \in 0..MaxTroops : ChangeTroops(p, h, n)
  BY <1>2, <1>3
<1>4. CASE /\ hex' = [hex EXCEPT ![p] = h] /\ gps' = [gps EXCEPT ![p] = None]
           /\ UNCHANGED <<carried, cooldown, battle, started, duties, fought, saved, crashes>>
  BY <1>1, <1>4, StepTroopsOrPlaces DEF Whereabouts
<1>. QED  BY <1>1, <1>3, <1>4, BoundsAreNats DEF PickUpTroops, PlaceTroops

LEMMA StepRespondToTroopTransfer ==
  ASSUME IInv, NEW p \in Players, NEW ally \in Players, RespondToTroopTransfer(p, ally)
  PROVE  IInv'
<1>1. carried \in Carriers /\ hex \in Whereabouts /\ gps \in Whereabouts
  BY DEF IInv, TypeOK
<1>2. carried' \in Carriers
  BY <1>1, BoundsAreNats DEF RespondToTroopTransfer, Carriers
<1>. QED  BY <1>1, <1>2, StepTroopsOrPlaces DEF RespondToTroopTransfer

LEMMA StepAddReinforcements == ASSUME IInv, AddReinforcementsToAllHexes PROVE IInv'
<1>1. carried \in Carriers /\ hex \in Whereabouts /\ gps \in Whereabouts
  BY DEF IInv, TypeOK
<1>. QED  BY <1>1, StepTroopsOrPlaces DEF AddReinforcementsToAllHexes

LEMMA StepRemoveConnection ==
  ASSUME IInv, NEW p \in Players, RemoveConnection(p) PROVE IInv'
<1> DEFINE gone == {b \in Live : battle[b].starter = p}
<1> USE DEF IInv, RemoveConnection
<1>1. gone \in SUBSET Battles
      /\ battle' = [b \in Battles |-> IF b \in gone THEN None ELSE battle[b]]
  BY DEF Live
<1>2. battle' \in FightsOrNone /\ Apart(battle') /\ AllLegal(battle')
  BY <1>1, BattlesRemoved
<1>3. TypeOK'
  BY <1>2, SaveType DEF TypeOK, Whereabouts
<1>4. TimerIsComing'
  BY <1>1, TimersStay
<1>. QED  BY <1>2, <1>3, <1>4, SaveKeeps DEF TypeOK

LEMMA StepCreateFieldBattle ==
  ASSUME IInv, NEW p \in Players, NEW target \in Players \cup {None},
         CreateFieldBattle(p, target)
  PROVE  IInv'
<1> DEFINE f == [starter |-> p, at |-> Near(p), target |-> target,
                 joined |-> {}, fled |-> {}, open |-> TRUE]
<1> USE DEF IInv, CreateFieldBattle
<1>1. f \in Fights /\ Legal(f)
  BY DEF Fights, Legal, Enemies
<1>2. started' \in Battles /\ started' \in 0..MaxBattles
  BY BoundsAreNats DEF TypeOK, Battles
<1>3. \A c \in Battles \ {started'} : battle[c] # None =>
        battle[c].at # f.at /\ battle[c].starter # f.starter
  BY DEF Live
<1>4. /\ battle' \in FightsOrNone
      /\ Apart(battle') /\ AllLegal(battle')
      /\ \A c \in Battles \ {started'} : battle'[c] = battle[c]
  BY <1>1, <1>2, <1>3, OneBattleChanged
<1>5. TypeOK'
  BY <1>2, <1>4, SaveType DEF TypeOK
<1>6. TimerIsComing'
  BY <1>2, <1>4 DEF TimerIsComing, Live
<1>. QED  BY <1>4, <1>5, <1>6, SaveKeeps DEF TypeOK

LEMMA StepJoinFieldBattle ==
  ASSUME IInv, NEW p \in Players, NEW b \in Battles, JoinFieldBattle(p, b)
  PROVE  IInv'
<1> DEFINE f == [battle[b] EXCEPT !.joined = battle[b].joined \cup {p}]
<1> USE DEF IInv, JoinFieldBattle
<1>1. b \in Live /\ battle[b] \in Fights /\ battle[b] # None
  BY LiveTypes
<1>2. /\ f \in Fights /\ f.at = battle[b].at /\ f.starter = battle[b].starter
      /\ f.joined = battle[b].joined \cup {p}
      /\ f.target = battle[b].target /\ f.fled = battle[b].fled
  BY <1>1 DEF Fights
<1>3. Legal(battle[b])
  BY <1>1 DEF AllLegal
<1>4. Legal(f)
  BY <1>2, <1>3 DEF Legal
<1>5. battle' = [battle EXCEPT ![b] = f]
  BY <1>1
<1>6. /\ battle' \in FightsOrNone
      /\ Apart(battle') /\ AllLegal(battle')
      /\ \A c \in Battles : battle'[c] = None <=> battle[c] = None
  BY <1>1, <1>2, <1>4, <1>5, OneBattleUpdated
<1>7. TypeOK'
  BY <1>6 DEF TypeOK
<1>8. TimerIsComing'
  BY <1>6, TimersStay
<1>. QED  BY <1>6, <1>7, <1>8

LEMMA StepSelectFieldBattleTarget ==
  ASSUME IInv, NEW b \in Battles, NEW target \in Players, SelectFieldBattleTarget(b, target)
  PROVE  IInv'
<1> DEFINE f == [battle[b] EXCEPT !.target = target]
<1> USE DEF IInv, SelectFieldBattleTarget
<1>1. b \in Live /\ battle[b] \in Fights /\ battle[b] # None
  BY LiveTypes
<1>2. /\ f \in Fights /\ f.at = battle[b].at /\ f.starter = battle[b].starter
      /\ f.joined = battle[b].joined /\ f.target = target /\ f.fled = battle[b].fled
  BY <1>1 DEF Fights
<1>3. Legal(battle[b]) /\ battle[b].fled \subseteq Players
  BY <1>1 DEF AllLegal, Fights
<1>4. Legal(f)
  <2>1. battle[b].fled = {}
    BY <1>3, NotNone DEF Legal
  <2>. QED  BY <1>2, <1>3, <2>1 DEF Legal
<1>5. /\ battle' \in FightsOrNone
      /\ Apart(battle') /\ AllLegal(battle')
      /\ \A c \in Battles : battle'[c] = None <=> battle[c] = None
  BY <1>1, <1>2, <1>4, OneBattleUpdated
<1>6. TypeOK'
  BY <1>5, SaveType DEF TypeOK
<1>7. TimerIsComing'
  BY <1>5, TimersStay
<1>. QED  BY <1>5, <1>6, <1>7, SaveKeeps DEF TypeOK

LEMMA StepFleeBattle ==
  ASSUME IInv, NEW p \in Players, NEW b \in Battles, FleeBattle(p, b)
  PROVE  IInv'
<1> USE DEF IInv, FleeBattle
<1>1. {b} \in SUBSET Live /\ \A c \in {b} : battle[c].target = p
  OBVIOUS
<1>2. /\ battle' \in FightsOrNone
      /\ duties' \subseteq Battles \X (Players \cup {Timer})
      /\ duties \subseteq duties'
      /\ \A c \in Battles : battle'[c] = None <=> battle[c] = None
      /\ Apart(battle') /\ AllLegal(battle')
  BY <1>1, FleeKeeps
<1>3. TypeOK'
  BY <1>2 DEF TypeOK
<1>4. TimerIsComing'
  BY <1>2, TimersStay
<1>. QED  BY <1>2, <1>3, <1>4

LEMMA StepCloseWindow ==
  ASSUME IInv, NEW b \in Battles, CloseWindow(b) PROVE IInv'
<1> DEFINE f == [battle[b] EXCEPT !.open = FALSE]
<1> USE DEF IInv, CloseWindow
<1>1. b \in Live /\ battle[b] \in Fights /\ battle[b] # None
  BY LiveTypes
<1>2. /\ f \in Fights /\ f.at = battle[b].at /\ f.starter = battle[b].starter
      /\ f.joined = battle[b].joined /\ f.target = battle[b].target
      /\ f.fled = battle[b].fled
  BY <1>1 DEF Fights
<1>3. Legal(f)
  BY <1>1, <1>2 DEF AllLegal, Legal
<1>4. /\ battle' \in FightsOrNone
      /\ Apart(battle') /\ AllLegal(battle')
      /\ \A c \in Battles : battle'[c] = None <=> battle[c] = None
  BY <1>1, <1>2, <1>3, OneBattleUpdated
<1>5. TypeOK'
  BY <1>4 DEF TypeOK
<1>6. TimerIsComing'
  BY <1>4, TimersStay
<1>. QED  BY <1>4, <1>5, <1>6

\* What a fight costs: the loser everything, the winner some, the others nothing.
LEMMA FightCosts ==
  ASSUME IInv, NEW b \in Live, Fight(b)
  PROVE  /\ carried' \in Carriers
         /\ \A p \in Players : carried'[p] <= carried[p]
         /\ \A p \in Players \ ({battle[b].starter} \cup battle[b].joined) :
              carried'[p] = carried[p]
         /\ \/ carried'[battle[b].starter] = 0
            \/ \A p \in battle[b].joined : carried'[p] = 0
<1> DEFINE s == battle[b].starter
           E == battle[b].joined
<1>1. /\ s \in Players /\ E \in SUBSET Players
      /\ \A p \in Players : carried[p] \in 0..MaxTroops
      /\ MaxTroops \in Nat
  BY LiveTypes, BoundsAreNats DEF IInv, TypeOK, Carriers, Fights
<1>2. s \notin E
  BY LiveTypes DEF IInv, AllLegal, Legal, Enemies
<1>3. PICK own, theirs : InitiatorWins(b, own, theirs) \/ EnemiesWin(b, own, theirs)
  BY DEF Fight
<1>4. CASE InitiatorWins(b, own, theirs)
  <2>1. PICK loss \in 0..carried[s] :
          carried' = [p \in Players |-> IF p \in E THEN 0
                                      ELSE IF p = s THEN carried[p] - loss
                                      ELSE carried[p]]
    BY <1>4 DEF InitiatorWins
  <2>2. \A p \in Players : carried'[p] \in 0..carried[p]
    BY <1>1, <2>1
  <2>. QED  BY <1>1, <1>2, <2>1, <2>2 DEF Carriers
<1>5. CASE EnemiesWin(b, own, theirs)
  <2>1. PICK losses \in [E -> 0..MaxTroops] :
          /\ \A e \in E : losses[e] <= carried[e]
          /\ carried' = [p \in Players |-> IF p \in E THEN carried[p] - losses[p]
                                      ELSE IF p = s THEN 0
                                      ELSE carried[p]]
    BY <1>5 DEF EnemiesWin, Losses
  <2>2. \A p \in Players : carried'[p] \in 0..carried[p]
    <3>1. \A p \in E : losses[p] \in 0..carried[p]
      BY <1>1, <2>1
    <3>. QED  BY <1>1, <2>1, <3>1
  <2>. QED  BY <1>1, <1>2, <2>1, <2>2 DEF Carriers
<1>. QED  BY <1>3, <1>4, <1>5

LEMMA EndBattleKeeps ==
  ASSUME IInv, NEW b \in Live, NEW participants \in SUBSET Players,
         EndBattle(b, participants), carried' \in Carriers,
         NEW who \in Players \cup {Timer}, duties' = duties \ {<<b, who>>}
  PROVE  IInv'
<1> USE DEF IInv, EndBattle
<1>1. b \in Battles /\ battle[b] \in Fights /\ battle[b].at \in Grid /\ battle[b].at \in Places
  BY LiveTypes DEF Fights, Places
<1>2. /\ battle' = [c \in Battles |-> IF c \in {b} THEN None ELSE battle[c]]
      /\ {b} \in SUBSET Battles
  BY <1>1 DEF TypeOK, FightsOrNone
<1>3. battle' \in FightsOrNone /\ Apart(battle') /\ AllLegal(battle')
  BY <1>2, BattlesRemoved
<1>4. cooldown' \in Cooldowns /\ fought' \in Whereabouts
  BY <1>1 DEF TypeOK, Cooldowns, Whereabouts
<1>5. TypeOK'
  BY <1>3, <1>4, SaveType DEF TypeOK
<1>6. TimerIsComing'
  BY <1>2 DEF TimerIsComing, Live
<1>7. Covers(cooldown', fought')
  BY DEF Covers
<1>. QED  BY <1>3, <1>4, <1>5, <1>6, <1>7, SaveKeeps

LEMMA StepResolveFieldBattle ==
  ASSUME IInv, NEW b \in Battles, NEW who \in Players \cup {Timer},
         ResolveFieldBattle(b, who)
  PROVE  IInv'
<1>1. CASE b \notin Live
  <2>1. \A c \in Live : <<c, Timer>> \in duties => <<c, Timer>> \in duties'
    BY <1>1 DEF ResolveFieldBattle
  <2>2. TypeOK'
    BY <1>1 DEF IInv, TypeOK, ResolveFieldBattle
  <2>3. TimerIsComing'
    BY <1>1, <2>1 DEF IInv, TimerIsComing, Live, ResolveFieldBattle
  <2>. QED  BY <1>1, <2>2, <2>3 DEF IInv, ResolveFieldBattle
<1>2. CASE b \in Live
  <2>1. battle[b].starter \in Players /\ battle[b].joined \in SUBSET Players
    BY <1>2, LiveTypes DEF IInv, Fights
  <2>2. duties' = duties \ {<<b, who>>} /\ (Unopposed(b) \/ Fight(b))
    BY <1>2 DEF ResolveFieldBattle
  <2>3. CASE Unopposed(b)
    <3>1. carried' \in Carriers
      BY <2>3 DEF Unopposed, IInv, TypeOK
    <3>. QED  BY <1>2, <2>1, <2>2, <2>3, <3>1, EndBattleKeeps DEF Unopposed
  <2>4. CASE Fight(b)
    <3>1. carried' \in Carriers
      BY <1>2, <2>4, FightCosts
    <3>2. EndBattle(b, {battle[b].starter} \cup battle[b].joined)
      BY <2>4 DEF Fight
    <3>. QED  BY <1>2, <2>1, <2>2, <3>1, <3>2, EndBattleKeeps
  <2>. QED  BY <2>2, <2>3, <2>4
<1>. QED  BY <1>1, <1>2

LEMMA StepCleanupRoomBattles ==
  ASSUME IInv, NEW b \in Battles, CleanupRoomBattles(b) PROVE IInv'
<1> USE DEF IInv, CleanupRoomBattles
<1>1. /\ battle' = [c \in Battles |-> IF c \in {b} THEN None ELSE battle[c]]
      /\ {b} \in SUBSET Battles
  BY DEF TypeOK, FightsOrNone
<1>2. battle' \in FightsOrNone /\ Apart(battle') /\ AllLegal(battle')
  BY <1>1, BattlesRemoved
<1>3. TypeOK'
  BY <1>2 DEF TypeOK
<1>4. TimerIsComing'
  BY <1>1, TimersStay
<1>. QED  BY <1>2, <1>3, <1>4

LEMMA StepCooldownExpires ==
  ASSUME IInv, NEW p \in Players, CooldownExpires(p) PROVE IInv'
<1> USE DEF IInv, CooldownExpires
<1>1. TypeOK'
  BY DEF TypeOK, Cooldowns, Whereabouts
<1>2. TimerIsComing'
  BY TimersStay
<1>3. Covers(cooldown', fought')
  BY DEF Covers, TypeOK, Cooldowns, Whereabouts
<1>. QED  BY <1>1, <1>2, <1>3

LEMMA StepCrashAndRestore == ASSUME IInv, CrashAndRestore PROVE IInv'
<1> USE DEF IInv, CrashAndRestore
<1>1. TypeOK'
  BY DEF TypeOK, Whereabouts
<1>2. TimerIsComing'
  BY DEF TimerIsComing, TypeOK
<1>. QED  BY <1>1, <1>2

LEMMA Stutter == ASSUME IInv, UNCHANGED vars PROVE IInv'
BY DEF IInv, vars, TypeOK, TimerIsComing, Live

THEOREM NextInv == IInv /\ [Next]_vars => IInv'
<1> SUFFICES ASSUME IInv, [Next]_vars PROVE IInv'
  OBVIOUS
<1>1. ASSUME NEW p \in Players, Player(p) PROVE IInv'
  BY <1>1, StepUpdatePlayerLocation, StepUpdatePlayerPosition, StepTroops,
     StepRespondToTroopTransfer, StepRemoveConnection, StepCreateFieldBattle, StepJoinFieldBattle,
     StepFleeBattle, StepCooldownExpires DEF Player
<1>2. ASSUME NEW b \in Battles, \E target \in Players : SelectFieldBattleTarget(b, target)
      PROVE  IInv'
  BY <1>2, StepSelectFieldBattleTarget
<1>3. ASSUME NEW b \in Battles, \E who \in Players \cup {Timer} : ResolveFieldBattle(b, who)
      PROVE  IInv'
  BY <1>3, StepResolveFieldBattle
<1>4. ASSUME NEW b \in Battles, CloseWindow(b) \/ CleanupRoomBattles(b) PROVE IInv'
  BY <1>4, StepCloseWindow, StepCleanupRoomBattles
<1>5. CASE CrashAndRestore
  BY <1>5, StepCrashAndRestore
<1>7. CASE AddReinforcementsToAllHexes
  BY <1>7, StepAddReinforcements
<1>6. CASE UNCHANGED vars
  BY <1>6, Stutter
<1>. QED  BY <1>1, <1>2, <1>3, <1>4, <1>5, <1>6, <1>7 DEF Next

THEOREM Invariance == Spec => []IInv
  BY InitInv, NextInv, PTL DEF Spec

----------------------------------------------------------------------------
(* The properties the runs check. *)

\* Every variable keeps its type: no fight leaves a negative number of troops.
THEOREM TypeCorrect == Spec => []TypeOK
<1>1. IInv => TypeOK
  BY DEF IInv
<1>. QED  BY <1>1, Invariance, PTL

\* Unresolved battles are on different hexes, of different initiators.
THEOREM OneBattleAtATimeHolds == Spec => []OneBattleAtATime
<1>1. IInv => OneBattleAtATime
  BY DEF IInv, OneBattleAtATime, Apart, Live
<1>. QED  BY <1>1, Invariance, PTL

\* Those in a battle are entitled to be there.
THEOREM WhoMayFightHolds == Spec => []WhoMayFight
<1>1. IInv => WhoMayFight
  BY DEF IInv, WhoMayFight, AllLegal, Legal, Live
<1>. QED  BY <1>1, Invariance, PTL

\* A battle of this process has its timer.
THEOREM TimerIsComingHolds == Spec => []TimerIsComing
<1>1. IInv => TimerIsComing
  BY DEF IInv
<1>. QED  BY <1>1, Invariance, PTL

\* How a battle can disappear while a duty to resolve something is carried out.
LEMMA BattleEnds ==
  ASSUME IInv, [Next]_vars, NEW b \in Live, battle'[b] = None,
         crashes' = crashes, duties' # duties
  PROVE  Unopposed(b) \/ Fight(b)
<1> USE DEF IInv
<1>1. b \in Battles /\ battle[b] # None
  BY DEF Live
<1>2. ~UNCHANGED vars /\ ~CrashAndRestore
  BY DEF vars, CrashAndRestore, TypeOK
<1>3. ASSUME NEW p \in Players, NEW fleeing \in SUBSET Live, Flee(p, fleeing),
             \A c \in fleeing : battle[c].target = p
      PROVE  FALSE
  BY <1>1, <1>3, FleeKeeps
<1>4. ASSUME NEW p \in Players, Player(p) PROVE FALSE
  <2>1. CASE \E h \in Places : UpdatePlayerLocation(p, h) \/ UpdatePlayerPosition(p, h)
    BY <1>3, <2>1 DEF UpdatePlayerLocation, UpdatePlayerPosition, Fleeing, Targeting
  <2>2. CASE \E c \in Battles : FleeBattle(p, c)
    BY <1>3, <2>2 DEF FleeBattle
  <2>3. CASE \/ \E h \in Places : PickUpTroops(p, h) \/ PlaceTroops(p, h)
             \/ \E ally \in Players : RespondToTroopTransfer(p, ally)
             \/ RemoveConnection(p) \/ CooldownExpires(p)
    BY <2>3 DEF PickUpTroops, PlaceTroops, ChangeTroops, RespondToTroopTransfer,
       RemoveConnection, CooldownExpires
  <2>4. ASSUME NEW target \in Players \cup {None}, CreateFieldBattle(p, target) PROVE FALSE
    <3>1. [starter |-> p, at |-> Near(p), target |-> target,
           joined |-> {}, fled |-> {}, open |-> TRUE] \in Fights
      BY <2>4 DEF CreateFieldBattle, Fights
    <3>. QED  BY <1>1, <2>4, <3>1, NotNone DEF CreateFieldBattle, TypeOK, FightsOrNone
  <2>5. ASSUME NEW c \in Battles, JoinFieldBattle(p, c) PROVE FALSE
    <3>1. c \in Live /\ battle[c] \in Fights
      BY <2>5, LiveTypes DEF JoinFieldBattle
    <3>2. [battle[c] EXCEPT !.joined = battle[c].joined \cup {p}] \in Fights
      BY <3>1 DEF Fights
    <3>. QED  BY <1>1, <2>5, <3>2, NotNone DEF JoinFieldBattle, TypeOK, FightsOrNone
  <2>. QED  BY <1>4, <2>1, <2>2, <2>3, <2>4, <2>5 DEF Player
<1>5. PICK c \in Battles, who \in Players \cup {Timer} : ResolveFieldBattle(c, who)
  BY <1>2, <1>4 DEF Next, SelectFieldBattleTarget, CloseWindow, CleanupRoomBattles,
     AddReinforcementsToAllHexes
<1>6. c \in Live
  BY <1>1, <1>5 DEF ResolveFieldBattle
<1>7. battle' = [battle EXCEPT ![c] = None]
  BY <1>5, <1>6 DEF ResolveFieldBattle, Unopposed, Fight, EndBattle
<1>8. c = b
  BY <1>1, <1>7 DEF TypeOK, FightsOrNone
<1>. QED  BY <1>5, <1>6, <1>8 DEF ResolveFieldBattle

\* All who joined a battle take part in the fight that ends it.
THEOREM JoinersFightHolds == Spec => JoinersFight
<1>1. ASSUME IInv, [Next]_vars, NEW b \in Live, battle'[b] = None,
             duties' # duties, crashes' = crashes, NEW p \in battle[b].joined
      PROVE  fought'[p] = battle[b].at
  <2>1. Fight(b)
    BY <1>1, BattleEnds DEF Unopposed
  <2>2. p \in Players
    BY <1>1, LiveTypes DEF IInv, Fights
  <2>. QED  BY <2>1, <2>2 DEF Fight, EndBattle
<1>2. IInv /\ [Next]_vars =>
        [\A b \in Live :
           battle'[b] = None /\ duties' # duties /\ crashes' = crashes =>
             \A p \in battle[b].joined : fought'[p] = battle[b].at]_vars
  BY <1>1
<1>. QED  BY <1>2, Invariance, PTL DEF Spec, JoinersFight

\* A fight makes nobody richer and leaves one side without troops.
THEOREM FightsAreDecisiveHolds == Spec => FightsAreDecisive
<1> DEFINE Decisive(b) ==
      LET f == battle[b]
          fighters == {f.starter} \cup f.joined
      IN battle'[b] = None /\ crashes' = crashes /\ duties' # duties =>
           /\ \A p \in Players : carried'[p] <= carried[p]
           /\ \A p \in Players \ fighters : carried'[p] = carried[p]
           /\ f.joined # {} => carried'[f.starter] = 0 \/ \A p \in f.joined : carried'[p] = 0
<1>1. ASSUME IInv, [Next]_vars, NEW b \in Live PROVE Decisive(b)
  <2> SUFFICES ASSUME battle'[b] = None, crashes' = crashes, duties' # duties
               PROVE  Decisive(b)
    OBVIOUS
  <2>1. CASE Unopposed(b)
    BY <1>1, <2>1 DEF Unopposed, IInv, TypeOK, Carriers
  <2>2. CASE Fight(b)
    BY <1>1, <2>2, FightCosts
  <2>. QED  BY <1>1, <2>1, <2>2, BattleEnds
<1>2. IInv /\ [Next]_vars => [\A b \in Live : Decisive(b)]_vars
  BY <1>1
<1>. QED  BY <1>2, Invariance, PTL DEF Spec, FightsAreDecisive

\* No second battle on the hex of the last one.
THEOREM NoRematchInPlaceHolds == Spec => NoRematchInPlace
<1>1. ASSUME IInv, [Next]_vars, NEW b \in Battles, battle[b] = None, battle'[b] # None,
             crashes' = crashes
      PROVE  fought[battle'[b].starter] # battle'[b].at
  <2> USE <1>1 DEF IInv
  <2>1. ASSUME NEW p \in Players, NEW fleeing \in SUBSET Live, Flee(p, fleeing),
               \A c \in fleeing : battle[c].target = p
        PROVE  FALSE
    BY <2>1, FleeKeeps
  <2>2. ASSUME NEW c \in Live, NEW f, battle' = [battle EXCEPT ![c] = f] PROVE FALSE
    BY <2>2 DEF Live, TypeOK, FightsOrNone
  <2>3. PICK p \in Players : Player(p)
    <3>1. ~UNCHANGED vars /\ ~CrashAndRestore /\ ~AddReinforcementsToAllHexes
      BY DEF vars, CrashAndRestore, AddReinforcementsToAllHexes, TypeOK
    <3>2. \A c \in Battles : ~CloseWindow(c) /\ ~CleanupRoomBattles(c)
      BY <2>2 DEF CloseWindow, CleanupRoomBattles
    <3>3. \A c \in Battles, target \in Players : ~SelectFieldBattleTarget(c, target)
      BY <2>2 DEF SelectFieldBattleTarget
    <3>4. \A c \in Battles, who \in Players \cup {Timer} : ~ResolveFieldBattle(c, who)
      BY <2>2 DEF ResolveFieldBattle, Unopposed, Fight, EndBattle
    <3>. QED  BY <3>1, <3>2, <3>3, <3>4 DEF Next
  <2>4. PICK target \in Players \cup {None} : CreateFieldBattle(p, target)
    <3>1. \A h \in Places : ~UpdatePlayerLocation(p, h) /\ ~UpdatePlayerPosition(p, h)
      BY <2>1 DEF UpdatePlayerLocation, UpdatePlayerPosition, Fleeing, Targeting
    <3>2. \A c \in Battles : ~JoinFieldBattle(p, c)
      BY <2>2 DEF JoinFieldBattle
    <3>3. \A c \in Battles : ~FleeBattle(p, c)
      BY <2>1 DEF FleeBattle
    <3>4. ~RemoveConnection(p) /\ ~CooldownExpires(p)
      BY DEF RemoveConnection, CooldownExpires, Live
    <3>5. \A h \in Places : ~PickUpTroops(p, h) /\ ~PlaceTroops(p, h)
      BY DEF PickUpTroops, PlaceTroops, ChangeTroops
    <3>6. \A ally \in Players : ~RespondToTroopTransfer(p, ally)
      BY DEF RespondToTroopTransfer
    <3>. QED  BY <2>3, <3>1, <3>2, <3>3, <3>4, <3>5, <3>6 DEF Player
  <2>5. started' = b /\ battle'[b].starter = p /\ battle'[b].at = Near(p)
    BY <2>4 DEF CreateFieldBattle, TypeOK, FightsOrNone
  <2>6. fought[p] = None
    BY <2>4, OddOnesOut DEF CreateFieldBattle, Covers, TypeOK, Whereabouts
  <2>7. Near(p) # None
    BY <2>4, NotNone DEF CreateFieldBattle, Places
  <2>. QED  BY <2>5, <2>6, <2>7
<1>2. IInv /\ [Next]_vars =>
        [\A b \in Battles :
           battle[b] = None /\ battle'[b] # None /\ crashes' = crashes =>
             fought[battle'[b].starter] # battle'[b].at]_vars
  BY <1>1
<1>. QED  BY <1>2, Invariance, PTL DEF Spec, NoRematchInPlace

(***************************************************************************)
(* Invitations and offers on the screen                                    *)
(***************************************************************************)

\* The elements of a sequence, and what is left of it.
LEMMA ShorterSeq ==
  ASSUME NEW S
  PROVE  /\ <<>> \in Seq(S)
         /\ \A s \in Seq(S) : s # <<>> => Head(s) \in S /\ Tail(s) \in Seq(S)
OBVIOUS

HubCalls ==
  [op : {"start", "cancel"}, of : Abilities]
    \cup [op : {"share", "scan", "answer", "flee"}, of : Abilities \cup Invites \cup Offers]
CardStates == [running : SUBSET Abilities, cooling : SUBSET Abilities,
               place : Grounds, paused : BOOLEAN]
CardMessages ==
  [type : {"StateUpdated", "PlayerJoined", "PlayersMoved"}, of : {Nothing}, state : CardStates]
    \cup [type : {"Error", "Resolved", "Told"}, of : {Nothing}, state : {Nothing}]
    \cup [type : {"Invited"}, of : Invites \cup Offers, state : {Nothing}]
    \cup [type : {"Answer"}, of : HubCalls, state : {Nothing}]

\* The hub, and what is on its way to it and from it.
CardHub ==
  /\ running \subseteq Abilities /\ cooling \subseteq Abilities
  /\ place \in Grounds /\ paused \in BOOLEAN
CardLink == CardHub /\ calls \in Seq(HubCalls) /\ wire \in Seq(CardMessages)

\* Panels of their kinds, with their timers.
CardPanels ==
  /\ panel \in [invite : Invites \cup {Nothing}, offer : Offers \cup {Nothing}]
  /\ TimersMatchPanels

LEMMA CardMessagesSent ==
  ASSUME CardLink, NEW msgs \in Seq(CardMessages), Send(msgs)
  PROVE  wire' \in Seq(CardMessages)
BY DEF CardLink, Send

LEMMA CardSays ==
  ASSUME CardHub', NEW type \in {"StateUpdated", "PlayerJoined", "PlayersMoved"}
  PROVE  Says(type) \in CardMessages
BY DEF CardHub, Says, State, CardMessages, CardStates

LEMMA CardMsg ==
  /\ \A type \in {"Error", "Resolved", "Told"} : Msg(type, Nothing) \in CardMessages
  /\ \A o \in Invites \cup Offers : Msg("Invited", o) \in CardMessages
  /\ \A c \in HubCalls : Msg("Answer", c) \in CardMessages
BY DEF Msg, CardMessages

\* What the hub sends of one or two messages.
LEMMA CardSend ==
  ASSUME CardLink, NEW m \in CardMessages, NEW n \in CardMessages,
         \/ Send(<<>>) \/ Send(<<m>>) \/ Send(<<m, n>>)
  PROVE  wire' \in Seq(CardMessages)
<1>1. <<>> \in Seq(CardMessages) /\ <<m>> \in Seq(CardMessages) /\ <<m, n>> \in Seq(CardMessages)
  OBVIOUS
<1>. QED  BY <1>1, CardMessagesSent

LEMMA CardClicksLink ==
  ASSUME CardLink, CardPanels, Clicks
  PROVE  CardLink'
<1>1. \A a \in {"fort", "sabotage", "demolish", "beacon", "raid", "strike", "rally", "battle",
                 "intercept", "shareIntel"} : a \in Abilities
  BY DEF Abilities, Missions, Buffs
<1>2. /\ panel.invite # Nothing => panel.invite \in Invites
      /\ panel.offer # Nothing => panel.offer \in Offers
  BY DEF CardPanels
<1>3. /\ UNCHANGED <<running, cooling, place, paused, wire>>
      /\ calls' = calls \/ \E c \in HubCalls : calls' = Append(calls, c)
  <2> USE DEF Call, CardCalls, HubCalls, hub, link
  <2>1. CASE \/ \E a \in Abilities : PressAbility(a)
             \/ BackToHud \/ Ignore
             \/ \E item \in Lasting \cup {"toast"} : Dismiss(item)
    BY <2>1 DEF PressAbility, BackToHud, Ignore, Dismiss
  <2>2. CASE ArmStrike \/ LaunchRaid \/ RaiseRally \/ StartFort
             \/ StartSabotage \/ StartDemolish \/ LightBeacon \/ Challenge
    BY <1>1, <2>2 DEF ArmStrike, LaunchRaid, RaiseRally, StartFort,
          StartSabotage, StartDemolish, LightBeacon, Challenge
  <2>3. CASE AbortFort \/ AbortSabotage \/ AbortDemolish \/ ShareIntel \/ Scan
    BY <1>1, <2>3 DEF AbortFort, AbortSabotage, AbortDemolish, ShareIntel, Scan
  <2>4. CASE FleePanel \/ \E k \in {"invite", "offer"} : AnswerPanel(k)
    BY <1>2, <2>4 DEF FleePanel, AnswerPanel
  <2>. QED  BY <2>1, <2>2, <2>3, <2>4 DEF Clicks
<1>. QED  BY <1>3 DEF CardLink, CardHub

LEMMA CardHubLink ==
  ASSUME CardLink, HubHandles
  PROVE  CardLink'
<1> DEFINE c == Head(calls)
<1>1. c \in HubCalls /\ calls' \in Seq(HubCalls)
  BY DEF CardLink, HubHandles
<1>2. Msg("Answer", c) \in CardMessages /\ Msg("Error", Nothing) \in CardMessages
  BY <1>1, CardMsg
<1> HIDE DEF c
<1>3. CASE c.op = "start" /\ HubStarts(c)
  <2>1. c.of \in Abilities
    BY <1>1, <1>3 DEF HubCalls
  <2>2. "strike" \in Abilities /\ "raid" \in Abilities /\ "rally" \in Abilities
    BY DEF Abilities, Buffs
  <2>3. CardHub'
    BY <1>3, <2>1, <2>2 DEF CardLink, CardHub, HubStarts
  <2>4. Says("StateUpdated") \in CardMessages
    BY <2>3, CardSays
  <2>5. wire' \in Seq(CardMessages)
    BY <1>2, <1>3, <2>4, CardSend DEF HubStarts
  <2>. QED  BY <1>1, <2>3, <2>5 DEF CardLink
<1>4. CASE c.op = "cancel" /\ HubCancels(c)
  <2>1. CardHub'
    BY <1>4 DEF CardLink, CardHub, HubCancels
  <2>2. Says("StateUpdated") \in CardMessages
    BY <2>1, CardSays
  <2>3. wire' \in Seq(CardMessages)
    BY <1>2, <1>4, <2>2, CardSend DEF HubCancels
  <2>. QED  BY <1>1, <2>1, <2>3 DEF CardLink
<1>5. CASE c.op \in {"answer", "flee"} /\ HubAnswers(c)
  <2>1. CardHub'
    BY <1>5 DEF CardLink, CardHub, HubAnswers
  <2>2. Says("StateUpdated") \in CardMessages /\ Msg("Resolved", Nothing) \in CardMessages
    BY <2>1, CardSays, CardMsg
  <2>3. PICK first \in Seq(CardMessages) : Send(first \o <<Msg("Answer", c)>>)
    <3>1. /\ <<Msg("Error", Nothing)>> \in Seq(CardMessages)
          /\ <<Says("StateUpdated"), Msg("Resolved", Nothing)>> \in Seq(CardMessages)
          /\ <<Says("StateUpdated")>> \in Seq(CardMessages)
      BY <1>2, <2>2
    <3>. QED  BY <1>5, <3>1 DEF HubAnswers
  <2>4. first \o <<Msg("Answer", c)>> \in Seq(CardMessages)
    BY <1>2
  <2>5. wire' \in Seq(CardMessages)
    BY <2>3, <2>4, CardMessagesSent
  <2>. QED  BY <1>1, <2>1, <2>5 DEF CardLink
<1>6. CASE c.op \in {"share", "scan"} /\ HubScans(c)
  <2>1. CardHub'
    BY <1>6 DEF CardLink, CardHub, HubScans, hub
  <2>2. Says("StateUpdated") \in CardMessages
    BY <2>1, CardSays
  <2>3. [c EXCEPT !.op = "share"] \in HubCalls
    BY <1>1, <1>6 DEF HubCalls
  <2>4. Msg("Answer", [c EXCEPT !.op = "share"]) \in CardMessages
    BY <2>3, CardMsg
  <2>5. wire' \in Seq(CardMessages)
    BY <1>2, <1>6, <2>2, <2>4, CardSend DEF HubScans
  <2>. QED  BY <1>1, <2>1, <2>5 DEF CardLink
<1>. QED  BY <1>3, <1>4, <1>5, <1>6 DEF HubHandles, c

LEMMA CardOthersLink ==
  ASSUME CardLink, Others \/ RegenerationTick
  PROVE  CardLink'
<1>1. CASE RegenerationTick \/ HostPauses \/ SomebodyJoins \/ \E p \in Grounds : Walk(p)
  <2>1. CardHub' /\ calls' \in Seq(HubCalls)
    BY <1>1 DEF CardLink, CardHub, RegenerationTick, HostPauses, SomebodyJoins,
          Walk, hub
  <2>2. \A type \in {"StateUpdated", "PlayerJoined", "PlayersMoved"} : Says(type) \in CardMessages
    BY <2>1, CardSays
  <2>3. \/ Send(<<Says("StateUpdated")>>) \/ Send(<<Says("PlayersMoved")>>)
        \/ Send(<<Says("PlayerJoined"), Says("StateUpdated")>>)
    BY <1>1 DEF RegenerationTick, HostPauses, SomebodyJoins, Walk
  <2>4. wire' \in Seq(CardMessages)
    BY <2>2, <2>3, CardSend
  <2>. QED  BY <2>1, <2>4 DEF CardLink
<1>2. CASE \E a \in Abilities : AbilityEnds(a)
  <2>1. CardHub' /\ calls' \in Seq(HubCalls)
    BY <1>2 DEF CardLink, CardHub, AbilityEnds
  <2>2. Says("StateUpdated") \in CardMessages /\ Msg("Resolved", Nothing) \in CardMessages
    BY <2>1, CardSays, CardMsg
  <2>3. \/ Send(<<Msg("Resolved", Nothing), Says("StateUpdated")>>)
        \/ Send(<<>>)
    BY <1>2 DEF AbilityEnds
  <2>4. wire' \in Seq(CardMessages)
    BY <2>2, <2>3, CardSend
  <2>. QED  BY <2>1, <2>4 DEF CardLink
<1>3. CASE \E a \in Abilities : CooldownEnds(a)
  BY <1>3 DEF CardLink, CardHub, CooldownEnds, link
<1>4. CASE Told \/ \E o \in Invites \cup Offers : Invited(o)
  <2>1. CardHub' /\ calls' \in Seq(HubCalls)
    BY <1>4 DEF CardLink, CardHub, Told, Invited, hub
  <2>2. \E m \in CardMessages : Send(<<m>>)
    BY <1>4, CardMsg DEF Told, Invited
  <2>3. wire' \in Seq(CardMessages)
    BY <2>2, CardSend
  <2>. QED  BY <2>1, <2>3 DEF CardLink
<1>. QED  BY <1>1, <1>2, <1>3, <1>4 DEF Others

LEMMA CardLinkStep ==
  ASSUME CardLink, CardPanels, [CardsNext]_cardVars
  PROVE  CardLink'
<1>1. CASE Timers \/ PositionFails \/ UNCHANGED cardVars
  BY <1>1 DEF CardLink, CardHub, Timers, ToastEnds, PanelExpires, PositionFails,
        cardVars, hub, link
<1>2. CASE Receive \/ LoseConnection
  <2>1. /\ UNCHANGED <<running, cooling, place, paused>>
        /\ \/ calls' = calls /\ wire # <<>> /\ wire' = Tail(wire)
           \/ calls' = <<>> /\ wire' = <<>>
    <3>1. CASE Receive
      <4>1. UNCHANGED hub /\ calls' = calls /\ wire # <<>> /\ wire' = Tail(wire)
        BY <3>1, Zenon DEF Receive
      <4>. QED  BY <4>1 DEF hub
    <3>2. CASE LoseConnection
      <4>1. UNCHANGED hub /\ calls' = <<>> /\ wire' = <<>>
        BY <3>2, Zenon DEF LoseConnection
      <4>. QED  BY <4>1 DEF hub
    <3>. QED  BY <1>2, <3>1, <3>2
  <2>2. CardHub'
    BY <2>1 DEF CardLink, CardHub
  <2>3. calls' \in Seq(HubCalls) /\ wire' \in Seq(CardMessages)
    BY <2>1, ShorterSeq DEF CardLink
  <2>. QED  BY <2>2, <2>3 DEF CardLink
<1>3. CASE Reconnect
  <2>1. CardHub' /\ calls' \in Seq(HubCalls)
    BY <1>3 DEF CardLink, CardHub, Reconnect, hub
  <2>2. Says("PlayerJoined") \in CardMessages /\ Says("StateUpdated") \in CardMessages
    BY <2>1, CardSays
  <2>3. wire' \in Seq(CardMessages)
    BY <1>3, <2>2 DEF Reconnect
  <2>. QED  BY <2>1, <2>3 DEF CardLink
<1>. QED  BY <1>1, <1>2, <1>3, CardClicksLink, CardHubLink, CardOthersLink DEF CardsNext

\* What may happen to the panels: one is shown, closed, or expires.
PanelsChange ==
  \/ UNCHANGED <<panel, timers>>
  \/ \E k \in {"invite", "offer"} : ClosePanel(k)
  \/ \E o \in Invites \cup Offers : ShowPanel(o)
  \/ \E o \in timers : panel' = [panel EXCEPT ![Kind(o)] = Nothing] /\ timers' = timers \ {o}

LEMMA PanelsStay ==
  ASSUME CardPanels, PanelsChange
  PROVE  CardPanels'
<1> USE NothingIsApart, BattlesAreNoOffers DEF CardPanels, TimersMatchPanels
<1>1. CASE UNCHANGED <<panel, timers>>
  BY <1>1
<1>2. CASE \E k \in {"invite", "offer"} : ClosePanel(k)
  BY <1>2 DEF ClosePanel, OfKind
<1>3. CASE \E o \in Invites \cup Offers : ShowPanel(o)
  BY <1>3 DEF ShowPanel, OfKind, Kind
<1>4. CASE \E o \in timers : panel' = [panel EXCEPT ![Kind(o)] = Nothing] /\ timers' = timers \ {o}
  BY <1>4 DEF Kind
<1>. QED  BY <1>1, <1>2, <1>3, <1>4 DEF PanelsChange

\* Which steps do it: messages, answers, the end of a connection, two buttons and the deadline.
LEMMA PanelSteps ==
  ASSUME CardLink, [CardsNext]_cardVars
  PROVE  PanelsChange
<1> USE DEF PanelsChange, panels
<1>1. CASE Clicks
  <2>1. CASE FleePanel \/ Ignore
    BY <2>1 DEF FleePanel, Ignore, FleeFails
  <2>2. CASE \/ \E a \in Abilities : PressAbility(a)
             \/ BackToHud \/ LightBeacon
             \/ \E k \in {"invite", "offer"} : AnswerPanel(k)
             \/ \E item \in Lasting \cup {"toast"} : Dismiss(item)
    BY <2>2 DEF PressAbility, BackToHud, LightBeacon, AnswerPanel, Dismiss
  <2>3. CASE ~ FleePanel /\ ~ Ignore /\ \E op \in {"start", "cancel", "share", "scan"}, a \in Abilities :
               CardCalls(op, a)
    BY <2>3 DEF CardCalls
  <2>4. \A a \in {"fort", "sabotage", "demolish", "beacon", "raid", "strike", "rally", "battle",
                   "intercept", "shareIntel"} : a \in Abilities
    BY DEF Abilities, Missions, Buffs
  <2>. QED  BY <1>1, <2>1, <2>2, <2>3, <2>4 DEF Clicks, ArmStrike, LaunchRaid,
              RaiseRally, StartFort, StartSabotage, StartDemolish, Challenge,
              AbortFort, AbortSabotage, AbortDemolish, ShareIntel, Scan
<1>2. CASE Others \/ RegenerationTick \/ HubHandles \/ PositionFails
           \/ Reconnect \/ UNCHANGED cardVars
  BY <1>2 DEF Others, RegenerationTick, HubHandles, PositionFails, Reconnect,
        AbilityEnds, CooldownEnds, Walk, HostPauses, SomebodyJoins, Told,
        Invited, cardVars
<1>3. CASE Timers
  BY <1>3 DEF Timers, ToastEnds, PanelExpires
<1>4. CASE LoseConnection
  BY <1>4 DEF LoseConnection, FleeFails
<1>5. CASE Receive
  <2> DEFINE m == Head(wire)
  <2>1. m \in CardMessages
    BY <1>5 DEF CardLink, Receive
  <2> HIDE DEF m
  <2>2. CASE m.type = "Answer" /\ OnAnswer(m.of)
    BY <2>2 DEF OnAnswer, Kind
  <2>3. CASE m.type = "Invited" /\ ShowPanel(m.of)
    <3>1. m.of \in Invites \cup Offers
      BY <2>1, <2>3 DEF CardMessages
    <3>. QED  BY <2>3, <3>1
  <2>4. CASE UNCHANGED <<panel, timers>> \/ ClosePanel("invite")
    BY <2>4
  <2>. QED  BY <1>5, <2>2, <2>3, <2>4 DEF Receive, m
<1>. QED  BY <1>1, <1>2, <1>3, <1>4, <1>5 DEF CardsNext

\* However invitations, offers, answers, deadlines and lost connections follow each other,
\* a panel on the screen has its own timer, and no timer is left of an earlier one.
THEOREM TimersMatchPanelsHolds == CardsSpec => []TimersMatchPanels
<1>1. CardsInit => CardLink /\ CardPanels
  <2> SUFFICES ASSUME CardsInit PROVE CardLink /\ CardPanels
    OBVIOUS
  <2>1. running \subseteq Abilities
    BY DEF CardsInit, Buttons, Abilities, Missions, Buffs
  <2>2. place \in Grounds /\ cooling = {} /\ paused = FALSE /\ calls = <<>> /\ wire = <<>>
    BY DEF CardsInit
  <2>3. CardLink
    BY <2>1, <2>2, ShorterSeq DEF CardLink, CardHub
  <2>4. panel = [invite |-> Nothing, offer |-> Nothing] /\ timers = {}
    BY DEF CardsInit
  <2>5. CardPanels
    BY <2>4 DEF CardPanels, TimersMatchPanels
  <2>. QED  BY <2>3, <2>5
<1>2. CardLink /\ CardPanels /\ [CardsNext]_cardVars => (CardLink /\ CardPanels)'
  BY CardLinkStep, PanelSteps, PanelsStay
<1>3. CardPanels => TimersMatchPanels
  BY DEF CardPanels
<1>. QED  BY <1>1, <1>2, <1>3, PTL DEF CardsSpec
==============================================================================
