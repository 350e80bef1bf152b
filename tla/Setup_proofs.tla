----------------------------- MODULE Setup_proofs ----------------------------
(***************************************************************************)
(* Proofs about LobbySetup, the setup of a game on the server, and         *)
(* SetupWizard, the host's screen for it, for every value of their         *)
(* constants. The two share no state.                                      *)
(*                                                                         *)
(* LobbySetup. Its invariants are inductive together with TypeOK: the      *)
(* master tile and the membership each by themselves, and that everybody   *)
(* can play because StartGame looks at the board it has made.              *)
(*                                                                         *)
(* SetupWizard, for every canvas and every sequence of clicks. A page has  *)
(* many controls, and all of them do one thing: Clicked(cs) says that they *)
(* send the calls cs, may guess a size or a list of alliances, and may     *)
(* order an area. What remains are the hub, the messages and the           *)
(* connection. GatesInv follows a step past Teams through calls, answers   *)
(* and messages; ScreenInv says that what the screen shows and the room    *)
(* does not have is still on its way; AreaInv follows the last area call.  *)
(***************************************************************************)
EXTENDS LobbySetup, SetupWizard, WellFoundedInduction, TLAPS

(***************************************************************************)
(* The lobby                                                               *)
(***************************************************************************)

LEMMA InitTypeOK == Init => TypeOK
<1>. SUFFICES ASSUME Init PROVE TypeOK
  OBVIOUS
<1>1. alliance \in [Users -> Ids \cup {None}] /\ at \in [Users -> Hexes \cup {None}]
  BY DEF Init
<1>2. owner \in [Hexes -> Users \cup {None}] /\ ally \in [Hexes -> Ids \cup {None}]
  BY DEF Init
<1>3. members \in [Ids -> SUBSET Users] /\ hq \in [Ids -> Hexes \cup {None}]
  BY DEF Init
<1>. QED
  BY <1>1, <1>2, <1>3, HostIsUser, AreasAreHexes DEF Init, TypeOK

\* The board after StartGame has assigned tiles, troops and headquarters.
LEMMA StartGameTypeOK ==
  ASSUME TypeOK, StartGame
  PROVE  TypeOK'
<1>1. master' \in Hexes \cup {None} /\ flagged' \subseteq Hexes
  BY AreasAreHexes DEF TypeOK, StartGame, AutoAssignMasterTile, Unowned, centre
<1>2. owner' \in [Hexes -> Users \cup {None}] /\ ally' \in [Hexes -> Ids \cup {None}]
  <2>1. PICK given \in SUBSET (Unowned \ flagged') : \E first \in [given -> joined] :
          /\ owner' = [h \in Hexes |-> IF h \in given THEN first[h] ELSE owner[h]]
          /\ ally' = [h \in Hexes |-> IF h \in given THEN alliance[first[h]] ELSE ally[h]]
    BY DEF StartGame, AutoAssignAllianceStartingTiles
  <2>4. PICK first \in [given -> joined] :
          /\ owner' = [h \in Hexes |-> IF h \in given THEN first[h] ELSE owner[h]]
          /\ ally' = [h \in Hexes |-> IF h \in given THEN alliance[first[h]] ELSE ally[h]]
    BY <2>1
  <2>2. \A h \in given : first[h] \in Users
    BY DEF TypeOK
  <2>3. \A h \in given : alliance[first[h]] \in Ids \cup {None}
    BY <2>2 DEF TypeOK
  <2>. QED  BY <2>4, <2>2, <2>3 DEF TypeOK
<1>3. armed' \subseteq Users
  BY DEF TypeOK, StartGame, GrantStartingTroops
<1>4. hq' \in [Ids -> Hexes \cup {None}]
  BY DEF StartGame, AutoAssignAllianceHQs
<1>5. phase' \in {"Lobby", "Playing"} /\ at' \in [Users -> Hexes \cup {None}]
  BY DEF TypeOK, StartGame
<1>6. UNCHANGED <<settings, joined, teams, grid, template>>
  BY DEF StartGame
<1>. QED
  BY <1>1, <1>2, <1>3, <1>4, <1>5, <1>6 DEF TypeOK, settings, teams

LEMMA NextTypeOK == TypeOK /\ [Next]_vars => TypeOK'
<1>. SUFFICES ASSUME TypeOK, [Next]_vars PROVE TypeOK'
  OBVIOUS
<1>. USE DEF TypeOK, vars, teams, tiles, centre, board, settings
<1>1. ASSUME NEW u \in Users, JoinRoom(u) PROVE TypeOK'
  BY <1>1 DEF JoinRoom
<1>2. ASSUME NEW u \in Users, NEW a \in Ids, SetAlliance(u, a) PROVE TypeOK'
  <2>1. members' \in [Ids -> SUBSET Users]
    BY <1>2 DEF SetAlliance
  <2>2. ally' \in [Hexes -> Ids \cup {None}] /\ alliance' \in [Users -> Ids \cup {None}]
    BY <1>2 DEF SetAlliance
  <2>. QED  BY <1>2, <2>1, <2>2 DEF SetAlliance
<1>3. ASSUME ConfigureAlliances PROVE TypeOK'
  BY <1>3 DEF ConfigureAlliances, NewIds
<1>4. ASSUME DistributePlayersRandomly PROVE TypeOK'
  <2>1. PICK team \in [joined -> alliances] :
          /\ alliance' = [u \in Users |-> IF u \in joined THEN team[u] ELSE alliance[u]]
          /\ members' = [a \in Ids |-> IF a \in alliances THEN {u \in joined : team[u] = a} ELSE members[a]]
    BY <1>4 DEF DistributePlayersRandomly
  <2>2. alliance' \in [Users -> Ids \cup {None}]
    BY <2>1
  <2>3. members' \in [Ids -> SUBSET Users]
    BY <2>1
  <2>. QED  BY <1>4, <2>2, <2>3 DEF DistributePlayersRandomly
<1>5. CASE SetMapLocation
  BY <1>5 DEF SetMapLocation
<1>6. CASE SetGameDynamics
  BY <1>6 DEF SetGameDynamics
<1>7. CASE ApplyGameArea
  BY <1>7 DEF ApplyGameArea, ResetBoardStateForAreaChange
<1>8. CASE LoadMapTemplate
  BY <1>8 DEF LoadMapTemplate
<1>9. CASE ApplyTemplate
  BY <1>9 DEF ApplyTemplate, ResetBoardStateForAreaChange
<1>10. ASSUME NEW h \in Hexes, SetMasterTileByHex(h) \/ SetMasterTile(h) PROVE TypeOK'
  BY <1>10 DEF SetMasterTileByHex, SetMasterTile
<1>11. ASSUME NEW h \in Hexes, NEW u \in Users, AssignStartingTile(h, u) PROVE TypeOK'
  BY <1>11 DEF AssignStartingTile
<1>12. ASSUME NEW h \in Hexes, NEW a \in Ids, AssignAllianceStartingTile(h, a) PROVE TypeOK'
  BY <1>12 DEF AssignAllianceStartingTile
<1>13. ASSUME NEW h \in Hexes, NEW a \in Ids, SetAllianceHQ(a, h) PROVE TypeOK'
  BY <1>13 DEF SetAllianceHQ
<1>14. CASE StartGame
  BY <1>14, StartGameTypeOK
<1>15. CASE UNCHANGED vars
  BY <1>15
<1>. QED
  BY <1>1, <1>2, <1>3, <1>4, <1>5, <1>6, <1>7, <1>8, <1>9, <1>10, <1>11, <1>12, <1>13, <1>14, <1>15 DEF Next

\* The state of the setup is well formed, for any players, areas and alliances.
THEOREM TypeCorrect == Spec => []TypeOK
  BY InitTypeOK, NextTypeOK, PTL DEF Spec

----------------------------------------------------------------------------
(* The master tile *)

\* A tile belongs to an alliance only through an owner.
AlliedIsOwned == \A h \in Hexes : owner[h] = None => ally[h] = None

Neutral == MasterTileIsNeutral /\ AlliedIsOwned

\* Tiles that StartGame gives away are free, and get an owner.
LEMMA StartGameNeutral ==
  ASSUME TypeOK, Neutral, StartGame
  PROVE  Neutral'
<1>0. Unowned \subseteq Hexes /\ grid' = grid
  BY AreasAreHexes DEF TypeOK, Unowned, StartGame
<1>1. /\ flagged' = {master'} \ {None}
      /\ master' # None => master' \in grid /\ owner[master'] = None
  BY <1>0, NoneIsNothing DEF Neutral, MasterTileIsNeutral, StartGame, AutoAssignMasterTile, centre, Unowned
<1>2. PICK given \in SUBSET (Unowned \ flagged') : \E first \in [given -> joined] :
        /\ owner' = [h \in Hexes |-> IF h \in given THEN first[h] ELSE owner[h]]
        /\ ally' = [h \in Hexes |-> IF h \in given THEN alliance[first[h]] ELSE ally[h]]
  BY DEF StartGame, AutoAssignAllianceStartingTiles
<1>3. PICK first \in [given -> joined] :
        /\ owner' = [h \in Hexes |-> IF h \in given THEN first[h] ELSE owner[h]]
        /\ ally' = [h \in Hexes |-> IF h \in given THEN alliance[first[h]] ELSE ally[h]]
  BY <1>2
<1>4. \A h \in given : first[h] # None
  BY NoneIsNothing DEF TypeOK
<1>5. AlliedIsOwned'
  BY <1>3, <1>4 DEF Neutral, AlliedIsOwned
<1>6. master' # None => master' \notin given /\ master' \in Hexes
  BY <1>0, <1>1, AreasAreHexes DEF TypeOK
<1>7. master' # None => owner'[master'] = None
  BY <1>1, <1>3, <1>6
<1>. QED
  BY <1>0, <1>1, <1>5, <1>6, <1>7 DEF Neutral, MasterTileIsNeutral, AlliedIsOwned

LEMMA NextNeutral == TypeOK /\ Neutral /\ [Next]_vars => Neutral'
<1>. SUFFICES ASSUME TypeOK, Neutral, [Next]_vars PROVE Neutral'
  OBVIOUS
<1>0. grid \subseteq Hexes /\ None \notin Hexes /\ None \notin Users
  BY AreasAreHexes, NoneIsNothing DEF TypeOK
<1>. USE DEF Neutral, MasterTileIsNeutral, AlliedIsOwned, vars, teams, tiles, centre, board, settings
<1>1. CASE UNCHANGED <<grid, tiles, centre>>
  BY <1>1
<1>2. ASSUME NEW u \in Users, NEW a \in Ids, SetAlliance(u, a) PROVE Neutral'
  <2>1. UNCHANGED <<grid, owner, centre>>
    BY <1>2 DEF SetAlliance
  <2>2. \A h \in Hexes : owner[h] = None => ally'[h] = ally[h]
    BY <1>0, <1>2 DEF SetAlliance, TilesOf
  <2>. QED  BY <1>0, <2>1, <2>2
<1>3. CASE ResetBoardStateForAreaChange
  BY <1>3 DEF ResetBoardStateForAreaChange
<1>4. ASSUME NEW h \in Hexes, SetMasterTileByHex(h) \/ SetMasterTile(h) PROVE Neutral'
  <2>1. CASE /\ h \in Unowned /\ master' = h /\ flagged' = (flagged \ {master}) \cup {h}
             /\ UNCHANGED <<grid, tiles>>
    <3>1. flagged' = {master'} \ {None}
      BY <1>0, <2>1
    <3>2. h \in grid /\ owner[h] = None /\ ally[h] = None
      BY <1>0, <2>1 DEF Unowned
    <3>. QED  BY <2>1, <3>1, <3>2
  <2>. QED  BY <1>1, <1>4, <2>1 DEF SetMasterTileByHex, SetMasterTile
<1>5. ASSUME NEW h \in Hexes, Assignable(h), UNCHANGED <<grid, centre>>,
             NEW u \in Users, NEW a \in Ids \cup {None},
             owner' = [owner EXCEPT ![h] = u], ally' = [ally EXCEPT ![h] = a]
      PROVE Neutral'
  <2>1. h # master
    BY <1>0, <1>5 DEF Assignable
  <2>2. AlliedIsOwned'
    BY <1>0, <1>5 DEF TypeOK
  <2>. QED  BY <1>0, <1>5, <2>1, <2>2 DEF TypeOK
<1>6. ASSUME NEW h \in Hexes, NEW u \in Users, AssignStartingTile(h, u) PROVE Neutral'
  <2>1. alliance[u] \in Ids \cup {None}
    BY DEF TypeOK
  <2>. QED  BY <1>5, <1>6, <2>1 DEF AssignStartingTile
<1>7. ASSUME NEW h \in Hexes, NEW a \in Ids, AssignAllianceStartingTile(h, a) PROVE Neutral'
  <2>1. PICK u \in joined : owner' = [owner EXCEPT ![h] = u]
    BY <1>7 DEF AssignAllianceStartingTile
  <2>. QED  BY <1>5, <1>7, <2>1 DEF AssignAllianceStartingTile, TypeOK
<1>8. CASE StartGame
  BY <1>8, StartGameNeutral
<1>9. CASE ApplyGameArea \/ ApplyTemplate
  BY <1>1, <1>3, <1>9 DEF ApplyGameArea, ApplyTemplate
<1>10. ASSUME NEW u \in Users, JoinRoom(u) PROVE Neutral'
  BY <1>1, <1>10 DEF JoinRoom
<1>11. CASE ConfigureAlliances \/ DistributePlayersRandomly \/ SetMapLocation \/ SetGameDynamics \/ LoadMapTemplate
  BY <1>1, <1>11 DEF ConfigureAlliances, DistributePlayersRandomly, SetMapLocation, SetGameDynamics, LoadMapTemplate
<1>12. ASSUME NEW h \in Hexes, NEW a \in Ids, SetAllianceHQ(a, h) PROVE Neutral'
  BY <1>1, <1>12 DEF SetAllianceHQ
<1>13. CASE UNCHANGED vars
  BY <1>1, <1>13
<1>. QED
  BY <1>2, <1>4, <1>6, <1>7, <1>8, <1>9, <1>10, <1>11, <1>12, <1>13 DEF Next

\* Whatever the host and the players do in whatever order, the master tile is
\* one hex of the area, and nobody's.
THEOREM MasterTileIsNeutralHolds == Spec => []MasterTileIsNeutral
<1>1. Init => Neutral
  BY AreasAreHexes DEF Init, Neutral, MasterTileIsNeutral, AlliedIsOwned
<1>2. Neutral => MasterTileIsNeutral
  BY DEF Neutral
<1>. QED
  BY <1>1, <1>2, TypeCorrect, NextNeutral, PTL DEF Spec

----------------------------------------------------------------------------
(* Alliances and their members *)

\* Nobody who has not joined has an alliance, and ids that are not in use have
\* no members left: one of them may be the next alliance.
NoStrayMembers ==
  /\ \A u \in Users \ joined : alliance[u] = None
  /\ \A a \in Ids \ alliances : members[a] = {}

Membership == MembershipAgrees /\ NoStrayMembers

LEMMA NextMembership == TypeOK /\ Membership /\ [Next]_vars => Membership'
<1>. SUFFICES ASSUME TypeOK, Membership, [Next]_vars PROVE Membership'
  OBVIOUS
<1>0. None \notin Ids /\ joined \subseteq Users /\ alliances \subseteq Ids
  BY NoneIsNothing DEF TypeOK
<1>. USE DEF Membership, MembershipAgrees, NoStrayMembers, vars, teams, board, settings
<1>1. CASE UNCHANGED <<joined, teams>>
  BY <1>1
<1>2. ASSUME NEW u \in Users, JoinRoom(u) PROVE Membership'
  <2>1. UNCHANGED teams /\ joined' = joined \cup {u} /\ u \notin joined
    BY <1>2 DEF JoinRoom
  <2>2. \A a \in alliances : members[a] = {v \in joined' : alliance[v] = a}
    BY <1>0, <2>1
  <2>. QED  BY <2>1, <2>2
<1>3. ASSUME NEW u \in Users, NEW a \in Ids, SetAlliance(u, a) PROVE Membership'
  <2>1. /\ UNCHANGED joined /\ u \in joined
        /\ alliances' = alliances \cup {a}
        /\ members' = [b \in Ids |-> IF b = a THEN members[b] \cup {u} ELSE members[b] \ {u}]
        /\ alliance' = [alliance EXCEPT ![u] = a]
    BY <1>3 DEF SetAlliance
  <2>2. \A b \in Ids : members[b] = {v \in joined : alliance[v] = b}
    BY <1>0
  <2>3. \A v \in Users : alliance'[v] = IF v = u THEN a ELSE alliance[v]
    BY <2>1 DEF TypeOK
  <2>4. \A b \in Ids : members'[b] = {v \in joined : alliance'[v] = b}
    <3>. SUFFICES ASSUME NEW b \in Ids PROVE members'[b] = {v \in joined : alliance'[v] = b}
      OBVIOUS
    <3>1. CASE b = a
      BY <1>0, <2>1, <2>2, <2>3, <3>1
    <3>2. CASE b # a
      BY <1>0, <2>1, <2>2, <2>3, <3>2
    <3>. QED  BY <3>1, <3>2
  <2>5. \A v \in Users : alliance'[v] \in alliances' \cup {None}
    BY <2>1, <2>3
  <2>6. \A v \in Users \ joined' : alliance'[v] = None
    BY <2>1, <2>3
  <2>7. \A b \in Ids \ alliances' : members'[b] = {}
    BY <1>0, <2>1, <2>4, <2>5
  <2>. QED  BY <1>0, <2>1, <2>4, <2>5, <2>6, <2>7
<1>4. CASE ConfigureAlliances
  <2>1. /\ UNCHANGED joined /\ alliances' \subseteq Ids
        /\ members' = [a \in Ids |-> {}] /\ alliance' = [u \in Users |-> None]
    BY <1>4 DEF ConfigureAlliances, NewIds
  <2>2. \A a \in alliances' : members'[a] = {u \in joined' : alliance'[u] = a}
    BY <1>0, <2>1
  <2>. QED  BY <2>1, <2>2
<1>5. CASE DistributePlayersRandomly
  <2>1. PICK team \in [joined -> alliances] :
          /\ alliance' = [u \in Users |-> IF u \in joined THEN team[u] ELSE alliance[u]]
          /\ members' = [a \in Ids |-> IF a \in alliances THEN {u \in joined : team[u] = a} ELSE members[a]]
    BY <1>5 DEF DistributePlayersRandomly
  <2>2. UNCHANGED <<joined, alliances>>
    BY <1>5 DEF DistributePlayersRandomly
  <2>3. \A a \in alliances : members'[a] = {u \in joined : alliance'[u] = a}
    BY <1>0, <2>1
  <2>. QED  BY <1>0, <2>1, <2>2, <2>3
<1>6. CASE StartGame
  BY <1>1, <1>6 DEF StartGame
<1>7. CASE SetMapLocation \/ SetGameDynamics \/ ApplyGameArea \/ LoadMapTemplate \/ ApplyTemplate
  BY <1>1, <1>7 DEF SetMapLocation, SetGameDynamics, ApplyGameArea, LoadMapTemplate, ApplyTemplate
<1>8. ASSUME NEW h \in Hexes, SetMasterTileByHex(h) \/ SetMasterTile(h) PROVE Membership'
  BY <1>1, <1>8 DEF SetMasterTileByHex, SetMasterTile
<1>9. ASSUME NEW h \in Hexes, NEW u \in Users, AssignStartingTile(h, u) PROVE Membership'
  BY <1>1, <1>9 DEF AssignStartingTile
<1>10. ASSUME NEW h \in Hexes, NEW a \in Ids, AssignAllianceStartingTile(h, a) \/ SetAllianceHQ(a, h)
       PROVE Membership'
  BY <1>1, <1>10 DEF AssignAllianceStartingTile, SetAllianceHQ
<1>11. CASE UNCHANGED vars
  BY <1>1, <1>11
<1>. QED
  BY <1>2, <1>3, <1>4, <1>5, <1>6, <1>7, <1>8, <1>9, <1>10, <1>11 DEF Next

\* MemberIds and AllianceId never disagree.
THEOREM MembershipAgreesHolds == Spec => []MembershipAgrees
<1>1. Init => Membership
  BY NoneIsNothing, HostIsUser DEF Init, Membership, MembershipAgrees, NoStrayMembers
<1>2. Membership => MembershipAgrees
  BY DEF Membership
<1>. QED
  BY <1>1, <1>2, TypeCorrect, NextMembership, PTL DEF Spec

----------------------------------------------------------------------------
(* The start of the game *)

\* A started game is touched by nothing but a template that arrives late, which
\* finds the lobby closed.
LEMMA StartedIsFixed ==
  ASSUME [Next]_vars, ~ InLobby
  PROVE  UNCHANGED <<phase, joined, board, hq, teams, at>>
<1>. USE DEF vars
<1>1. CASE ApplyTemplate
  BY <1>1 DEF ApplyTemplate, settings
<1>2. CASE UNCHANGED vars
  BY <1>2
<1>3. \A u \in Users : ~ JoinRoom(u)
  BY DEF JoinRoom
<1>4. \A u \in Users, a \in Ids : ~ SetAlliance(u, a)
  BY DEF SetAlliance
<1>5. ~ ConfigureAlliances /\ ~ DistributePlayersRandomly /\ ~ SetMapLocation /\ ~ SetGameDynamics
  BY DEF ConfigureAlliances, DistributePlayersRandomly, SetMapLocation, SetGameDynamics
<1>6. ~ ApplyGameArea /\ ~ LoadMapTemplate /\ ~ StartGame
  BY DEF ApplyGameArea, LoadMapTemplate, StartGame, MayStart
<1>7. \A h \in Hexes : ~ SetMasterTileByHex(h) /\ ~ SetMasterTile(h)
  BY DEF SetMasterTileByHex, SetMasterTile
<1>8. \A h \in Hexes, u \in Users : ~ AssignStartingTile(h, u)
  BY DEF AssignStartingTile
<1>9. \A h \in Hexes, a \in Ids : ~ AssignAllianceStartingTile(h, a) /\ ~ SetAllianceHQ(a, h)
  BY DEF AssignAllianceStartingTile, SetAllianceHQ
<1>. QED
  BY <1>1, <1>2, <1>3, <1>4, <1>5, <1>6, <1>7, <1>8, <1>9 DEF Next

\* No step after the start of the game changes its board or its alliances.
THEOREM RunningBoardIsFixedHolds == Spec => RunningBoardIsFixed
<1>1. [Next]_vars => [~ InLobby => UNCHANGED <<board, hq, teams>>]_vars
  BY StartedIsFixed
<1>. QED
  BY <1>1, PTL DEF Spec, RunningBoardIsFixed

LEMMA StartGameEverybody ==
  ASSUME TypeOK, StartGame
  PROVE  EverybodyCanPlay'
<1>. SUFFICES ASSUME ~ InLobby', NEW u \in joined'
              PROVE  u \in armed' /\ at'[u] \in (TilesOf(u) \cup Territory(alliance[u]))'
  BY DEF EverybodyCanPlay
<1>1. ReadyToPlay' /\ at'[u] \in SpawnCells(u)' /\ joined' = joined
  BY DEF StartGame, MayStart, InLobby, TypeOK
<1>2. armed' = {v \in joined : HasTerritory(v)'}
  BY DEF StartGame, GrantStartingTroops
<1>3. HasTerritory(u)'
  BY <1>1, <1>2 DEF ReadyToPlay
<1>4. SpawnCells(u)' \subseteq (TilesOf(u) \cup Territory(alliance[u]))'
  BY <1>3 DEF HasTerritory, SpawnCells
<1>. QED
  BY <1>1, <1>2, <1>3, <1>4

LEMMA NextEverybody == TypeOK /\ EverybodyCanPlay /\ [Next]_vars => EverybodyCanPlay'
<1>. SUFFICES ASSUME TypeOK, EverybodyCanPlay, [Next]_vars PROVE EverybodyCanPlay'
  OBVIOUS
<1>1. CASE ~ InLobby
  BY <1>1, StartedIsFixed DEF EverybodyCanPlay, InLobby, TilesOf, Territory, board, tiles, teams
<1>2. CASE StartGame
  BY <1>2, StartGameEverybody
<1>3. CASE InLobby /\ ~ StartGame
  <2>1. InLobby'
    BY <1>3 DEF Next, vars, InLobby, JoinRoom, SetAlliance, ConfigureAlliances, DistributePlayersRandomly,
       SetMapLocation, SetGameDynamics, ApplyGameArea, LoadMapTemplate, ApplyTemplate, SetMasterTileByHex,
       SetMasterTile, AssignStartingTile, AssignAllianceStartingTile, SetAllianceHQ
  <2>. QED  BY <2>1 DEF EverybodyCanPlay
<1>. QED
  BY <1>1, <1>2, <1>3

\* However often and with whatever board the start was tried, whoever plays has
\* troops and a place to stand.
THEOREM EverybodyCanPlayHolds == Spec => []EverybodyCanPlay
<1>1. Init => EverybodyCanPlay
  BY DEF Init, EverybodyCanPlay, InLobby
<1>. QED
  BY <1>1, TypeCorrect, NextEverybody, PTL DEF Spec

(***************************************************************************)
(* The wizard                                                              *)
(***************************************************************************)

(* Smallest and largest numbers *)

LEMMA LeastNat ==
  ASSUME NEW S \in SUBSET Nat, S # {}
  PROVE  \E x \in S : \A y \in S : x <= y
<1> DEFINE R == OpToRel(<, Nat)
<1>1. IsWellFoundedOn(R, Nat)
  BY NatLessThanWellFounded
<1>2. \A x, y \in Nat : y < x => <<y, x>> \in R
  BY DEF OpToRel
<1> HIDE DEF R
<1>3. PICK x \in S : \A y \in S : ~ (<<y, x>> \in R)
  BY <1>1, WFMin
<1>4. \A y \in S : x \in Nat /\ y \in Nat /\ ~ (y < x)
  BY <1>2, <1>3
<1>. QED  BY <1>4

LEMMA MinOfNats ==
  ASSUME NEW S \in SUBSET Nat, S # {}
  PROVE  Min(S) \in S /\ \A x \in S : Min(S) <= x
BY LeastNat DEF Min

LEMMA MaxOfBounded ==
  ASSUME NEW S \in SUBSET Nat, S # {}, NEW n \in Nat, \A x \in S : x <= n
  PROVE  Max(S) \in S /\ \A x \in S : x <= Max(S)
<1> DEFINE U == {m \in Nat : \A x \in S : x <= m}
<1>1. PICK m \in U : \A k \in U : m <= k
  BY LeastNat
<1>2. m \in S
  <2>1. CASE m = 0
    <3>1. PICK x \in S : TRUE
      OBVIOUS
    <3>. QED  BY <2>1, <3>1
  <2>2. CASE m # 0
    <3>1. m - 1 \in Nat /\ m - 1 \notin U
      BY <1>1, <2>2
    <3>2. PICK x \in S : ~ (x <= m - 1)
      BY <3>1
    <3>. QED  BY <3>1, <3>2
  <2>. QED  BY <2>1, <2>2
<1>3. m \in S /\ \A x \in S : m >= x
  BY <1>2
<1>. QED  BY <1>3 DEF Max

LEMMA MaxOfTwo ==
  ASSUME NEW a \in Nat, NEW b \in Nat
  PROVE  /\ Max({a, b}) \in Nat /\ Max({a, b}) \in {a, b}
         /\ a <= Max({a, b}) /\ b <= Max({a, b})
<1>1. PICK n \in Nat : a <= n /\ b <= n
  BY a + b \in Nat
<1>. QED  BY <1>1, MaxOfBounded

LEMMA MinOfTwo ==
  ASSUME NEW a \in Nat, NEW b \in Nat
  PROVE  /\ Min({a, b}) \in Nat /\ Min({a, b}) \in {a, b}
         /\ Min({a, b}) <= a /\ Min({a, b}) <= b
BY MinOfNats

(* Areas and sizes *)

LEMMA ExtentOfArea ==
  ASSUME NEW cells \in Drawings, cells # {} PROVE Extent(cells) \in Nat \ {0}
<1>1. cells \in SUBSET Nat
  BY AreasAreDrawable DEF Drawings
<1>2. PICK n \in Canvas : n \in Nat /\ \A h \in Canvas : h <= n
  BY CanvasEnds, AreasAreDrawable
<1>3. Max(cells) \in cells /\ \A x \in cells : x <= Max(cells)
  BY <1>1, <1>2, MaxOfBounded DEF Drawings
<1>4. Min(cells) \in cells
  BY <1>1, MinOfNats
<1>5. Max(cells) \in Nat /\ Min(cells) \in Nat /\ Min(cells) <= Max(cells)
  BY <1>1, <1>3, <1>4
<1>. QED  BY <1>5 DEF Extent

\* A tile of the least size always fits.
LEMMA MaxTileSizeFits ==
  ASSUME NEW cells \in Drawings, NEW f \in Footprints
  PROVE  MaxTileSize(cells, f) \in Nat /\ MinTile <= MaxTileSize(cells, f)
<1>1. f \in Nat /\ MinTile \in Nat /\ MinTile <= f
  BY SizesAreNumbers, TilesFit
<1>2. CASE cells = {}
  BY <1>1, <1>2 DEF MaxTileSize
<1>3. CASE cells # {}
  <2>1. f \div Extent(cells) \in Nat
    BY <1>1, <1>3, ExtentOfArea
  <2>. QED  BY <1>1, <1>3, <2>1, MaxOfTwo DEF MaxTileSize
<1>. QED  BY <1>2, <1>3

\* What the slider sends is a size that the hub will accept.
LEMMA BoundedFits ==
  ASSUME NEW meters \in Nat, shown.area \in Drawings, shown.footprint \in Footprints
  PROVE  Bounded(meters) \in Nat /\ Bounded(meters) <= ShownMaxTile
<1>1. ShownMaxTile \in Nat /\ MinTile <= ShownMaxTile
  BY MaxTileSizeFits DEF ShownMaxTile
<1>2. /\ Min({ShownMaxTile, meters}) \in Nat
      /\ Min({ShownMaxTile, meters}) <= ShownMaxTile
  BY <1>1, MinOfTwo
<1>3. MinTile \in Nat
  BY SizesAreNumbers
<1>. QED  BY <1>1, <1>2, <1>3, MaxOfTwo DEF Bounded

LEMMA SizeForFits ==
  ASSUME NEW s \in Rooms
  PROVE  /\ SizeFor(s) \in Nat
         /\ SizeFor(s) # s.tile =>
              s.phase = "Lobby" /\ SizeFor(s) <= MaxTileSize(s.area, s.footprint)
<1>1. s.tile \in Nat /\ s.area \in Drawings /\ s.footprint \in Footprints
  BY DEF Rooms
<1>2. MaxTileSize(s.area, s.footprint) \in Nat
  BY <1>1, MaxTileSizeFits
<1>. QED  BY <1>1, <1>2, MinOfTwo DEF SizeFor

\* The page on screen is never past the step of the room.
LEMMA EffectiveStepFits ==
  ASSUME shown.step \in 0..5
  PROVE  EffectiveStep \in 0..5 /\ EffectiveStep <= shown.step
<1>1. ReviewStep \in 4..5
  BY DEF ReviewStep, TotalSteps
<1>. QED  BY <1>1, MinOfTwo DEF EffectiveStep

----------------------------------------------------------------------------
(* What a click does, whichever page it is on: it may guess a size or a    *)
(* list of alliances, and it sends a few calls.                            *)

IsAreaCall(c) == c.op \in {"Area", "Template"}

IsDrawable(c) ==
  c.mode = "Drawn" => Connected(c.cells) /\ Cardinality(c.cells) >= MinDrawn

GuessesSize(cs) ==
  \/ shown' = shown
  \/ /\ connected /\ shown.phase = "Lobby"
     /\ \E size \in Nat :
          /\ size <= ShownMaxTile
          /\ shown' = [shown EXCEPT !.tile = size]
          /\ cs = <<SizeCall(size, shown.tile)>>

GuessesAlliances(cs) ==
  \/ builder' = builder
  \/ /\ shown.phase = "Lobby" /\ builder' \in Seq(Names)
     /\ cs = <<[op |-> "Alliances", names |-> builder']>>

OrdersArea(cs) ==
  \/ ordered' = ordered /\ \A i \in DOMAIN cs : ~ IsAreaCall(cs[i])
  \/ ordered' = ordered /\ ~ connected
  \/ /\ connected /\ ordered' = Nothing /\ cs = <<[op |-> "Template"]>>
  \/ \E c \in Calls :
       /\ connected /\ ordered' = c.cells /\ cs = <<c>>
       /\ c.op = "Area" /\ IsDrawable(c)

StepsAllowed(cs) ==
  \A i \in DOMAIN cs : cs[i].op = "Step" =>
    \/ cs[i].step < 2 \/ cs[i].step <= shown.step
    \/ shown.step >= 2 \/ TeamsComplete(shown)

DraftsTyped ==
  /\ applied \in BOOLEAN /\ retry \in BOOLEAN
  /\ mode \in Modes \cup {"Template", Nothing} /\ draft \in Drawings \cup {Nothing}
  /\ selected \in Canvas \cup {Nothing} /\ hqAlliance \in Names \cup {Nothing}

Clicked(cs) ==
  /\ UNCHANGED <<room, pend, connected, wire, offered, complete, inOrder>>
  /\ calls' = IF connected THEN calls \o cs ELSE calls
  /\ GuessesSize(cs) /\ GuessesAlliances(cs) /\ OrdersArea(cs) /\ StepsAllowed(cs)
  /\ \A i \in DOMAIN cs : cs[i].op = "Area" => IsDrawable(cs[i])
  /\ DraftsTyped'

Guesses == <<shown, builder, ordered>>

\* The calls, each in the set of its kind.
LEMMA SomeCalls ==
  /\ \A k \in 0..5 : StepCall(k) \in Calls
  /\ \A v \in BOOLEAN : [op |-> "Location", valid |-> v] \in Calls
  /\ \A names \in Seq(Names) : [op |-> "Alliances", names |-> names] \in Calls
  /\ \A n \in Names : [op |-> "Pick", name |-> n] \in Calls
  /\ \A size, previous \in Nat : SizeCall(size, previous) \in Calls
  /\ \A f \in Footprints : [op |-> "Footprint", meters |-> f] \in Calls
  /\ \A r, b \in BOOLEAN : [op |-> "Dynamics", roles |-> r, beacon |-> b] \in Calls
  /\ \A b \in BOOLEAN : [op |-> "Beacon", beacon |-> b] \in Calls
  /\ \A m \in Modes, cells \in Drawings : [op |-> "Area", mode |-> m, cells |-> cells] \in Calls
  /\ \A op \in {"Distribute", "Other", "Roles", "Template", "Start"} : [op |-> op] \in Calls
<1>1. \A k \in 0..5 : StepCall(k) \in Calls
  BY DEF StepCall, Calls
<1>2. \A v \in BOOLEAN : [op |-> "Location", valid |-> v] \in Calls
  BY DEF Calls
<1>3. \A names \in Seq(Names) : [op |-> "Alliances", names |-> names] \in Calls
  BY DEF Calls
<1>4. \A n \in Names : [op |-> "Pick", name |-> n] \in Calls
  BY DEF Calls
<1>5. \A size, previous \in Nat : SizeCall(size, previous) \in Calls
  BY DEF SizeCall, Calls
<1>6. \A f \in Footprints : [op |-> "Footprint", meters |-> f] \in Calls
  BY DEF Calls
<1>7. \A r, b \in BOOLEAN : [op |-> "Dynamics", roles |-> r, beacon |-> b] \in Calls
  BY DEF Calls
<1>8. \A b \in BOOLEAN : [op |-> "Beacon", beacon |-> b] \in Calls
  BY DEF Calls
<1>9. \A m \in Modes, cells \in Drawings : [op |-> "Area", mode |-> m, cells |-> cells] \in Calls
  BY DEF Calls
<1>10. \A op \in {"Distribute", "Other", "Roles", "Template", "Start"} : [op |-> op] \in Calls
  BY DEF Calls
<1>. QED  BY <1>1, <1>2, <1>3, <1>4, <1>5, <1>6, <1>7, <1>8, <1>9, <1>10

\* A click that makes one call, of a kind that orders no area and no step.
LEMMA PlainClick ==
  ASSUME WizardTypeOK, NEW c \in Calls, ~ IsAreaCall(c), c.op # "Step",
         UNCHANGED <<room, pend, connected, wire, offered, complete, inOrder>>,
         UNCHANGED Guesses, Invoke(c), DraftsTyped'
  PROVE  \E cs \in Seq(Calls) : Clicked(cs)
<1>1. <<c>> \in Seq(Calls) /\ \A i \in DOMAIN <<c>> : <<c>>[i] = c
  OBVIOUS
<1>2. Clicked(<<c>>)
  BY <1>1 DEF Clicked, Guesses, Invoke, InvokeAll, GuessesSize, GuessesAlliances,
     OrdersArea, StepsAllowed, IsAreaCall
<1>. QED  BY <1>1, <1>2

\* A click that only moves a draft.
LEMMA SilentClick ==
  ASSUME WizardTypeOK, UNCHANGED <<room, pend, connected, calls, wire, offered, complete, inOrder>>,
         UNCHANGED Guesses, DraftsTyped'
  PROVE  \E cs \in Seq(Calls) : Clicked(cs)
<1>1. <<>> \in Seq(Calls) /\ DOMAIN <<>> = {}
  OBVIOUS
<1>2. calls \o <<>> = calls
  BY DEF WizardTypeOK
<1>3. Clicked(<<>>)
  BY <1>1, <1>2 DEF Clicked, Guesses, GuessesSize, GuessesAlliances, OrdersArea, StepsAllowed
<1>. QED  BY <1>1, <1>3

LEMMA DraftsUnchanged ==
  ASSUME WizardTypeOK, UNCHANGED <<applied, retry, mode, draft, selected, hqAlliance>> PROVE DraftsTyped'
BY DEF WizardTypeOK, DraftsTyped

\* The pages, one by one.
LEMMA LocationClick ==
  ASSUME WizardTypeOK, NEW valid \in BOOLEAN, HandleSetMapLocation(valid), retry' \in BOOLEAN,
         UNCHANGED <<room, pend, shown, builder, review, connected, wire, history>>
  PROVE  \E cs \in Seq(Calls) : Clicked(cs)
<1> DEFINE c == [op |-> "Location", valid |-> valid]
<1>1. c \in Calls /\ StepCall(1) \in Calls
  BY SomeCalls
<1>2. c.op = "Location" /\ StepCall(1).op = "Step" /\ StepCall(1).step = 1
  BY DEF StepCall
<1>3. calls' = IF connected THEN calls \o <<c, StepCall(1)>> ELSE calls
  BY DEF HandleSetMapLocation, InvokeAll
<1>4. DraftsTyped'
  BY DEF HandleSetMapLocation, WizardTypeOK, DraftsTyped, review
<1> HIDE DEF c
<1>5. /\ <<c, StepCall(1)>> \in Seq(Calls)
      /\ \A i \in DOMAIN <<c, StepCall(1)>> : <<c, StepCall(1)>>[i] \in {c, StepCall(1)}
  BY <1>1
<1>6. Clicked(<<c, StepCall(1)>>)
  BY <1>2, <1>3, <1>4, <1>5 DEF Clicked, GuessesSize, GuessesAlliances, OrdersArea,
     StepsAllowed, IsAreaCall, history
<1>. QED  BY <1>5, <1>6

LEMMA LocationPageClick ==
  ASSUME WizardTypeOK, LocationPage \/ \E found \in BOOLEAN : GpsAnswers(found)
  PROVE  \E cs \in Seq(Calls) : Clicked(cs)
<1>1. ASSUME NEW valid \in BOOLEAN, ApplyLocation(valid)
      PROVE  \E cs \in Seq(Calls) : Clicked(cs)
  BY <1>1, LocationClick DEF ApplyLocation, WizardTypeOK
<1>2. CASE RetryGps
  BY <1>2, SilentClick DEF RetryGps, link, history, Guesses, review, WizardTypeOK, DraftsTyped
<1>3. ASSUME NEW found \in BOOLEAN, GpsAnswers(found)
      PROVE  \E cs \in Seq(Calls) : Clicked(cs)
  <2>1. CASE found
    BY <1>3, <2>1, LocationClick DEF GpsAnswers
  <2>2. CASE ~ found
    BY <1>3, <2>2, SilentClick DEF GpsAnswers, history, Guesses, review, WizardTypeOK, DraftsTyped
  <2>. QED  BY <2>1, <2>2
<1>. QED  BY <1>1, <1>2, <1>3 DEF LocationPage

LEMMA AllianceClick ==
  ASSUME WizardTypeOK, NEW names \in Seq(Names), SendAlliances(names)
  PROVE  \E cs \in Seq(Calls) : Clicked(cs)
<1> DEFINE c == [op |-> "Alliances", names |-> names]
<1>1. c \in Calls /\ c.op = "Alliances"
  BY SomeCalls
<1>2. shown.phase = "Lobby" /\ builder' = names
  BY DEF SendAlliances, At
<1>3. DraftsTyped'
  BY DraftsUnchanged DEF SendAlliances, review
<1>4. calls' = IF connected THEN calls \o <<c>> ELSE calls
  BY DEF SendAlliances, Invoke, InvokeAll
<1>5. GuessesAlliances(<<c>>)
  BY <1>2 DEF GuessesAlliances
<1> HIDE DEF c
<1>6. <<c>> \in Seq(Calls) /\ \A i \in DOMAIN <<c>> : <<c>>[i] = c
  BY <1>1
<1>7. Clicked(<<c>>)
  BY <1>1, <1>3, <1>4, <1>5, <1>6 DEF Clicked, GuessesSize, OrdersArea, StepsAllowed,
     IsAreaCall, SendAlliances, history
<1>. QED  BY <1>6, <1>7

\* A control that only makes a call.
LEMMA PressClick ==
  ASSUME WizardTypeOK, NEW c \in Calls, ~ IsAreaCall(c), c.op # "Step", Press(c)
  PROVE  \E cs \in Seq(Calls) : Clicked(cs)
BY PlainClick, DraftsUnchanged DEF Press, drafts, review, history, Guesses

LEMMA TeamsPageClick ==
  ASSUME WizardTypeOK, TeamsPage PROVE \E cs \in Seq(Calls) : Clicked(cs)
<1>1. builder \in Seq(Names)
  BY DEF WizardTypeOK
<1>2. ASSUME NEW n \in Names, AddAlliance(n) PROVE \E cs \in Seq(Calls) : Clicked(cs)
  <2>1. Append(builder, n) \in Seq(Names)
    BY <1>1
  <2>. QED  BY <1>2, <2>1, AllianceClick DEF AddAlliance
<1>3. ASSUME NEW i \in 1..MaxAlliances, RemoveAlliance(i)
      PROVE  \E cs \in Seq(Calls) : Clicked(cs)
  <2>1. i \in 1..Len(builder)
    BY <1>1, <1>3 DEF RemoveAlliance
  <2>2. SubSeq(builder, 1, i - 1) \in Seq(Names) /\ SubSeq(builder, i + 1, Len(builder)) \in Seq(Names)
    BY <1>1, <2>1
  <2>3. RemoveAt(builder, i) \in Seq(Names)
    BY <2>2 DEF RemoveAt
  <2>. QED  BY <1>3, <2>3, AllianceClick DEF RemoveAlliance
<1>4. CASE DistributePlayers
  <2>1. [op |-> "Distribute"] \in Calls
    BY SomeCalls
  <2>. QED  BY <1>4, <2>1, PressClick DEF DistributePlayers, IsAreaCall
<1>5. ASSUME NEW n \in Names, HostPicks(n) PROVE \E cs \in Seq(Calls) : Clicked(cs)
  <2>1. [op |-> "Pick", name |-> n] \in Calls
    BY SomeCalls
  <2>. QED  BY <1>5, <2>1, PressClick DEF HostPicks, IsAreaCall
<1>. QED  BY <1>2, <1>3, <1>4, <1>5 DEF TeamsPage, AllianceBuilder

LEMMA OtherClick ==
  ASSUME WizardTypeOK, SetOther PROVE \E cs \in Seq(Calls) : Clicked(cs)
<1>1. [op |-> "Other"] \in Calls
  BY SomeCalls
<1>. QED  BY <1>1, PressClick DEF SetOther, IsAreaCall

LEMMA SlideClick ==
  ASSUME WizardTypeOK, NEW meters \in Tiles, Slide(meters)
  PROVE  \E cs \in Seq(Calls) : Clicked(cs)
<1> DEFINE size == Bounded(meters)
           c == SizeCall(size, shown.tile)
<1>1. /\ meters \in Nat
      /\ shown.tile \in Nat /\ shown.area \in Drawings /\ shown.footprint \in Footprints
  BY SizesAreNumbers DEF WizardTypeOK, Rooms
<1>2. size \in Nat /\ size <= ShownMaxTile
  BY <1>1, BoundedFits
<1>3. c \in Calls /\ c.op = "TileSize"
  BY <1>1, <1>2, SomeCalls DEF SizeCall
<1>4. DraftsTyped'
  BY DraftsUnchanged DEF Slide, drafts, review
<1>5. shown.phase = "Lobby"
  BY DEF Slide, At
<1>6. /\ calls' = IF connected THEN calls \o <<c>> ELSE calls
      /\ shown' = shown \/ (connected /\ shown' = [shown EXCEPT !.tile = size])
  BY DEF Slide, SetTileSize, Invoke, InvokeAll
<1>7. GuessesSize(<<c>>)
  BY <1>2, <1>5, <1>6 DEF GuessesSize
<1> HIDE DEF c, size
<1>8. <<c>> \in Seq(Calls) /\ \A i \in DOMAIN <<c>> : <<c>>[i] = c
  BY <1>3
<1>9. Clicked(<<c>>)
  BY <1>3, <1>4, <1>6, <1>7, <1>8 DEF Clicked, GuessesAlliances, OrdersArea, StepsAllowed,
     IsAreaCall, Slide, drafts, history
<1>. QED  BY <1>8, <1>9

LEMMA RulesPageClick ==
  ASSUME WizardTypeOK, RulesPage PROVE \E cs \in Seq(Calls) : Clicked(cs)
<1>1. ASSUME NEW f \in Footprints, ApplyMaxFootprint(f)
      PROVE  \E cs \in Seq(Calls) : Clicked(cs)
  <2>1. [op |-> "Footprint", meters |-> f] \in Calls
    BY SomeCalls
  <2>. QED  BY <1>1, <2>1, PressClick DEF ApplyMaxFootprint, IsAreaCall
<1>. QED  BY <1>1, SlideClick, OtherClick DEF RulesPage, SetRules

LEMMA DynamicsAndRolesClick ==
  ASSUME WizardTypeOK, DynamicsPage \/ RolesPage PROVE \E cs \in Seq(Calls) : Clicked(cs)
<1>1. shown.roles \in BOOLEAN /\ shown.beacon \in BOOLEAN
  BY DEF WizardTypeOK, Rooms
<1>2. CASE TogglePlayerRoles
  <2>1. [op |-> "Dynamics", roles |-> ~ shown.roles, beacon |-> shown.beacon] \in Calls
    BY <1>1, SomeCalls
  <2>. QED  BY <1>2, <2>1, PressClick DEF TogglePlayerRoles, IsAreaCall
<1>3. CASE ToggleBeacon
  <2>1. [op |-> "Beacon", beacon |-> ~ shown.beacon] \in Calls
    BY <1>1, SomeCalls
  <2>. QED  BY <1>3, <2>1, PressClick DEF ToggleBeacon, IsAreaCall
<1>4. CASE AssignRoles
  <2>1. [op |-> "Roles"] \in Calls
    BY SomeCalls
  <2>. QED  BY <1>4, <2>1, PressClick DEF AssignRoles, IsAreaCall
<1>. QED  BY <1>2, <1>3, <1>4, OtherClick DEF DynamicsPage, RolesPage, SetDynamics

LEMMA DrawnCellsAreArea == WizardTypeOK => DrawnCells \in Drawings
BY DEF WizardTypeOK, DrawnCells, Rooms

LEMMA ApplyAreaClick ==
  ASSUME WizardTypeOK, ApplyArea PROVE \E cs \in Seq(Calls) : Clicked(cs)
<1> DEFINE cells == IF AreaMode = "Drawn" THEN DrawnCells ELSE AreaOf(AreaMode, shown)
           c == [op |-> "Area", mode |-> AreaMode, cells |-> cells]
<1>1. AreaMode \in Modes
  BY DEF ApplyArea, CanApply, Modes
<1>2. cells \in Drawings
  <2>1. shown.area \in Drawings
    BY DEF WizardTypeOK, Rooms
  <2>. QED  BY <2>1, DrawnCellsAreArea, AreasAreDrawable DEF AreaOf, Drawings
<1>3. c \in Calls /\ c.op = "Area" /\ c.cells = cells
  BY <1>1, <1>2, SomeCalls
<1>4. IsDrawable(c)
  BY DEF IsDrawable, ApplyArea, CanApply, CanApplyDrawn
<1>5. DraftsTyped'
  BY DEF ApplyArea, WizardTypeOK, DraftsTyped
<1>6. /\ calls' = IF connected THEN calls \o <<c>> ELSE calls
      /\ ordered' = IF connected THEN cells ELSE ordered
  BY DEF ApplyArea, Invoke, InvokeAll
<1> HIDE DEF c, cells
<1>7. <<c>> \in Seq(Calls) /\ \A i \in DOMAIN <<c>> : <<c>>[i] = c
  BY <1>3
<1>8. OrdersArea(<<c>>)
  BY <1>3, <1>4, <1>6 DEF OrdersArea
<1>9. Clicked(<<c>>)
  BY <1>3, <1>4, <1>5, <1>6, <1>7, <1>8 DEF Clicked, GuessesSize, GuessesAlliances,
     StepsAllowed, ApplyArea
<1>. QED  BY <1>7, <1>9

LEMMA LoadTemplateClick ==
  ASSUME WizardTypeOK, LoadTemplate PROVE \E cs \in Seq(Calls) : Clicked(cs)
<1> DEFINE c == [op |-> "Template"]
<1>1. c \in Calls /\ c.op = "Template"
  BY SomeCalls
<1>2. DraftsTyped'
  BY DraftsUnchanged DEF LoadTemplate, drafts, review
<1>3. /\ calls' = IF connected THEN calls \o <<c>> ELSE calls
      /\ ordered' = IF connected THEN Nothing ELSE ordered
  BY DEF LoadTemplate, Invoke, InvokeAll
<1>4. OrdersArea(<<c>>)
  BY <1>3 DEF OrdersArea
<1> HIDE DEF c
<1>5. <<c>> \in Seq(Calls) /\ \A i \in DOMAIN <<c>> : <<c>>[i] = c
  BY <1>1
<1>6. Clicked(<<c>>)
  BY <1>1, <1>2, <1>3, <1>4, <1>5 DEF Clicked, GuessesSize, GuessesAlliances,
     StepsAllowed, LoadTemplate, drafts
<1>. QED  BY <1>5, <1>6

LEMMA ClickHexClick ==
  ASSUME WizardTypeOK, NEW h \in Canvas, ClickHex(h)
  PROVE  \E cs \in Seq(Calls) : Clicked(cs)
<1> USE DEF ClickHex, history, Guesses
<1>1. CASE DrawHex(h)
  <2>1. SymDiff(DrawnCells, {h}) \in Drawings
    BY DrawnCellsAreArea DEF SymDiff, Drawings
  <2>2. DraftsTyped'
    BY <1>1, <2>1 DEF DrawHex, WizardTypeOK, DraftsTyped
  <2>. QED  BY <1>1, <2>2, SilentClick DEF DrawHex
<1>2. CASE SelectHex(h)
  <2>1. DraftsTyped'
    BY <1>2 DEF SelectHex, WizardTypeOK, DraftsTyped
  <2>. QED  BY <1>2, <2>1, SilentClick DEF SelectHex
<1>3. CASE PlaceHQ(h)
  <2>1. DraftsTyped'
    BY <1>3 DEF PlaceHQ, WizardTypeOK, DraftsTyped
  <2>2. [op |-> "Other"] \in Calls
    BY SomeCalls
  <2>. QED  BY <1>3, <2>1, <2>2, PlainClick DEF PlaceHQ, IsAreaCall
<1>. QED  BY <1>1, <1>2, <1>3

LEMMA ReviewPageClick ==
  ASSUME WizardTypeOK, ReviewPage PROVE \E cs \in Seq(Calls) : Clicked(cs)
<1>1. ASSUME NEW m \in Modes \cup {"Template"}, SelectAreaMode(m)
      PROVE  \E cs \in Seq(Calls) : Clicked(cs)
  BY <1>1, SilentClick DEF SelectAreaMode, link, history, Guesses, WizardTypeOK, DraftsTyped
<1>2. CASE ClearDrawn \/ ResetDraft
  BY <1>2, SilentClick DEF ClearDrawn, ResetDraft, link, history, Guesses, WizardTypeOK,
     DraftsTyped, Drawings
<1>3. CASE PlaceOnSelected
  <2>1. [op |-> "Other"] \in Calls
    BY SomeCalls
  <2>2. DraftsTyped'
    BY <1>3 DEF PlaceOnSelected, WizardTypeOK, DraftsTyped
  <2>. QED  BY <1>3, <2>1, <2>2, PlainClick DEF PlaceOnSelected, history, Guesses, IsAreaCall
<1>4. ASSUME NEW n \in Names, ToggleHQMode(n)
      PROVE  \E cs \in Seq(Calls) : Clicked(cs)
  BY <1>4, SilentClick DEF ToggleHQMode, link, history, Guesses, WizardTypeOK, DraftsTyped
<1>5. CASE Start
  <2>1. [op |-> "Start"] \in Calls
    BY SomeCalls
  <2>. QED  BY <1>5, <2>1, PressClick DEF Start, IsAreaCall
<1>. QED  BY <1>1, <1>2, <1>3, <1>4, <1>5, ClickHexClick, ApplyAreaClick, LoadTemplateClick
     DEF ReviewPage, AreaPanel, DrawingPanel, CustomizePanel

\* The dots and buttons: a step ahead only through the gate of this one.
LEMMA FrameClick ==
  ASSUME WizardTypeOK, Frame PROVE \E cs \in Seq(Calls) : Clicked(cs)
<1>1. ASSUME NEW k \in 0..5, Navigate(k)
      PROVE  \E cs \in Seq(Calls) : Clicked(cs)
  <2>1. EffectiveStep \in 0..5 /\ EffectiveStep <= shown.step /\ shown.step \in 0..5
    BY EffectiveStepFits DEF WizardTypeOK, Rooms
  <2>2. StepCall(k) \in Calls /\ StepCall(k).op = "Step" /\ StepCall(k).step = k
    BY SomeCalls DEF StepCall
  <2>3. k <= EffectiveStep + 1 /\ (k = EffectiveStep + 1 => CanGoNext)
    BY <1>1 DEF Navigate, GoToStep
  <2>4. k < 2 \/ k <= shown.step \/ shown.step >= 2 \/ TeamsComplete(shown)
    <3>1. CASE k <= EffectiveStep \/ EffectiveStep >= 2
      BY <2>1, <3>1
    <3>2. CASE k = EffectiveStep + 1 /\ EffectiveStep = 1
      BY <2>3, <3>2 DEF CanGoNext
    <3>3. CASE k = EffectiveStep + 1 /\ EffectiveStep = 0
      BY <3>3
    <3>. QED  BY <2>1, <2>3, <3>1, <3>2, <3>3
  <2>5. DraftsTyped'
    BY <1>1, DraftsUnchanged DEF Navigate, drafts, review
  <2>6. /\ <<StepCall(k)>> \in Seq(Calls)
        /\ \A i \in DOMAIN <<StepCall(k)>> : <<StepCall(k)>>[i] = StepCall(k)
    BY <2>2
  <2>7. calls' = IF connected THEN calls \o <<StepCall(k)>> ELSE calls
    BY <1>1 DEF Navigate, GoToStep, Invoke, InvokeAll
  <2>8. Clicked(<<StepCall(k)>>)
    BY <1>1, <2>2, <2>4, <2>5, <2>6, <2>7 DEF Clicked, GuessesSize, GuessesAlliances,
       OrdersArea, StepsAllowed, IsAreaCall, Navigate, drafts, history
  <2>. QED  BY <2>6, <2>8
<1>2. CASE ToggleObserver
  BY <1>2, OtherClick DEF ToggleObserver
<1>. QED  BY <1>1, <1>2 DEF Frame

LEMMA ClickEffect ==
  ASSUME WizardTypeOK, Clicks \/ \E found \in BOOLEAN : GpsAnswers(found)
  PROVE  \E cs \in Seq(Calls) : Clicked(cs)
BY LocationPageClick, TeamsPageClick, RulesPageClick, DynamicsAndRolesClick,
   ReviewPageClick, FrameClick DEF Clicks

----------------------------------------------------------------------------
(* Types *)

LEMMA CallFields ==
  ASSUME NEW c \in Calls
  PROVE  /\ c.op = "Step" => c.step \in 0..5
         /\ c.op = "Location" => c.valid \in BOOLEAN
         /\ c.op = "Alliances" => c.names \in Seq(Names)
         /\ c.op = "Pick" => c.name \in Names
         /\ c.op = "TileSize" => c.meters \in Nat /\ c.previous \in Nat
         /\ c.op = "Footprint" => c.meters \in Footprints
         /\ c.op = "Dynamics" => c.roles \in BOOLEAN /\ c.beacon \in BOOLEAN
         /\ c.op = "Beacon" => c.beacon \in BOOLEAN
         /\ c.op = "Area" => c.mode \in Modes /\ c.cells \in Drawings
         /\ "previous" \in DOMAIN c => c.previous \in Nat
BY DEF Calls

LEMMA WithAreaType ==
  ASSUME NEW r \in Rooms, NEW m \in Modes, NEW cells \in Drawings, NEW size \in Nat
  PROVE  WithArea(r, m, cells, size) \in Rooms
<1>1. MaxTileSize(cells, r.footprint) \in Nat /\ MinTile \in Nat
  BY MaxTileSizeFits, SizesAreNumbers DEF Rooms
<1>2. Max({MinTile, Min({size, MaxTileSize(cells, r.footprint)})}) \in Nat
  BY <1>1, MinOfTwo, MaxOfTwo
<1>. QED  BY <1>2 DEF WithArea, Rooms

LEMMA WithPickType ==
  ASSUME NEW r \in Rooms, NEW p \in {Host, Guest}, NEW n \in Names
  PROVE  WithPick(r, p, n) \in Rooms
<1>1. [r.member EXCEPT ![p] = n] \in [{Host, Guest} -> Names \cup {Nothing}]
  BY DEF Rooms
<1>2. Append(r.names, n) \in Seq(Names)
  BY DEF Rooms
<1>. QED  BY <1>1, <1>2 DEF WithPick, Rooms

LEMMA ResultsType ==
  ASSUME WizardTypeOK, NEW c \in Calls, NEW r \in Results(c)
  PROVE  r \in Rooms
<1> USE DEF Results
<1>0. room \in Rooms
  BY DEF WizardTypeOK
<1>1. CASE c.op = "Step"
  BY <1>0, <1>1, CallFields DEF Rooms
<1>2. CASE c.op = "Location"
  <2>0. room.step \in 0..5 /\ room.step \in Nat
    BY <1>0 DEF Rooms
  <2>1. Max({room.step, 1}) \in {room.step, 1}
    BY <2>0, MaxOfTwo
  <2>2. r = [room EXCEPT !.located = TRUE, !.step = Max({room.step, 1})]
    BY <1>0, <1>2 DEF Rooms
  <2>3. Max({room.step, 1}) \in 0..5
    BY <2>0, <2>1
  <2>. QED  BY <1>0, <2>2, <2>3 DEF Rooms
<1>3. CASE c.op = "Alliances"
  <2>1. Nobody \in [{Host, Guest} -> Names \cup {Nothing}]
    BY DEF Nobody
  <2>. QED  BY <1>0, <1>3, <2>1, CallFields DEF WithAlliances, Rooms
<1>4. CASE c.op = "Distribute"
  <2>1. ToSet(room.names) \subseteq Names
    BY <1>0 DEF ToSet, Rooms
  <2>2. PICK m \in [{Host, Guest} -> ToSet(room.names)] : r = [room EXCEPT !.member = m]
    BY <1>4
  <2>3. m \in [{Host, Guest} -> Names \cup {Nothing}]
    BY <2>1
  <2>. QED  BY <1>0, <2>2, <2>3 DEF Rooms
<1>5. CASE c.op = "Pick"
  BY <1>0, <1>5, CallFields, WithPickType
<1>6. CASE c.op = "TileSize"
  <2>1. Max({MinTile, c.meters}) \in Nat
    BY <1>6, CallFields, SizesAreNumbers, MaxOfTwo
  <2>. QED  BY <1>0, <1>6, <2>1 DEF Rooms
<1>7. CASE c.op = "Footprint"
  BY <1>0, <1>7, CallFields DEF Rooms
<1>8. CASE c.op \in {"Dynamics", "Beacon"}
  <2>1. CASE c.op = "Dynamics"
    <3>1. r = [room EXCEPT !.roles = c.roles, !.beacon = c.beacon]
      BY <2>1
    <3>. QED  BY <1>0, <2>1, <3>1, CallFields DEF Rooms
  <2>2. CASE c.op = "Beacon"
    <3>1. r = [room EXCEPT !.beacon = c.beacon]
      BY <2>2
    <3>. QED  BY <1>0, <2>2, <3>1, CallFields DEF Rooms
  <2>. QED  BY <1>8, <2>1, <2>2
<1>9. CASE c.op = "Area"
  <2>1. room.tile \in Nat
    BY <1>0 DEF Rooms
  <2>. QED  BY <1>0, <1>9, <2>1, CallFields, WithAreaType
<1>10. CASE c.op = "Template"
  <2>1. PICK t \in Tiles : r = WithArea(room, "Drawn", TemplateCells, t)
    BY <1>10
  <2>2. t \in Nat /\ TemplateCells \in Drawings /\ "Drawn" \in Modes
    BY SizesAreNumbers, AreasAreDrawable DEF Drawings, Modes
  <2>. QED  BY <1>0, <2>1, <2>2, WithAreaType
<1>11. CASE c.op = "Start"
  BY <1>0, <1>11 DEF Rooms
<1>12. CASE c.op \in {"Other", "Roles"}
  BY <1>0, <1>12
<1>13. c.op \in {"Step", "Location", "Alliances", "Distribute", "Pick", "TileSize", "Footprint",
                 "Dynamics", "Beacon", "Area", "Template", "Start", "Other", "Roles"}
  BY DEF Calls
<1>. QED  BY <1>1, <1>2, <1>3, <1>4, <1>5, <1>6, <1>7, <1>8, <1>9, <1>10, <1>11, <1>12, <1>13

LEMMA AnswerType ==
  ASSUME WizardTypeOK, NEW p \in {Host, Guest}, NEW previous \in Nat \cup {Nothing},
         room' \in Rooms, Answer(p, previous)
  PROVE  /\ pend' \in [{Host, Guest} -> Messages \cup {Nothing}]
         /\ \A q \in {Host, Guest} : pend'[q] # Nothing => pend'[q].room # Nothing
         /\ pend'[p] # Nothing /\ pend'[p].room = room'
<1> DEFINE a == [room |-> room', previous |-> previous]
<1>1. a \in Messages /\ a.room # Nothing /\ a # Nothing /\ a.room = room'
  BY NothingIsApart DEF Messages
<1>2. pend' = [pend EXCEPT ![p] = a]
  BY DEF Answer
<1> HIDE DEF a
<1>. QED  BY <1>1, <1>2 DEF WizardTypeOK

LEMMA ShowType ==
  ASSUME WizardTypeOK, NEW s \in Rooms, Show(s)
  PROVE  /\ shown' \in Rooms /\ builder' \in Seq(Names) /\ calls' \in Seq(Calls)
         /\ mode' \in Modes \cup {"Template", Nothing} /\ draft' \in Drawings \cup {Nothing}
         /\ selected' \in Canvas \cup {Nothing} /\ hqAlliance' \in Names \cup {Nothing}
         /\ complete' \in BOOLEAN
<1>1. SizeFor(s) \in Nat /\ s.tile \in Nat
  BY SizeForFits DEF Rooms
<1>2. shown' \in Rooms
  BY <1>1 DEF Show, Rooms
<1>3. builder' \in Seq(Names)
  BY DEF Show, BuilderAfter, Rooms
<1>4. calls' \in Seq(Calls)
  <2>1. SizeCall(SizeFor(s), s.tile) \in Calls
    BY <1>1, SomeCalls
  <2>. QED  BY <2>1 DEF Show, WizardTypeOK
<1>5. /\ mode' \in Modes \cup {"Template", Nothing} /\ draft' \in Drawings \cup {Nothing}
      /\ selected' \in Canvas \cup {Nothing} /\ hqAlliance' \in Names \cup {Nothing}
  BY DEF Show, review, WizardTypeOK
<1>6. complete' \in BOOLEAN
  BY DEF Show, WizardTypeOK, TeamsComplete
<1>. QED  BY <1>2, <1>3, <1>4, <1>5, <1>6

LEMMA SizeTakenBackType == WizardTypeOK => SizeTakenBack \in Nat
<1> SUFFICES ASSUME WizardTypeOK PROVE SizeTakenBack \in Nat
  OBVIOUS
<1> DEFINE waiting == wire \o calls
           sizes == {i \in DOMAIN waiting :
                       "previous" \in DOMAIN waiting[i] /\ waiting[i].previous # Nothing}
<1>1. wire \in Seq(Messages) /\ calls \in Seq(Calls) /\ shown.tile \in Nat
  BY DEF WizardTypeOK, Rooms
<1>2. /\ Len(waiting) \in Nat /\ DOMAIN waiting = 1..Len(waiting)
      /\ \A i \in DOMAIN waiting : waiting[i] \in Messages \cup Calls
  BY <1>1
<1>3. \A i \in sizes : waiting[i].previous \in Nat
  BY <1>2, CallFields DEF Messages
<1>4. sizes # {} => Max(sizes) \in sizes
  <2>1. sizes \in SUBSET Nat /\ \A i \in sizes : i <= Len(waiting)
    BY <1>2
  <2> HIDE DEF sizes, waiting
  <2>. QED  BY <1>2, <2>1, MaxOfBounded
<1>5. SizeTakenBack = IF sizes = {} THEN shown.tile ELSE waiting[Max(sizes)].previous
  BY DEF SizeTakenBack
<1> HIDE DEF sizes, waiting
<1>. QED  BY <1>1, <1>3, <1>4, <1>5

\* What the hub does with the first call: it answers, or it refuses.
LEMMA HubEffect ==
  ASSUME WizardTypeOK, HubHandles
  PROVE  /\ calls # <<>> /\ calls[1] \in Calls /\ calls' = Tail(calls)
         /\ UNCHANGED <<shown, drafts, connected, history>>
         /\ \/ /\ room.phase = "Lobby" /\ Allowed(calls[1])
               /\ room' \in Results(calls[1]) /\ room' \in Rooms
               /\ pend' \in [{Host, Guest} -> Messages \cup {Nothing}]
               /\ \A q \in {Host, Guest} : pend'[q] # Nothing => pend'[q].room # Nothing
               /\ pend'[Host] # Nothing
               /\ \A q \in {Host, Guest} : pend'[q] = pend[q] \/ pend'[q].room = room'
               /\ wire' = wire
            \/ /\ room.phase # "Lobby" \/ MayRefuse(calls[1])
               /\ \E msg \in Messages : msg.room = Nothing /\ wire' = Append(wire, msg)
               /\ UNCHANGED <<room, pend>>
<1>1. calls # <<>> /\ calls[1] \in Calls /\ Head(calls) = calls[1] /\ calls' = Tail(calls)
  BY DEF HubHandles, WizardTypeOK
<1>2. Previous(calls[1]) \in Nat \cup {Nothing}
  BY <1>1, CallFields DEF Previous
<1>3. CASE /\ room.phase = "Lobby" /\ Allowed(calls[1])
           /\ room' \in Results(calls[1])
           /\ Answer(Host, Previous(calls[1])) /\ UNCHANGED wire
  <2>1. room' \in Rooms
    BY <1>1, <1>3, ResultsType
  <2>2. /\ pend' \in [{Host, Guest} -> Messages \cup {Nothing}]
        /\ \A q \in {Host, Guest} : pend'[q] # Nothing => pend'[q].room # Nothing
        /\ pend'[Host] # Nothing /\ pend'[Host].room = room'
    BY <1>2, <1>3, <2>1, AnswerType
  <2>3. \A q \in {Host, Guest} : pend'[q] = pend[q] \/ pend'[q].room = room'
    BY <1>3, <2>2 DEF Answer, WizardTypeOK
  <2>. QED  BY <1>1, <1>3, <2>1, <2>2, <2>3 DEF HubHandles
<1>4. CASE /\ room.phase # "Lobby" \/ MayRefuse(calls[1])
           /\ wire' = Append(wire, [room |-> Nothing, previous |-> Previous(calls[1])])
           /\ UNCHANGED <<room, pend>>
  <2>1. [room |-> Nothing, previous |-> Previous(calls[1])] \in Messages
    BY <1>2 DEF Messages
  <2>. QED  BY <1>1, <1>4, <2>1 DEF HubHandles
<1>. QED  BY <1>1, <1>3, <1>4 DEF HubHandles

LEMMA GuestEffect ==
  ASSUME WizardTypeOK, (\E n \in Names : GuestPicks(n)) \/ GuestComesOrGoes
  PROVE  /\ room' \in Rooms /\ room'.step = room.step /\ room'.area = room.area
         /\ room'.phase = room.phase
         /\ pend' \in [{Host, Guest} -> Messages \cup {Nothing}]
         /\ \A q \in {Host, Guest} : pend'[q] # Nothing => pend'[q].room # Nothing
         /\ pend'[Guest] # Nothing
         /\ \A q \in {Host, Guest} : pend'[q] = pend[q] \/ pend'[q].room = room'
         /\ UNCHANGED <<shown, drafts, link, history>>
<1>0. room \in Rooms
  BY DEF WizardTypeOK
<1>1. /\ room' \in Rooms /\ room'.step = room.step /\ room'.area = room.area
      /\ room'.phase = room.phase
  <2>1. ASSUME NEW n \in Names, GuestPicks(n)
        PROVE  /\ room' \in Rooms /\ room'.step = room.step /\ room'.area = room.area
               /\ room'.phase = room.phase
    <3>1. room' = WithPick(room, Guest, n)
      BY <2>1 DEF GuestPicks
    <3>2. room' \in Rooms
      BY <1>0, <3>1, WithPickType
    <3>. QED  BY <1>0, <3>1, <3>2 DEF WithPick, Rooms
  <2>2. CASE GuestComesOrGoes
    BY <1>0, <2>2 DEF GuestComesOrGoes, Rooms
  <2>. QED  BY <2>1, <2>2
<1>2. Answer(Guest, Nothing) /\ UNCHANGED <<shown, drafts, link, history>>
  BY DEF GuestPicks, GuestComesOrGoes
<1>3. /\ pend' \in [{Host, Guest} -> Messages \cup {Nothing}]
      /\ \A q \in {Host, Guest} : pend'[q] # Nothing => pend'[q].room # Nothing
      /\ pend'[Guest] # Nothing /\ pend'[Guest].room = room'
  BY <1>1, <1>2, AnswerType
<1>4. \A q \in {Host, Guest} : pend'[q] = pend[q] \/ pend'[q].room = room'
  BY <1>2, <1>3 DEF Answer, WizardTypeOK
<1>. QED  BY <1>1, <1>2, <1>3, <1>4

LEMMA BroadcastEffect ==
  ASSUME WizardTypeOK, NEW p \in {Host, Guest}, Broadcast(p)
  PROVE  /\ pend[p] \in Messages /\ pend[p].room \in Rooms
         /\ pend' = [pend EXCEPT ![p] = Nothing]
         /\ wire' = IF connected THEN Append(wire, pend[p]) ELSE wire
         /\ inOrder' <=> pend[p].room = room
         /\ UNCHANGED <<room, shown, drafts, connected, calls, complete, ordered>>
<1>1. pend[p] \in Messages /\ pend[p].room \in Rooms
  BY DEF Broadcast, WizardTypeOK, Messages
<1>. QED  BY <1>1 DEF Broadcast

\* A message from the hub: an error says nothing, a state is shown.
LEMMA ReceiveEffect ==
  ASSUME WizardTypeOK, Receive
  PROVE  /\ wire # <<>> /\ wire[1] \in Messages /\ wire' = Tail(wire)
         /\ UNCHANGED <<room, pend, connected, ordered, inOrder>>
         /\ \/ wire[1].room = Nothing /\ UNCHANGED <<shown, calls, builder, complete>>
            \/ wire[1].room \in Rooms /\ Show(wire[1].room)
<1>1. wire # <<>> /\ Head(wire) = wire[1] /\ wire[1] \in Messages
  BY DEF Receive, WizardTypeOK
<1>. QED  BY <1>1 DEF Receive, Messages

LEMMA TypeStep == WizardTypeOK /\ [WizardNext]_wizardVars => WizardTypeOK'
<1> SUFFICES ASSUME WizardTypeOK, [WizardNext]_wizardVars PROVE WizardTypeOK'
  OBVIOUS
<1> USE DEF history, link
<1>0. /\ calls \in Seq(Calls) /\ wire \in Seq(Messages) /\ offered \subseteq Names
      /\ room \in Rooms /\ pend \in [{Host, Guest} -> Messages \cup {Nothing}]
      /\ \A q \in {Host, Guest} : pend[q] # Nothing => pend[q].room # Nothing
  BY DEF WizardTypeOK
<1>1. CASE Clicks \/ \E found \in BOOLEAN : GpsAnswers(found)
  <2>1. PICK cs \in Seq(Calls) : Clicked(cs)
    BY <1>1, ClickEffect
  <2>2. calls' \in Seq(Calls)
    BY <2>1 DEF Clicked, WizardTypeOK
  <2>3. shown' \in Rooms
    BY <2>1 DEF Clicked, GuessesSize, WizardTypeOK, Rooms
  <2>4. builder' \in Seq(Names)
    BY <2>1 DEF Clicked, GuessesAlliances, WizardTypeOK
  <2>. QED  BY <2>1, <2>2, <2>3, <2>4 DEF Clicked, DraftsTyped, WizardTypeOK
<1>2. CASE HubHandles
  <2>1. calls' \in Seq(Calls)
    BY <1>0, <1>2, HubEffect
  <2>2. wire' \in Seq(Messages)
    <3>1. wire' = wire \/ \E msg \in Messages : wire' = Append(wire, msg)
      BY <1>2, HubEffect
    <3>. QED  BY <1>0, <3>1
  <2>3. /\ room' \in Rooms /\ pend' \in [{Host, Guest} -> Messages \cup {Nothing}]
        /\ \A p \in {Host, Guest} : pend'[p] # Nothing => pend'[p].room # Nothing
    BY <1>0, <1>2, HubEffect
  <2>4. UNCHANGED <<shown, drafts, connected, history>>
    BY <1>2, HubEffect
  <2>. QED  BY <2>1, <2>2, <2>3, <2>4 DEF WizardTypeOK, drafts, review
<1>3. ASSUME NEW p \in {Host, Guest}, Broadcast(p) PROVE WizardTypeOK'
  <2>1. wire' \in Seq(Messages)
    <3>1. pend[p] \in Messages /\ wire' = IF connected THEN Append(wire, pend[p]) ELSE wire
      BY <1>3, BroadcastEffect
    <3>. QED  BY <1>0, <3>1
  <2>2. /\ pend' \in [{Host, Guest} -> Messages \cup {Nothing}]
        /\ \A q \in {Host, Guest} : pend'[q] # Nothing => pend'[q].room # Nothing
    BY <1>0, <1>3, BroadcastEffect
  <2>3. offered' \subseteq Names
    <3>1. pend[p].room.names \in Seq(Names)
      BY <1>3, BroadcastEffect DEF Rooms
    <3>2. ToSet(pend[p].room.names) \subseteq Names
      BY <3>1 DEF ToSet
    <3>. QED  BY <1>0, <1>3, <3>2 DEF Broadcast
  <2>4. UNCHANGED <<room, shown, drafts, connected, calls, complete>>
    BY <1>3, BroadcastEffect
  <2>. QED  BY <2>1, <2>2, <2>3, <2>4 DEF WizardTypeOK, drafts, review
<1>4. CASE Receive
  <2>1. wire' \in Seq(Messages)
    <3>1. wire # <<>> /\ wire' = Tail(wire)
      BY <1>4, ReceiveEffect
    <3>. QED  BY <1>0, <3>1
  <2>2. /\ shown' \in Rooms /\ builder' \in Seq(Names) /\ calls' \in Seq(Calls)
        /\ mode' \in Modes \cup {"Template", Nothing} /\ draft' \in Drawings \cup {Nothing}
        /\ selected' \in Canvas \cup {Nothing} /\ hqAlliance' \in Names \cup {Nothing}
        /\ complete' \in BOOLEAN
    <3>1. CASE wire[1].room \in Rooms /\ Show(wire[1].room)
      BY <3>1, ShowType
    <3>2. CASE Head(wire).room = Nothing
      BY <1>4, <3>2 DEF Receive, WizardTypeOK, review
    <3>3. Head(wire) = wire[1]
      BY <1>4, ReceiveEffect DEF WizardTypeOK
    <3>. QED  BY <1>4, <3>1, <3>2, <3>3, ReceiveEffect
  <2>3. UNCHANGED <<room, pend, applied, retry, connected, offered>>
    BY <1>4 DEF Receive
  <2>. QED  BY <2>1, <2>2, <2>3 DEF WizardTypeOK
<1>5. CASE (\E n \in Names : GuestPicks(n)) \/ GuestComesOrGoes
  BY <1>5, GuestEffect DEF WizardTypeOK, drafts, review
<1>6. CASE LoseConnection
  <2>1. shown' \in Rooms
    <3>1. shown \in Rooms /\ SizeTakenBack \in Nat
      BY SizeTakenBackType DEF WizardTypeOK
    <3>2. shown' = [shown EXCEPT !.tile = SizeTakenBack]
      BY <1>6 DEF LoseConnection
    <3>. QED  BY <3>1, <3>2 DEF Rooms
  <2>2. calls' = <<>> /\ wire' = <<>> /\ connected' = FALSE
    BY <1>6 DEF LoseConnection
  <2>3. calls' \in Seq(Calls) /\ wire' \in Seq(Messages) /\ connected' \in BOOLEAN
    <3>1. <<>> \in Seq(Calls) /\ <<>> \in Seq(Messages)
      OBVIOUS
    <3>2. connected' \in BOOLEAN
      BY <2>2
    <3>. QED  BY <2>2, <3>1, <3>2
  <2>4. UNCHANGED <<room, pend, drafts, offered, complete>>
    BY <1>6 DEF LoseConnection
  <2>. QED  BY <2>1, <2>3, <2>4 DEF WizardTypeOK, drafts, review
<1>7. CASE Reconnect
  <2>1. <<[room |-> room, previous |-> Nothing]>> \in Seq(Messages)
    BY DEF WizardTypeOK, Messages
  <2>. QED  BY <1>7, <2>1 DEF Reconnect, WizardTypeOK, drafts, review
<1>8. CASE UNCHANGED wizardVars
  BY <1>8 DEF wizardVars, WizardTypeOK, drafts, review
<1>. QED  BY <1>1, <1>2, <1>3, <1>4, <1>5, <1>6, <1>7, <1>8 DEF WizardNext

\* The wizard, the hub and their messages keep their types.
THEOREM WizardTypeCorrect == WizardSpec => []WizardTypeOK
<1>1. WizardInit => WizardTypeOK
  <2> SUFFICES ASSUME WizardInit PROVE WizardTypeOK
    OBVIOUS
  <2>1. room \in Rooms
    BY StartsAreRooms DEF WizardInit
  <2>2. room.names \in Seq(Names) /\ room.step \in 0..5 /\ room.located \in BOOLEAN
    BY <2>1 DEF Rooms
  <2>3. ToSet(room.names) \subseteq Names
    BY <2>2 DEF ToSet
  <2>4. calls \in Seq(Calls) /\ wire \in Seq(Messages)
    BY DEF WizardInit
  <2>5. complete \in BOOLEAN /\ offered \subseteq Names
    BY <2>2, <2>3 DEF WizardInit, TeamsComplete
  <2>6. /\ pend \in [{Host, Guest} -> Messages \cup {Nothing}]
        /\ \A p \in {Host, Guest} : pend[p] = Nothing
    BY DEF WizardInit, Nobody
  <2>7. shown \in Rooms /\ builder \in Seq(Names) /\ applied \in BOOLEAN
    BY <2>1, <2>2 DEF WizardInit
  <2>. QED  BY <2>1, <2>4, <2>5, <2>6, <2>7 DEF WizardInit, WizardTypeOK
<1>. QED  BY <1>1, TypeStep, PTL DEF WizardSpec

----------------------------------------------------------------------------
(* The gate of the Teams step.                                             *)

\* Whoever knows a step past Teams -- the room, the screen, a call, an answer
\* or a message under way -- knows it from a host who saw complete teams.
GatesInv ==
  /\ room.step >= 2 => complete
  /\ shown.step >= 2 \/ TeamsComplete(shown) => complete
  /\ \A i \in DOMAIN calls : calls[i].op = "Step" /\ calls[i].step >= 2 => complete
  /\ \A i \in DOMAIN wire : wire[i].room # Nothing /\ wire[i].room.step >= 2 => complete
  /\ \A p \in {Host, Guest} : pend[p] # Nothing /\ pend[p].room.step >= 2 => complete

\* The step of the room moves only by a call for that step, and by the first
\* location from the first step.
LEMMA ResultStep ==
  ASSUME NEW c \in Calls, room \in Rooms, NEW r \in Results(c), r.step >= 2
  PROVE  (c.op = "Step" /\ c.step >= 2) \/ room.step >= 2
<1>1. CASE c.op = "Step"
  BY <1>1 DEF Results, Rooms
<1>2. CASE c.op = "Location"
  <2>1. r.step = Max({room.step, 1})
    BY <1>2 DEF Results, Rooms
  <2>2. room.step \in Nat
    BY DEF Rooms
  <2>3. Max({room.step, 1}) \in {room.step, 1}
    BY <2>2, MaxOfTwo
  <2>. QED  BY <2>1, <2>2, <2>3
<1>3. CASE c.op \notin {"Step", "Location"}
  <2>1. r.step = room.step
    BY <1>3 DEF Results, Rooms, WithAlliances, WithPick, WithArea
  <2>. QED  BY <2>1
<1>. QED  BY <1>1, <1>2, <1>3

LEMMA ShownTeams ==
  ASSUME shown \in Rooms, NEW size, shown' = [shown EXCEPT !.tile = size]
  PROVE  shown'.step = shown.step /\ (TeamsComplete(shown)' <=> TeamsComplete(shown))
BY DEF Rooms, TeamsComplete

LEMMA GatesClick ==
  ASSUME WizardTypeOK, GatesInv, NEW cs \in Seq(Calls), Clicked(cs)
  PROVE  GatesInv'
<1>1. calls \in Seq(Calls) /\ shown \in Rooms /\ shown.step \in 0..5
  BY DEF WizardTypeOK, Rooms
<1>2. /\ UNCHANGED <<room, pend, wire, complete>>
      /\ calls' = IF connected THEN calls \o cs ELSE calls
      /\ GuessesSize(cs) /\ StepsAllowed(cs)
  BY DEF Clicked
<1>3. shown.step >= 2 \/ TeamsComplete(shown) => complete
  BY DEF GatesInv
<1>4. shown'.step >= 2 \/ TeamsComplete(shown)' => complete
  <2>1. CASE shown' = shown
    BY <1>3, <2>1 DEF TeamsComplete
  <2>2. CASE \E size : shown' = [shown EXCEPT !.tile = size]
    BY <1>1, <1>3, <2>2, ShownTeams
  <2>. QED  BY <1>2, <2>1, <2>2 DEF GuessesSize
<1>5. \A i \in DOMAIN cs : cs[i].op = "Step" /\ cs[i].step >= 2 => complete
  <2> SUFFICES ASSUME NEW i \in DOMAIN cs, cs[i].op = "Step", cs[i].step >= 2 PROVE complete
    OBVIOUS
  <2>1. cs[i] \in Calls
    OBVIOUS
  <2>2. cs[i].step \in 0..5
    BY <2>1, CallFields
  <2>. QED  BY <1>1, <1>2, <1>3, <2>2 DEF StepsAllowed
<1>6. \A i \in DOMAIN calls' : \/ i \in DOMAIN calls /\ calls'[i] = calls[i]
                               \/ \E j \in DOMAIN cs : calls'[i] = cs[j]
  <2>1. CASE connected
    <3> SUFFICES ASSUME NEW i \in DOMAIN calls', i \notin DOMAIN calls
                 PROVE  \E j \in DOMAIN cs : calls'[i] = cs[j]
      BY <1>1, <1>2, <2>1
    <3>1. i - Len(calls) \in DOMAIN cs /\ calls'[i] = cs[i - Len(calls)]
      BY <1>1, <1>2, <2>1
    <3>. QED  BY <3>1
  <2>2. CASE ~ connected
    BY <1>2, <2>2
  <2>. QED  BY <2>1, <2>2
<1>7. \A i \in DOMAIN calls' : calls'[i].op = "Step" /\ calls'[i].step >= 2 => complete
  BY <1>5, <1>6 DEF GatesInv
<1>. QED  BY <1>2, <1>4, <1>7 DEF GatesInv

LEMMA GatesStep == WizardTypeOK /\ GatesInv /\ [WizardNext]_wizardVars => GatesInv'
<1> SUFFICES ASSUME WizardTypeOK, GatesInv, [WizardNext]_wizardVars PROVE GatesInv'
  OBVIOUS
<1> USE DEF history, link
<1>0. /\ calls \in Seq(Calls) /\ wire \in Seq(Messages) /\ room \in Rooms /\ shown \in Rooms
      /\ room.step \in 0..5 /\ shown.step \in 0..5
  BY DEF WizardTypeOK, Rooms
<1>1. CASE Clicks \/ \E found \in BOOLEAN : GpsAnswers(found)
  BY <1>1, ClickEffect, GatesClick
<1>2. CASE HubHandles
  <2>1. UNCHANGED <<shown, complete>> /\ calls' = Tail(calls) /\ calls # <<>> /\ calls[1] \in Calls
    BY <1>2, HubEffect
  <2>2. \A i \in DOMAIN calls' : calls'[i].op = "Step" /\ calls'[i].step >= 2 => complete
    <3>1. \A i \in DOMAIN calls' : i + 1 \in DOMAIN calls /\ calls'[i] = calls[i + 1]
      BY <1>0, <2>1
    <3>. QED  BY <3>1 DEF GatesInv
  <2>3. CASE room' \in Results(calls[1]) /\ room' \in Rooms /\ wire' = wire
             /\ \A q \in {Host, Guest} : pend'[q] = pend[q] \/ pend'[q].room = room'
    <3>1. room'.step >= 2 => complete
      <4>1. 1 \in DOMAIN calls
        BY <1>0, <2>1
      <4>. QED  BY <1>0, <2>1, <2>3, <4>1, ResultStep DEF GatesInv
    <3>. QED  BY <2>1, <2>2, <2>3, <3>1 DEF GatesInv, TeamsComplete
  <2>4. CASE UNCHANGED <<room, pend>> /\ \E msg \in Messages : msg.room = Nothing /\ wire' = Append(wire, msg)
    <3>1. \A i \in DOMAIN wire' : wire'[i].room # Nothing => i \in DOMAIN wire /\ wire'[i] = wire[i]
      BY <1>0, <2>4
    <3>. QED  BY <2>1, <2>2, <2>4, <3>1 DEF GatesInv, TeamsComplete
  <2>. QED  BY <1>2, <2>3, <2>4, HubEffect
<1>3. ASSUME NEW p \in {Host, Guest}, Broadcast(p) PROVE GatesInv'
  <2>1. /\ pend[p] \in Messages /\ pend[p].room \in Rooms
        /\ pend' = [pend EXCEPT ![p] = Nothing]
        /\ wire' = IF connected THEN Append(wire, pend[p]) ELSE wire
        /\ UNCHANGED <<room, shown, calls, complete>>
    BY <1>3, BroadcastEffect
  <2>2. pend[p] # Nothing
    BY <1>3 DEF Broadcast
  <2>3. \A i \in DOMAIN wire' : wire'[i] = pend[p] \/ (i \in DOMAIN wire /\ wire'[i] = wire[i])
    BY <1>0, <2>1
  <2>4. \A q \in {Host, Guest} : pend'[q] # Nothing => pend'[q] = pend[q]
    BY <2>1 DEF WizardTypeOK
  <2>. QED  BY <2>1, <2>2, <2>3, <2>4 DEF GatesInv, TeamsComplete
<1>4. CASE Receive
  <2>1. /\ wire # <<>> /\ wire' = Tail(wire) /\ UNCHANGED <<room, pend>>
        /\ \/ wire[1].room = Nothing /\ UNCHANGED <<shown, calls, complete>>
           \/ wire[1].room \in Rooms /\ Show(wire[1].room)
    BY <1>4, ReceiveEffect
  <2>2. complete => complete'
    BY <2>1 DEF Show
  <2>3. \A i \in DOMAIN wire' : i + 1 \in DOMAIN wire /\ wire'[i] = wire[i + 1]
    BY <1>0, <2>1
  <2>4. CASE wire[1].room = Nothing /\ UNCHANGED <<shown, calls, complete>>
    BY <2>1, <2>3, <2>4 DEF GatesInv, TeamsComplete
  <2>5. CASE wire[1].room \in Rooms /\ Show(wire[1].room)
    <3> DEFINE s == wire[1].room
    <3>1. s # Nothing /\ 1 \in DOMAIN wire
      BY <1>0, <2>1, <2>5, NothingIsApart
    <3>2. s.step >= 2 => complete
      BY <3>1 DEF GatesInv
    <3>3. shown'.step = s.step /\ (TeamsComplete(shown)' <=> TeamsComplete(s))
      BY <2>5 DEF Show, Rooms, TeamsComplete
    <3>4. TeamsComplete(s) => complete'
      BY <2>5 DEF Show
    <3>5. \A i \in DOMAIN calls' : calls'[i].op = "Step" => i \in DOMAIN calls /\ calls'[i] = calls[i]
      <4>1. calls' = calls \/ calls' = Append(calls, SizeCall(SizeFor(s), s.tile))
        BY <2>5 DEF Show
      <4>2. SizeCall(SizeFor(s), s.tile).op = "TileSize"
        BY DEF SizeCall
      <4> HIDE DEF s
      <4>. QED  BY <1>0, <4>1, <4>2
    <3> HIDE DEF s
    <3>. QED  BY <2>1, <2>2, <2>3, <3>2, <3>3, <3>4, <3>5 DEF GatesInv
  <2>. QED  BY <2>1, <2>4, <2>5
<1>5. CASE (\E n \in Names : GuestPicks(n)) \/ GuestComesOrGoes
  <2>1. /\ room'.step = room.step /\ UNCHANGED <<shown, calls, wire, complete>>
        /\ \A q \in {Host, Guest} : pend'[q] = pend[q] \/ pend'[q].room = room'
    BY <1>5, GuestEffect
  <2>. QED  BY <2>1 DEF GatesInv, TeamsComplete
<1>6. CASE LoseConnection
  <2>1. shown' = [shown EXCEPT !.tile = SizeTakenBack]
    BY <1>6 DEF LoseConnection
  <2>2. shown'.step = shown.step /\ (TeamsComplete(shown)' <=> TeamsComplete(shown))
    BY <1>0, <2>1, ShownTeams
  <2>3. calls' = <<>> /\ wire' = <<>> /\ UNCHANGED <<room, pend, complete>>
    BY <1>6 DEF LoseConnection
  <2>. QED  BY <2>2, <2>3 DEF GatesInv
<1>7. CASE Reconnect
  <2>1. /\ wire' = <<[room |-> room, previous |-> Nothing]>>
        /\ UNCHANGED <<room, pend, shown, calls, complete>>
    BY <1>7 DEF Reconnect, drafts
  <2>2. \A i \in DOMAIN wire' : wire'[i].room = room
    BY <2>1
  <2>. QED  BY <2>1, <2>2 DEF GatesInv, TeamsComplete
<1>8. CASE UNCHANGED wizardVars
  BY <1>8 DEF wizardVars, GatesInv, TeamsComplete
<1>. QED  BY <1>1, <1>2, <1>3, <1>4, <1>5, <1>6, <1>7, <1>8 DEF WizardNext

\* No click, late position, message or lost connection takes the room past
\* the Teams step before the host has seen complete teams.
THEOREM GatesWerePassedHolds == WizardSpec => []GatesWerePassed
<1>1. WizardInit => GatesInv
  <2> SUFFICES ASSUME WizardInit PROVE GatesInv
    OBVIOUS
  <2>1. shown = room /\ calls = <<>> /\ wire = <<>> /\ \A p \in {Host, Guest} : pend[p] = Nothing
    BY DEF WizardInit, Nobody
  <2>2. complete = (room.step >= 2 \/ TeamsComplete(room))
    BY DEF WizardInit
  <2>3. room.step >= 2 \/ TeamsComplete(room) => complete
    BY <2>2
  <2>4. TeamsComplete(shown) <=> TeamsComplete(room)
    BY <2>1 DEF TeamsComplete
  <2>. QED  BY <2>1, <2>3, <2>4 DEF GatesInv
<1>2. GatesInv => GatesWerePassed
  BY DEF GatesInv, GatesWerePassed
<1>. QED  BY <1>1, <1>2, GatesStep, WizardTypeCorrect, PTL DEF WizardSpec

----------------------------------------------------------------------------
(* The screen settles.                                                     *)

NoStateOnWire == \A i \in DOMAIN wire : wire[i].room = Nothing

\* The last state on its way to the screen is the room.
RoomIsComing ==
  \E i \in DOMAIN wire : wire[i].room = room /\ \A j \in DOMAIN wire : j > i => wire[j].room = Nothing

\* A size on screen that is not the room's is on its way to the hub, and is
\* one that the hub accepts.
SizeUnderWay ==
  \/ shown.tile = room.tile
  \/ /\ room.phase = "Lobby"
     /\ \E i \in DOMAIN calls :
          /\ calls[i].op = "TileSize" /\ calls[i].meters = shown.tile
          /\ shown.tile <= MaxTileSize(room.area, room.footprint)

AlliancesUnderWay ==
  \/ builder \in {room.names, <<>>}
  \/ /\ room.phase = "Lobby"
     /\ \E i \in DOMAIN calls :
          calls[i].op = "Alliances" /\ calls[i].names = builder /\ builder # <<>>

GuessesUnderWay ==
  /\ shown = [room EXCEPT !.tile = shown.tile]
  /\ SizeUnderWay /\ AlliancesUnderWay

ScreenInv ==
  connected /\ pend = Nobody /\ inOrder =>
    RoomIsComing \/ (NoStateOnWire /\ GuessesUnderWay)

\* What is under way stays under way as long as its call is not handled.
LEMMA GuessesStay ==
  ASSUME GuessesUnderWay, UNCHANGED <<room, shown, builder>>,
         \A i \in DOMAIN calls : calls[i].op \in {"TileSize", "Alliances"} =>
           \/ \E j \in DOMAIN calls' : calls'[j] = calls[i]
           \/ room.phase = "Lobby" => ~ Allowed(calls[i])
  PROVE  GuessesUnderWay'
<1>1. SizeUnderWay'
  <2>1. CASE shown.tile = room.tile
    BY <2>1 DEF SizeUnderWay
  <2>2. CASE shown.tile # room.tile
    <3>1. PICK i \in DOMAIN calls :
            /\ calls[i].op = "TileSize" /\ calls[i].meters = shown.tile
            /\ shown.tile <= MaxTileSize(room.area, room.footprint)
      BY <2>2 DEF GuessesUnderWay, SizeUnderWay
    <3>2. room.phase = "Lobby" /\ Allowed(calls[i])
      BY <2>2, <3>1 DEF GuessesUnderWay, SizeUnderWay, Allowed
    <3>3. PICK j \in DOMAIN calls' : calls'[j] = calls[i]
      BY <3>1, <3>2
    <3>4. MaxTileSize(room.area, room.footprint)' = MaxTileSize(room.area, room.footprint)
      OBVIOUS
    <3>. QED  BY <3>1, <3>2, <3>3, <3>4 DEF SizeUnderWay
  <2>. QED  BY <2>1, <2>2
<1>2. AlliancesUnderWay'
  <2>1. CASE builder \in {room.names, <<>>}
    BY <2>1 DEF AlliancesUnderWay
  <2>2. CASE builder \notin {room.names, <<>>}
    <3>1. PICK i \in DOMAIN calls :
            calls[i].op = "Alliances" /\ calls[i].names = builder /\ builder # <<>>
      BY <2>2 DEF GuessesUnderWay, AlliancesUnderWay
    <3>2. room.phase = "Lobby" /\ Allowed(calls[i])
      BY <2>2, <3>1 DEF GuessesUnderWay, AlliancesUnderWay, Allowed
    <3>3. PICK j \in DOMAIN calls' : calls'[j] = calls[i]
      BY <3>1, <3>2
    <3>. QED  BY <3>1, <3>2, <3>3 DEF AlliancesUnderWay
  <2>. QED  BY <2>1, <2>2
<1>. QED  BY <1>1, <1>2 DEF GuessesUnderWay

\* What the lists of calls before and after a click have in common.
LEMMA CallsOfClick ==
  ASSUME WizardTypeOK, NEW cs \in Seq(Calls), Clicked(cs)
  PROVE  /\ \A i \in DOMAIN calls : i \in DOMAIN calls' /\ calls'[i] = calls[i]
         /\ \A i \in DOMAIN calls' : i \notin DOMAIN calls =>
              /\ connected /\ i > Len(calls) /\ i - Len(calls) \in DOMAIN cs
              /\ calls'[i] = cs[i - Len(calls)]
         /\ connected => \A j \in DOMAIN cs : j + Len(calls) \in DOMAIN calls' /\ calls'[j + Len(calls)] = cs[j]
<1>1. calls \in Seq(Calls) /\ calls' = IF connected THEN calls \o cs ELSE calls
  BY DEF WizardTypeOK, Clicked
<1>2. CASE connected
  BY <1>1, <1>2
<1>3. CASE ~ connected
  BY <1>1, <1>3
<1>. QED  BY <1>2, <1>3

LEMMA ScreenClick ==
  ASSUME WizardTypeOK, ScreenInv, NEW cs \in Seq(Calls), Clicked(cs)
  PROVE  ScreenInv'
<1>0. UNCHANGED <<room, pend, connected, wire, inOrder>> /\ GuessesSize(cs) /\ GuessesAlliances(cs)
  BY DEF Clicked
<1> SUFFICES ASSUME connected, pend = Nobody, inOrder, ~ RoomIsComing
             PROVE  NoStateOnWire' /\ GuessesUnderWay'
  BY <1>0 DEF ScreenInv, RoomIsComing, Nobody
<1>1. NoStateOnWire /\ GuessesUnderWay
  BY DEF ScreenInv
<1>2. room \in Rooms /\ shown \in Rooms /\ builder \in Seq(Names) /\ calls \in Seq(Calls)
  BY DEF WizardTypeOK
<1>3. \A i \in DOMAIN calls : i \in DOMAIN calls' /\ calls'[i] = calls[i]
  BY CallsOfClick
<1>4. \A c : cs = <<c>> => \E i \in DOMAIN calls' : calls'[i] = c
  <2> SUFFICES ASSUME NEW c, cs = <<c>> PROVE \E i \in DOMAIN calls' : calls'[i] = c
    OBVIOUS
  <2>1. 1 \in DOMAIN cs /\ cs[1] = c
    OBVIOUS
  <2>. QED  BY <2>1, CallsOfClick
<1>5. shown' = [room EXCEPT !.tile = shown'.tile] /\ SizeUnderWay'
  <2>1. CASE shown' = shown
    <3>1. CASE shown.tile = room.tile
      BY <1>0, <1>1, <2>1, <3>1 DEF GuessesUnderWay, SizeUnderWay
    <3>2. CASE shown.tile # room.tile
      <4>1. PICK i \in DOMAIN calls :
              /\ calls[i].op = "TileSize" /\ calls[i].meters = shown.tile
              /\ shown.tile <= MaxTileSize(room.area, room.footprint)
        BY <1>1, <3>2 DEF GuessesUnderWay, SizeUnderWay
      <4>. QED  BY <1>0, <1>1, <1>3, <2>1, <3>2, <4>1 DEF GuessesUnderWay, SizeUnderWay
    <3>. QED  BY <3>1, <3>2
  <2>2. CASE shown' # shown
    <3>1. PICK size \in Nat :
            /\ size <= ShownMaxTile
            /\ shown' = [shown EXCEPT !.tile = size]
            /\ cs = <<SizeCall(size, shown.tile)>>
      BY <1>0, <2>2 DEF GuessesSize
    <3>2. shown.phase = "Lobby"
      BY <1>0, <2>2 DEF GuessesSize
    <3>3. /\ shown'.tile = size /\ shown' = [room EXCEPT !.tile = size]
          /\ shown.phase = room.phase /\ shown.area = room.area
          /\ shown.footprint = room.footprint
      BY <1>1, <1>2, <3>1 DEF GuessesUnderWay, Rooms
    <3>4. PICK i \in DOMAIN calls' : calls'[i] = SizeCall(size, shown.tile)
      BY <1>4, <3>1
    <3>5. calls'[i].op = "TileSize" /\ calls'[i].meters = size
      BY <3>4 DEF SizeCall
    <3>6. size <= MaxTileSize(room.area, room.footprint)
      BY <3>1, <3>3 DEF ShownMaxTile
    <3>7. MaxTileSize(room.area, room.footprint)' = MaxTileSize(room.area, room.footprint)
      BY <1>0
    <3>. QED  BY <1>0, <3>2, <3>3, <3>5, <3>6, <3>7 DEF SizeUnderWay
  <2>. QED  BY <2>1, <2>2
<1>6. AlliancesUnderWay'
  <2>1. CASE builder' = builder /\ builder \in {room.names, <<>>}
    BY <1>0, <2>1 DEF AlliancesUnderWay
  <2>2. CASE builder' = builder /\ builder \notin {room.names, <<>>}
    <3>1. PICK i \in DOMAIN calls :
            calls[i].op = "Alliances" /\ calls[i].names = builder /\ builder # <<>>
      BY <1>1, <2>2 DEF GuessesUnderWay, AlliancesUnderWay
    <3>. QED  BY <1>0, <1>1, <1>3, <2>2, <3>1 DEF GuessesUnderWay, AlliancesUnderWay
  <2>3. CASE builder' # builder
    <3>1. shown.phase = "Lobby" /\ cs = <<[op |-> "Alliances", names |-> builder']>>
      BY <1>0, <2>3 DEF GuessesAlliances
    <3>2. room.phase = "Lobby"
      BY <1>1, <1>2, <3>1 DEF GuessesUnderWay, Rooms
    <3>3. PICK i \in DOMAIN calls' : calls'[i] = [op |-> "Alliances", names |-> builder']
      BY <1>4, <3>1
    <3>4. calls'[i].op = "Alliances" /\ calls'[i].names = builder'
      BY <3>3
    <3>. QED  BY <1>0, <3>2, <3>4 DEF AlliancesUnderWay
  <2>. QED  BY <2>1, <2>2, <2>3
<1>. QED  BY <1>0, <1>1, <1>5, <1>6 DEF NoStateOnWire, GuessesUnderWay

\* A refused call was not one that the screen waits for.
LEMMA ScreenHub ==
  ASSUME WizardTypeOK, ScreenInv, HubHandles
  PROVE  ScreenInv'
<1>0. calls \in Seq(Calls) /\ wire \in Seq(Messages)
  BY DEF WizardTypeOK
<1>1. /\ calls # <<>> /\ calls[1] \in Calls /\ calls' = Tail(calls)
      /\ UNCHANGED <<shown, builder, connected, inOrder>>
  BY HubEffect DEF drafts, history
<1>2. CASE pend'[Host] # Nothing
  BY <1>2 DEF ScreenInv, Nobody
<1>3. CASE /\ room.phase # "Lobby" \/ MayRefuse(calls[1])
           /\ \E msg \in Messages : msg.room = Nothing /\ wire' = Append(wire, msg)
           /\ UNCHANGED <<room, pend>>
  <2> SUFFICES ASSUME connected, pend = Nobody, inOrder
               PROVE  RoomIsComing' \/ (NoStateOnWire' /\ GuessesUnderWay')
    BY <1>1, <1>3 DEF ScreenInv, Nobody
  <2>1. /\ \A i \in DOMAIN wire : i \in DOMAIN wire' /\ wire'[i] = wire[i]
        /\ \A i \in DOMAIN wire' : i \notin DOMAIN wire => wire'[i].room = Nothing
    BY <1>0, <1>3
  <2>2. CASE RoomIsComing
    BY <1>3, <2>1, <2>2 DEF RoomIsComing
  <2>3. CASE NoStateOnWire /\ GuessesUnderWay
    <3>1. \A i \in DOMAIN calls : i # 1 => i - 1 \in DOMAIN calls' /\ calls'[i - 1] = calls[i]
      BY <1>0, <1>1
    <3>2. calls[1].op \in {"TileSize", "Alliances"} /\ room.phase = "Lobby" => ~ Allowed(calls[1])
      BY <1>3 DEF MayRefuse
    <3>3. GuessesUnderWay'
      BY <1>1, <1>3, <2>3, <3>1, <3>2, GuessesStay
    <3>. QED  BY <2>1, <2>3, <3>3 DEF NoStateOnWire
  <2>. QED  BY <2>2, <2>3 DEF ScreenInv
<1>. QED  BY <1>2, <1>3, HubEffect

LEMMA ScreenReceive ==
  ASSUME WizardTypeOK, ScreenInv, Receive
  PROVE  ScreenInv'
<1>0. calls \in Seq(Calls) /\ wire \in Seq(Messages) /\ room \in Rooms
  BY DEF WizardTypeOK
<1>1. /\ wire # <<>> /\ wire[1] \in Messages /\ wire' = Tail(wire)
      /\ UNCHANGED <<room, pend, connected, inOrder>>
      /\ \/ wire[1].room = Nothing /\ UNCHANGED <<shown, calls, builder, complete>>
         \/ wire[1].room \in Rooms /\ Show(wire[1].room)
  BY ReceiveEffect
<1> SUFFICES ASSUME connected, pend = Nobody, inOrder
             PROVE  RoomIsComing' \/ (NoStateOnWire' /\ GuessesUnderWay')
  BY <1>1 DEF ScreenInv, Nobody
<1>2. /\ \A i \in DOMAIN wire : i # 1 => i - 1 \in DOMAIN wire' /\ wire'[i - 1] = wire[i]
      /\ \A i \in DOMAIN wire' : i + 1 \in DOMAIN wire /\ wire'[i] = wire[i + 1] /\ i + 1 > 1
      /\ 1 \in DOMAIN wire /\ DOMAIN wire \subseteq Nat /\ DOMAIN wire' \subseteq Nat
  BY <1>0, <1>1
<1>3. CASE RoomIsComing
  <2>1. PICK i \in DOMAIN wire :
          wire[i].room = room /\ \A j \in DOMAIN wire : j > i => wire[j].room = Nothing
    BY <1>3 DEF RoomIsComing
  <2>2. CASE i # 1
    <3>1. i - 1 \in DOMAIN wire' /\ wire'[i - 1].room = room
      BY <1>2, <2>1, <2>2
    <3>2. ASSUME NEW j \in DOMAIN wire', j > i - 1 PROVE wire'[j].room = Nothing
      <4>1. j + 1 \in DOMAIN wire /\ j + 1 > i
        BY <1>2, <2>1, <3>2
      <4>. QED  BY <1>2, <2>1, <4>1
    <3>. QED  BY <1>1, <3>1, <3>2 DEF RoomIsComing
  <2>3. CASE i = 1
    <3>1. NoStateOnWire'
      BY <1>2, <2>1, <2>3 DEF NoStateOnWire
    <3>2. wire[1].room = room /\ room # Nothing /\ Show(room)
      BY <1>0, <1>1, <2>1, <2>3, NothingIsApart
    <3>3. /\ SizeFor(room) # room.tile =>
               room.phase = "Lobby" /\ SizeFor(room) <= MaxTileSize(room.area, room.footprint)
      BY <1>0, SizeForFits
    <3>4. shown' = [room EXCEPT !.tile = shown'.tile] /\ shown'.tile = SizeFor(room)
      BY <1>0, <3>2 DEF Show, Rooms
    <3>5. SizeUnderWay'
      <4>1. CASE SizeFor(room) = room.tile
        BY <1>1, <3>4, <4>1 DEF SizeUnderWay
      <4>2. CASE SizeFor(room) # room.tile
        <5> DEFINE c == SizeCall(SizeFor(room), room.tile)
        <5>1. calls' = Append(calls, c)
          BY <3>2, <4>2 DEF Show
        <5>2. c.op = "TileSize" /\ c.meters = SizeFor(room)
          BY DEF SizeCall
        <5> HIDE DEF c
        <5>3. Len(calls) + 1 \in DOMAIN calls' /\ calls'[Len(calls) + 1] = c
          BY <1>0, <5>1
        <5>4. MaxTileSize(room.area, room.footprint)' = MaxTileSize(room.area, room.footprint)
          BY <1>1
        <5>. QED  BY <1>1, <3>3, <3>4, <4>2, <5>2, <5>3, <5>4 DEF SizeUnderWay
      <4>. QED  BY <4>1, <4>2
    <3>6. AlliancesUnderWay'
      BY <1>1, <3>2 DEF AlliancesUnderWay, Show, BuilderAfter
    <3>. QED  BY <1>1, <3>1, <3>4, <3>5, <3>6 DEF GuessesUnderWay
  <2>. QED  BY <2>2, <2>3
<1>4. CASE NoStateOnWire /\ GuessesUnderWay
  <2>1. UNCHANGED <<shown, calls, builder>>
    BY <1>1, <1>2, <1>4, NothingIsApart DEF NoStateOnWire
  <2>2. NoStateOnWire'
    BY <1>2, <1>4 DEF NoStateOnWire
  <2>3. GuessesUnderWay'
    BY <1>1, <1>4, <2>1, GuessesStay
  <2>. QED  BY <2>2, <2>3
<1>. QED  BY <1>3, <1>4 DEF ScreenInv

LEMMA ScreenStep == WizardTypeOK /\ ScreenInv /\ [WizardNext]_wizardVars => ScreenInv'
<1> SUFFICES ASSUME WizardTypeOK, ScreenInv, [WizardNext]_wizardVars PROVE ScreenInv'
  OBVIOUS
<1>0. wire \in Seq(Messages)
  BY DEF WizardTypeOK
<1>1. CASE Clicks \/ \E found \in BOOLEAN : GpsAnswers(found)
  BY <1>1, ClickEffect, ScreenClick
<1>2. CASE HubHandles
  BY <1>2, ScreenHub
<1>3. ASSUME NEW p \in {Host, Guest}, Broadcast(p) PROVE ScreenInv'
  <2>1. /\ wire' = IF connected THEN Append(wire, pend[p]) ELSE wire
        /\ inOrder' <=> pend[p].room = room
        /\ UNCHANGED <<room, connected>>
    BY <1>3, BroadcastEffect
  <2> SUFFICES ASSUME connected, pend[p].room = room PROVE RoomIsComing'
    BY <2>1 DEF ScreenInv
  <2>2. pend[p] \in Messages /\ wire' = Append(wire, pend[p])
    BY <1>3, <2>1, BroadcastEffect
  <2>3. /\ Len(wire) + 1 \in DOMAIN wire' /\ wire'[Len(wire) + 1] = pend[p]
        /\ \A j \in DOMAIN wire' : ~ (j > Len(wire) + 1)
    BY <1>0, <2>2
  <2>. QED  BY <2>1, <2>3 DEF RoomIsComing
<1>4. CASE Receive
  BY <1>4, ScreenReceive
<1>5. CASE (\E n \in Names : GuestPicks(n)) \/ GuestComesOrGoes
  BY <1>5, GuestEffect DEF ScreenInv, Nobody
<1>6. CASE LoseConnection
  BY <1>6 DEF LoseConnection, ScreenInv
<1>7. CASE Reconnect
  <2>1. wire' = <<[room |-> room, previous |-> Nothing]>> /\ room' = room
    BY <1>7 DEF Reconnect
  <2>2. 1 \in DOMAIN wire' /\ wire'[1].room = room /\ \A j \in DOMAIN wire' : ~ (j > 1)
    BY <2>1
  <2>. QED  BY <2>1, <2>2 DEF ScreenInv, RoomIsComing
<1>8. CASE UNCHANGED wizardVars
  BY <1>8 DEF wizardVars, link, drafts, history, ScreenInv, RoomIsComing, NoStateOnWire,
     GuessesUnderWay, SizeUnderWay, AlliancesUnderWay
<1>. QED  BY <1>1, <1>2, <1>3, <1>4, <1>5, <1>6, <1>7, <1>8 DEF WizardNext

\* Once nothing is under way and no broadcast was overtaken, the screen shows
\* the room: refused and lost calls leave no guess behind.
THEOREM ScreenSettlesHolds == WizardSpec => []ScreenSettles
<1>1. WizardInit => ScreenInv
  <2> SUFFICES ASSUME WizardInit PROVE NoStateOnWire /\ GuessesUnderWay
    BY DEF ScreenInv
  <2>1. shown = room /\ builder = room.names /\ wire = <<>> /\ room \in Rooms
    BY StartsAreRooms DEF WizardInit
  <2>2. room = [room EXCEPT !.tile = room.tile]
    BY <2>1 DEF Rooms
  <2>. QED  BY <2>1, <2>2 DEF NoStateOnWire, GuessesUnderWay, SizeUnderWay, AlliancesUnderWay
<1>2. WizardTypeOK /\ ScreenInv => ScreenSettles
  <2> SUFFICES ASSUME WizardTypeOK, ScreenInv, Quiet, inOrder
               PROVE  shown = room /\ builder \in {room.names, <<>>}
    BY DEF ScreenSettles
  <2>1. DOMAIN calls = {} /\ DOMAIN wire = {} /\ connected /\ pend = Nobody
    BY DEF Quiet
  <2>2. GuessesUnderWay
    BY <2>1 DEF ScreenInv, RoomIsComing
  <2>3. shown.tile = room.tile /\ builder \in {room.names, <<>>}
    BY <2>1, <2>2 DEF GuessesUnderWay, SizeUnderWay, AlliancesUnderWay
  <2>4. shown = [room EXCEPT !.tile = room.tile] /\ room \in Rooms
    BY <2>2, <2>3 DEF GuessesUnderWay, WizardTypeOK
  <2>5. shown = room
    BY <2>4 DEF Rooms
  <2>. QED  BY <2>3, <2>5
<1>. QED  BY <1>1, <1>2, ScreenStep, WizardTypeCorrect, PTL DEF WizardSpec

----------------------------------------------------------------------------
(* The applied area stands.                                                *)

\* The last area call that is not handled yet, or else the room, has the area
\* that the host ordered.
AreaUnderWay ==
  \/ room.area = ordered /\ \A i \in DOMAIN calls : ~ IsAreaCall(calls[i])
  \/ \E i \in DOMAIN calls :
       /\ calls[i].op = "Area" /\ calls[i].cells = ordered
       /\ \A j \in DOMAIN calls : j > i => ~ IsAreaCall(calls[j])

AreaInv ==
  /\ ~ connected => ordered = Nothing
  /\ \A i \in DOMAIN calls : calls[i].op = "Area" => IsDrawable(calls[i])
  /\ ordered # Nothing /\ room.phase = "Lobby" => AreaUnderWay

\* Only an area or a template changes the area; the game once begun goes on.
LEMMA ResultArea ==
  ASSUME NEW c \in Calls, room \in Rooms, NEW r \in Results(c), r \in Rooms
  PROVE  /\ ~ IsAreaCall(c) => r.area = room.area
         /\ c.op = "Area" => r.area = c.cells
<1>1. ~ IsAreaCall(c) => r.area = room.area
  <2> SUFFICES ASSUME ~ IsAreaCall(c) PROVE r.area = room.area
    OBVIOUS
  <2>1. CASE c.op = "Distribute"
    <3>1. PICK m : r = [room EXCEPT !.member = m]
      BY <2>1 DEF Results
    <3>. QED  BY <3>1 DEF Rooms
  <2>2. CASE c.op = "Location"
    BY <2>2 DEF Results, Rooms
  <2>3. CASE c.op \notin {"Distribute", "Location"}
    BY <2>3 DEF Results, Rooms, IsAreaCall, WithAlliances, WithPick
  <2>. QED  BY <2>1, <2>2, <2>3
<1>2. c.op = "Area" => r.area = c.cells
  BY DEF Results, Rooms, WithArea
<1>. QED  BY <1>1, <1>2

LEMMA AreaClick ==
  ASSUME WizardTypeOK, AreaInv, NEW cs \in Seq(Calls), Clicked(cs)
  PROVE  AreaInv'
<1>0. /\ UNCHANGED <<room, connected>> /\ OrdersArea(cs)
      /\ \A i \in DOMAIN cs : cs[i].op = "Area" => IsDrawable(cs[i])
      /\ calls' = IF connected THEN calls \o cs ELSE calls
      /\ calls \in Seq(Calls)
  BY DEF Clicked, WizardTypeOK
<1>1. CASE ~ connected
  <2>1. UNCHANGED <<calls, ordered>>
    BY <1>0, <1>1 DEF OrdersArea
  <2>. QED  BY <1>0, <1>1, <2>1 DEF AreaInv
<1>2. CASE connected
  <2>1. \A i \in DOMAIN calls : i \in DOMAIN calls' /\ calls'[i] = calls[i]
    BY CallsOfClick
  <2>2. \A i \in DOMAIN calls' : i \notin DOMAIN calls =>
          i - Len(calls) \in DOMAIN cs /\ calls'[i] = cs[i - Len(calls)]
    BY CallsOfClick
  <2>3. \A i \in DOMAIN calls' : calls'[i].op = "Area" => IsDrawable(calls'[i])
    <3> SUFFICES ASSUME NEW i \in DOMAIN calls', calls'[i].op = "Area"
                 PROVE  IsDrawable(calls'[i])
      OBVIOUS
    <3>1. CASE i \in DOMAIN calls
      BY <2>1, <3>1 DEF AreaInv
    <3>2. CASE i \notin DOMAIN calls
      BY <1>0, <2>2, <3>2
    <3>. QED  BY <3>1, <3>2
  <2>4. ASSUME ordered' # Nothing, room'.phase = "Lobby" PROVE AreaUnderWay'
    <3>1. CASE ordered' = ordered /\ \A i \in DOMAIN cs : ~ IsAreaCall(cs[i])
      <4>1. \A i \in DOMAIN calls' : IsAreaCall(calls'[i]) =>
              i \in DOMAIN calls /\ calls'[i] = calls[i]
        BY <2>1, <2>2, <3>1
      <4>2. AreaUnderWay
        BY <1>0, <2>4, <3>1 DEF AreaInv
      <4>. QED  BY <1>0, <2>1, <3>1, <4>1, <4>2 DEF AreaUnderWay
    <3>2. ASSUME NEW c \in Calls, ordered' = c.cells, cs = <<c>>, c.op = "Area"
          PROVE  AreaUnderWay'
      <4>1. calls' = Append(calls, c)
        BY <1>0, <1>2, <3>2
      <4>2. /\ Len(calls) + 1 \in DOMAIN calls' /\ calls'[Len(calls) + 1] = c
            /\ \A j \in DOMAIN calls' : ~ (j > Len(calls) + 1)
        BY <1>0, <4>1
      <4>. QED  BY <3>2, <4>2 DEF AreaUnderWay
    <3>. QED  BY <1>0, <1>2, <2>4, <3>1, <3>2 DEF OrdersArea
  <2>. QED  BY <1>0, <1>2, <2>3, <2>4 DEF AreaInv
<1>. QED  BY <1>1, <1>2

\* The hub has no reason to refuse an area that the review let through.
LEMMA AreaHub ==
  ASSUME WizardTypeOK, AreaInv, HubHandles
  PROVE  AreaInv'
<1>0. calls \in Seq(Calls) /\ room \in Rooms
  BY DEF WizardTypeOK
<1>1. /\ calls # <<>> /\ calls[1] \in Calls /\ calls' = Tail(calls)
      /\ UNCHANGED <<connected, ordered>>
  BY HubEffect DEF history
<1>2. /\ \A i \in DOMAIN calls' : i + 1 \in DOMAIN calls /\ calls'[i] = calls[i + 1]
      /\ \A i \in DOMAIN calls : i # 1 => i - 1 \in DOMAIN calls' /\ calls'[i - 1] = calls[i]
      /\ 1 \in DOMAIN calls /\ DOMAIN calls \subseteq Nat /\ DOMAIN calls' \subseteq Nat
  BY <1>0, <1>1
<1>3. ASSUME NEW i \in DOMAIN calls, calls[i].op = "Area", calls[i].cells = ordered, i # 1,
             \A j \in DOMAIN calls : j > i => ~ IsAreaCall(calls[j])
      PROVE  AreaUnderWay'
  <2>1. i - 1 \in DOMAIN calls' /\ calls'[i - 1] = calls[i]
    BY <1>2, <1>3
  <2>2. ASSUME NEW j \in DOMAIN calls', j > i - 1 PROVE ~ IsAreaCall(calls'[j])
    <3>1. j + 1 \in DOMAIN calls /\ j + 1 > i /\ calls'[j] = calls[j + 1]
      BY <1>2, <2>2
    <3>. QED  BY <1>3, <3>1
  <2>. QED  BY <1>1, <1>3, <2>1, <2>2 DEF AreaUnderWay
<1>4. ASSUME \A j \in DOMAIN calls : j > 1 => ~ IsAreaCall(calls[j])
      PROVE  \A j \in DOMAIN calls' : ~ IsAreaCall(calls'[j])
  <2> SUFFICES ASSUME NEW j \in DOMAIN calls' PROVE ~ IsAreaCall(calls'[j])
    OBVIOUS
  <2>1. j + 1 \in DOMAIN calls /\ j + 1 > 1 /\ calls'[j] = calls[j + 1]
    <3>1. j \in DOMAIN calls' /\ j \in Nat /\ j # 0
      BY <1>0, <1>1
    <3>. QED  BY <1>2, <3>1
  <2>. QED  BY <1>4, <2>1
<1>5. \A i \in DOMAIN calls' : calls'[i].op = "Area" => IsDrawable(calls'[i])
  BY <1>2 DEF AreaInv
<1>6. ASSUME ordered # Nothing, room'.phase = "Lobby" PROVE AreaUnderWay'
  <2>1. CASE /\ room.phase = "Lobby" /\ Allowed(calls[1])
             /\ room' \in Results(calls[1]) /\ room' \in Rooms
    <3>1. /\ ~ IsAreaCall(calls[1]) => room'.area = room.area
          /\ calls[1].op = "Area" => room'.area = calls[1].cells
      BY <1>0, <1>1, <2>1, ResultArea
    <3>2. AreaUnderWay
      BY <1>6, <2>1 DEF AreaInv
    <3>3. CASE room.area = ordered /\ \A i \in DOMAIN calls : ~ IsAreaCall(calls[i])
      <4>1. \A j \in DOMAIN calls' : ~ IsAreaCall(calls'[j])
        BY <1>4, <3>3
      <4>. QED  BY <1>1, <1>2, <3>1, <3>3, <4>1 DEF AreaUnderWay
    <3>4. ASSUME NEW i \in DOMAIN calls, calls[i].op = "Area", calls[i].cells = ordered,
                 \A j \in DOMAIN calls : j > i => ~ IsAreaCall(calls[j])
          PROVE  AreaUnderWay'
      <4>1. CASE i = 1
        <5>1. \A j \in DOMAIN calls' : ~ IsAreaCall(calls'[j])
          BY <1>4, <3>4, <4>1
        <5>. QED  BY <1>1, <3>1, <3>4, <4>1, <5>1 DEF AreaUnderWay
      <4>2. CASE i # 1
        BY <1>3, <3>4, <4>2
      <4>. QED  BY <4>1, <4>2
    <3>. QED  BY <3>2, <3>3, <3>4 DEF AreaUnderWay
  <2>2. CASE (room.phase # "Lobby" \/ MayRefuse(calls[1])) /\ room' = room
    <3>1. AreaUnderWay /\ MayRefuse(calls[1])
      BY <1>6, <2>2 DEF AreaInv
    <3>2. calls[1].op # "Area"
      BY <1>2, <3>1 DEF AreaInv, MayRefuse, Allowed, IsDrawable
    <3>3. CASE room.area = ordered /\ \A i \in DOMAIN calls : ~ IsAreaCall(calls[i])
      <4>1. \A j \in DOMAIN calls' : ~ IsAreaCall(calls'[j])
        BY <1>4, <3>3
      <4>. QED  BY <1>1, <2>2, <3>3, <4>1 DEF AreaUnderWay
    <3>4. ASSUME NEW i \in DOMAIN calls, calls[i].op = "Area", calls[i].cells = ordered,
                 \A j \in DOMAIN calls : j > i => ~ IsAreaCall(calls[j])
          PROVE  AreaUnderWay'
      BY <1>3, <3>2, <3>4
    <3>. QED  BY <3>1, <3>3, <3>4 DEF AreaUnderWay
  <2>. QED  BY <2>1, <2>2, HubEffect
<1>. QED  BY <1>1, <1>5, <1>6 DEF AreaInv

\* The effect of the Rules step sends a size, and no area.
LEMMA AreaReceive ==
  ASSUME WizardTypeOK, AreaInv, Receive
  PROVE  AreaInv'
<1>0. calls \in Seq(Calls)
  BY DEF WizardTypeOK
<1>1. UNCHANGED <<room, connected, ordered>>
  BY ReceiveEffect
<1>2. calls' = calls \/ \E c : c.op = "TileSize" /\ calls' = Append(calls, c)
  BY ReceiveEffect DEF Show, SizeCall
<1>3. /\ \A i \in DOMAIN calls : i \in DOMAIN calls' /\ calls'[i] = calls[i]
      /\ \A i \in DOMAIN calls' : i \in DOMAIN calls \/ calls'[i].op = "TileSize"
  BY <1>0, <1>2
<1>. QED  BY <1>1, <1>3 DEF AreaInv, AreaUnderWay, IsAreaCall

LEMMA AreaStep == WizardTypeOK /\ AreaInv /\ [WizardNext]_wizardVars => AreaInv'
<1> SUFFICES ASSUME WizardTypeOK, AreaInv, [WizardNext]_wizardVars PROVE AreaInv'
  OBVIOUS
<1>1. CASE Clicks \/ \E found \in BOOLEAN : GpsAnswers(found)
  BY <1>1, ClickEffect, AreaClick
<1>2. CASE HubHandles
  BY <1>2, AreaHub
<1>3. ASSUME NEW p \in {Host, Guest}, Broadcast(p) PROVE AreaInv'
  <2>1. UNCHANGED <<room, connected, calls, ordered>>
    BY <1>3, BroadcastEffect
  <2>. QED  BY <2>1 DEF AreaInv, AreaUnderWay
<1>4. CASE Receive
  BY <1>4, AreaReceive
<1>5. CASE (\E n \in Names : GuestPicks(n)) \/ GuestComesOrGoes
  <2>1. /\ room'.area = room.area /\ room'.phase = room.phase
        /\ UNCHANGED <<connected, calls, ordered>>
    BY <1>5, GuestEffect DEF link, history
  <2>. QED  BY <2>1 DEF AreaInv, AreaUnderWay
<1>6. CASE LoseConnection
  <2>1. ordered' = Nothing /\ DOMAIN calls' = {}
    BY <1>6 DEF LoseConnection
  <2>. QED  BY <2>1 DEF AreaInv
<1>7. CASE Reconnect
  BY <1>7 DEF Reconnect, AreaInv, AreaUnderWay
<1>8. CASE UNCHANGED wizardVars
  BY <1>8 DEF wizardVars, link, history, AreaInv, AreaUnderWay
<1>. QED  BY <1>1, <1>2, <1>3, <1>4, <1>5, <1>6, <1>7, <1>8 DEF WizardNext

\* An area that the review let through becomes the area of the room.
THEOREM AppliedAreaStandsHolds == WizardSpec => []AppliedAreaStands
<1>1. WizardInit => AreaInv
  BY DEF WizardInit, AreaInv
<1>2. AreaInv => AppliedAreaStands
  BY DEF AreaInv, AppliedAreaStands, AreaUnderWay, Quiet
<1>. QED  BY <1>1, <1>2, AreaStep, WizardTypeCorrect, PTL DEF WizardSpec
==============================================================================
