------------------------------ MODULE Hub_proofs -----------------------------
(***************************************************************************)
(* Proofs about RoomConnections and BoardView, for every value of their    *)
(* constants: who is connected to which room, and what the hub remembers   *)
(* and sends of the board. The two share no state.                         *)
(*                                                                         *)
(* RoomConnections. The room lock makes a rejoin's list of stale           *)
(* connections complete (Locked), although connections go on leaving the   *)
(* map outside it; everything else follows from where each call stands     *)
(* between the tables it changes one after the other (Leaving, Grouped).   *)
(*                                                                         *)
(* BoardView. Only Broadcast, ShareBeaconIntel and the clock touch what    *)
(* the hub remembers. A hex that one of us saw is written into the memory  *)
(* of all of us in the same step, so that TeamRemembers is inductive       *)
(* together with the types; a later broadcast of an older snapshot only    *)
(* makes entries younger. SightingsInv says the same of the enemy's        *)
(* position, and a message takes the position from nowhere else.           *)
(***************************************************************************)
EXTENDS RoomConnections, BoardView, TLAPS

(***************************************************************************)
(* Rooms and their connections                                             *)
(***************************************************************************)

Entering == {"stale", "forget", "group"}

\* A call has a room, and works for an open connection as long as it enters it;
\* one that takes a connection out of the map has one.
Calling ==
  \A c \in Connections :
    /\ pc[c] # "idle" => target[c] \in Rooms
    /\ pc[c] \in Entering => c \in open
    /\ pc[c] = "forget" => victim[c] \in Connections

\* Only players of a room are in its map; one that is not made has none.
Roster ==
  \A r \in Rooms :
    /\ \A c \in map[r] : Owner[c] \in players[r]
    /\ phase[r] = None => players[r] = {}

\* A rejoining connection has the lock, and the list of all seats of its owner.
Locked ==
  \A c \in Connections : pc[c] \in {"stale", "forget"} =>
    /\ holder[target[c]] = c
    /\ Owner[c] \in players[target[c]]
    /\ Seats(target[c], Owner[c]) \subseteq stale[c]

\* ShownWhileSeated without its condition.
AllShown == \A r \in Rooms : \A c \in map[r] : Owner[c] \in shown[r]

\* A leaving connection leaves the room it is indexed in, and is soon out of its map.
Leaving ==
  \A c \in Connections :
    /\ pc[c] = "leave" => index[c] \in {target[c], None}
    /\ pc[c] \in {"unindex", "unseat", "ungroup"} => c \notin map[target[c]]

\* A connection in the map is in the group, unless it is just about to join it.
Grouped ==
  \A r \in Rooms : \A c \in map[r] :
    c \in open /\ ~ (pc[c] \in Entering /\ target[c] = r) => c \in group[r]

\* Types, given that a call has its room and its victim.
LEMMA NextTypeOK ==
  TypeOK /\ Calling /\ [Next]_vars => TypeOK'
<1>. SUFFICES ASSUME TypeOK, Calling, [Next]_vars PROVE TypeOK'
  OBVIOUS
<1>. USE OwnersAreUsers, NoneIsNothing DEF TypeOK, Calling,
      Phases, Steps, Entering, rooms, tables, calls, Idle, Goto, Call, Return, Seats
<1>1. ASSUME NEW c \in Connections, NEW r \in Rooms, CreateRoom(c, r) PROVE TypeOK'
  BY <1>1 DEF CreateRoom
<1>2. ASSUME NEW c \in Connections, NEW r \in Rooms, JoinAsNewPlayer(c, r) PROVE TypeOK'
  BY <1>2 DEF JoinAsNewPlayer, MayEnter
<1>3. ASSUME NEW c \in Connections, NEW r \in Rooms, Rejoin(c, r) PROVE TypeOK'
  BY <1>3 DEF Rejoin, MayEnter
<1>4. ASSUME NEW c \in Connections, TakeFromMap(c) PROVE TypeOK'
  BY <1>4 DEF TakeFromMap
<1>5. ASSUME NEW c \in Connections, TakeFromIndex(c) PROVE TypeOK'
  BY <1>5 DEF TakeFromIndex
<1>6. ASSUME NEW c \in Connections, TakeSeat(c) PROVE TypeOK'
  BY <1>6 DEF TakeSeat
<1>7. ASSUME NEW c \in Connections, JoinGroup(c) PROVE TypeOK'
  BY <1>7 DEF JoinGroup
<1>8. ASSUME NEW c \in Connections, ReturnToLobby(c) PROVE TypeOK'
  BY <1>8 DEF ReturnToLobby, Leave
<1>9. ASSUME NEW c \in Connections, OnDisconnected(c) PROVE TypeOK'
  BY <1>9 DEF OnDisconnected, Leave
<1>10. ASSUME NEW c \in Connections, PlayAgain(c) PROVE TypeOK'
  BY <1>10 DEF PlayAgain
<1>11. ASSUME NEW c \in Connections, RemoveFromMap(c) PROVE TypeOK'
  BY <1>11 DEF RemoveFromMap
<1>12. ASSUME NEW c \in Connections, RemoveFromIndex(c) PROVE TypeOK'
  BY <1>12 DEF RemoveFromIndex
<1>13. ASSUME NEW c \in Connections, ShowDisconnected(c) PROVE TypeOK'
  BY <1>13 DEF ShowDisconnected
<1>14. ASSUME NEW c \in Connections, LeaveGroup(c) PROVE TypeOK'
  BY <1>14 DEF LeaveGroup
<1>15. ASSUME NEW r \in Rooms, AdvancePhase(r) PROVE TypeOK'
  BY <1>15 DEF AdvancePhase
<1>16. CASE UNCHANGED vars
  BY <1>16 DEF vars
<1>. QED
  BY <1>1, <1>2, <1>3, <1>4, <1>5, <1>6, <1>7, <1>8,
     <1>9, <1>10, <1>11, <1>12, <1>13, <1>14, <1>15, <1>16 DEF Next, HubCall

\* TakeSeat seats a player since Locked says that its owner is one.
LEMMA NextRoster ==
  TypeOK /\ Calling /\ Roster /\ Locked /\ [Next]_vars => Roster'
<1>. SUFFICES ASSUME TypeOK, Calling, Roster, Locked, [Next]_vars PROVE Roster'
  OBVIOUS
<1>. USE OwnersAreUsers, NoneIsNothing DEF TypeOK, Calling, Roster, Locked,
      Phases, Steps, Entering, rooms, tables, calls, Idle, Goto, Call, Return, Seats
<1>1. ASSUME NEW c \in Connections, NEW r \in Rooms, CreateRoom(c, r) PROVE Roster'
  BY <1>1 DEF CreateRoom
<1>2. ASSUME NEW c \in Connections, NEW r \in Rooms, JoinAsNewPlayer(c, r) PROVE Roster'
  BY <1>2 DEF JoinAsNewPlayer, MayEnter
<1>3. ASSUME NEW c \in Connections, NEW r \in Rooms, Rejoin(c, r) PROVE Roster'
  BY <1>3 DEF Rejoin, MayEnter
<1>4. ASSUME NEW c \in Connections, TakeFromMap(c) PROVE Roster'
  BY <1>4 DEF TakeFromMap
<1>5. ASSUME NEW c \in Connections, TakeFromIndex(c) PROVE Roster'
  BY <1>5 DEF TakeFromIndex
<1>6. ASSUME NEW c \in Connections, TakeSeat(c) PROVE Roster'
  BY <1>6 DEF TakeSeat
<1>7. ASSUME NEW c \in Connections, JoinGroup(c) PROVE Roster'
  BY <1>7 DEF JoinGroup
<1>8. ASSUME NEW c \in Connections, ReturnToLobby(c) PROVE Roster'
  BY <1>8 DEF ReturnToLobby, Leave
<1>9. ASSUME NEW c \in Connections, OnDisconnected(c) PROVE Roster'
  BY <1>9 DEF OnDisconnected, Leave
<1>10. ASSUME NEW c \in Connections, PlayAgain(c) PROVE Roster'
  BY <1>10 DEF PlayAgain
<1>11. ASSUME NEW c \in Connections, RemoveFromMap(c) PROVE Roster'
  BY <1>11 DEF RemoveFromMap
<1>12. ASSUME NEW c \in Connections, RemoveFromIndex(c) PROVE Roster'
  BY <1>12 DEF RemoveFromIndex
<1>13. ASSUME NEW c \in Connections, ShowDisconnected(c) PROVE Roster'
  BY <1>13 DEF ShowDisconnected
<1>14. ASSUME NEW c \in Connections, LeaveGroup(c) PROVE Roster'
  BY <1>14 DEF LeaveGroup
<1>15. ASSUME NEW r \in Rooms, AdvancePhase(r) PROVE Roster'
  BY <1>15 DEF AdvancePhase
<1>16. CASE UNCHANGED vars
  BY <1>16 DEF vars
<1>. QED
  BY <1>1, <1>2, <1>3, <1>4, <1>5, <1>6, <1>7, <1>8,
     <1>9, <1>10, <1>11, <1>12, <1>13, <1>14, <1>15, <1>16 DEF Next, HubCall

LEMMA NextCalling ==
  TypeOK /\ Calling /\ [Next]_vars => Calling'
<1>. SUFFICES ASSUME TypeOK, Calling, [Next]_vars PROVE Calling'
  OBVIOUS
<1>. USE OwnersAreUsers, NoneIsNothing DEF TypeOK, Calling,
      Phases, Steps, Entering, rooms, tables, calls, Idle, Goto, Call, Return, Seats
<1>1. ASSUME NEW c \in Connections, NEW r \in Rooms, CreateRoom(c, r) PROVE Calling'
  BY <1>1 DEF CreateRoom
<1>2. ASSUME NEW c \in Connections, NEW r \in Rooms, JoinAsNewPlayer(c, r) PROVE Calling'
  BY <1>2 DEF JoinAsNewPlayer, MayEnter
<1>3. ASSUME NEW c \in Connections, NEW r \in Rooms, Rejoin(c, r) PROVE Calling'
  BY <1>3 DEF Rejoin, MayEnter
<1>4. ASSUME NEW c \in Connections, TakeFromMap(c) PROVE Calling'
  BY <1>4 DEF TakeFromMap
<1>5. ASSUME NEW c \in Connections, TakeFromIndex(c) PROVE Calling'
  BY <1>5 DEF TakeFromIndex
<1>6. ASSUME NEW c \in Connections, TakeSeat(c) PROVE Calling'
  BY <1>6 DEF TakeSeat
<1>7. ASSUME NEW c \in Connections, JoinGroup(c) PROVE Calling'
  BY <1>7 DEF JoinGroup
<1>8. ASSUME NEW c \in Connections, ReturnToLobby(c) PROVE Calling'
  BY <1>8 DEF ReturnToLobby, Leave
<1>9. ASSUME NEW c \in Connections, OnDisconnected(c) PROVE Calling'
  BY <1>9 DEF OnDisconnected, Leave
<1>10. ASSUME NEW c \in Connections, PlayAgain(c) PROVE Calling'
  BY <1>10 DEF PlayAgain
<1>11. ASSUME NEW c \in Connections, RemoveFromMap(c) PROVE Calling'
  BY <1>11 DEF RemoveFromMap
<1>12. ASSUME NEW c \in Connections, RemoveFromIndex(c) PROVE Calling'
  BY <1>12 DEF RemoveFromIndex
<1>13. ASSUME NEW c \in Connections, ShowDisconnected(c) PROVE Calling'
  BY <1>13 DEF ShowDisconnected
<1>14. ASSUME NEW c \in Connections, LeaveGroup(c) PROVE Calling'
  BY <1>14 DEF LeaveGroup
<1>15. ASSUME NEW r \in Rooms, AdvancePhase(r) PROVE Calling'
  BY <1>15 DEF AdvancePhase
<1>16. CASE UNCHANGED vars
  BY <1>16 DEF vars
<1>. QED
  BY <1>1, <1>2, <1>3, <1>4, <1>5, <1>6, <1>7, <1>8,
     <1>9, <1>10, <1>11, <1>12, <1>13, <1>14, <1>15, <1>16 DEF Next, HubCall

\* No step of another connection adds a seat of the owner while the lock is held:
\* newcomers and other rejoins need the lock, and the room cannot be made again.
LEMMA NextLocked ==
  TypeOK /\ Calling /\ Roster /\ Locked /\ [Next]_vars => Locked'
<1>. SUFFICES ASSUME TypeOK, Calling, Roster, Locked, [Next]_vars PROVE Locked'
  OBVIOUS
<1>. USE OwnersAreUsers, NoneIsNothing DEF TypeOK, Calling, Roster, Locked,
      Phases, Steps, Entering, rooms, tables, calls, Idle, Goto, Call, Return, Seats
<1>1. ASSUME NEW c \in Connections, NEW r \in Rooms, CreateRoom(c, r) PROVE Locked'
  BY <1>1 DEF CreateRoom
<1>2. ASSUME NEW c \in Connections, NEW r \in Rooms, JoinAsNewPlayer(c, r) PROVE Locked'
  BY <1>2 DEF JoinAsNewPlayer, MayEnter
<1>3. ASSUME NEW c \in Connections, NEW r \in Rooms, Rejoin(c, r) PROVE Locked'
  BY <1>3 DEF Rejoin, MayEnter
<1>4. ASSUME NEW c \in Connections, TakeFromMap(c) PROVE Locked'
  BY <1>4 DEF TakeFromMap
<1>5. ASSUME NEW c \in Connections, TakeFromIndex(c) PROVE Locked'
  BY <1>5 DEF TakeFromIndex
<1>6. ASSUME NEW c \in Connections, TakeSeat(c) PROVE Locked'
  BY <1>6 DEF TakeSeat
<1>7. ASSUME NEW c \in Connections, JoinGroup(c) PROVE Locked'
  BY <1>7 DEF JoinGroup
<1>8. ASSUME NEW c \in Connections, ReturnToLobby(c) PROVE Locked'
  BY <1>8 DEF ReturnToLobby, Leave
<1>9. ASSUME NEW c \in Connections, OnDisconnected(c) PROVE Locked'
  BY <1>9 DEF OnDisconnected, Leave
<1>10. ASSUME NEW c \in Connections, PlayAgain(c) PROVE Locked'
  BY <1>10 DEF PlayAgain
<1>11. ASSUME NEW c \in Connections, RemoveFromMap(c) PROVE Locked'
  BY <1>11 DEF RemoveFromMap
<1>12. ASSUME NEW c \in Connections, RemoveFromIndex(c) PROVE Locked'
  BY <1>12 DEF RemoveFromIndex
<1>13. ASSUME NEW c \in Connections, ShowDisconnected(c) PROVE Locked'
  BY <1>13 DEF ShowDisconnected
<1>14. ASSUME NEW c \in Connections, LeaveGroup(c) PROVE Locked'
  BY <1>14 DEF LeaveGroup
<1>15. ASSUME NEW r \in Rooms, AdvancePhase(r) PROVE Locked'
  BY <1>15 DEF AdvancePhase
<1>16. CASE UNCHANGED vars
  BY <1>16 DEF vars
<1>. QED
  BY <1>1, <1>2, <1>3, <1>4, <1>5, <1>6, <1>7, <1>8,
     <1>9, <1>10, <1>11, <1>12, <1>13, <1>14, <1>15, <1>16 DEF Next, HubCall

\* ShowDisconnected hides a player only when no seat is left.
LEMMA NextShown ==
  TypeOK /\ Calling /\ Roster /\ AllShown /\ [Next]_vars => AllShown'
<1>. SUFFICES ASSUME TypeOK, Calling, Roster, AllShown, [Next]_vars PROVE AllShown'
  OBVIOUS
<1>. USE OwnersAreUsers, NoneIsNothing DEF TypeOK, Calling, Roster, AllShown,
      Phases, Steps, Entering, rooms, tables, calls, Idle, Goto, Call, Return, Seats
<1>1. ASSUME NEW c \in Connections, NEW r \in Rooms, CreateRoom(c, r) PROVE AllShown'
  BY <1>1 DEF CreateRoom
<1>2. ASSUME NEW c \in Connections, NEW r \in Rooms, JoinAsNewPlayer(c, r) PROVE AllShown'
  BY <1>2 DEF JoinAsNewPlayer, MayEnter
<1>3. ASSUME NEW c \in Connections, NEW r \in Rooms, Rejoin(c, r) PROVE AllShown'
  BY <1>3 DEF Rejoin, MayEnter
<1>4. ASSUME NEW c \in Connections, TakeFromMap(c) PROVE AllShown'
  BY <1>4 DEF TakeFromMap
<1>5. ASSUME NEW c \in Connections, TakeFromIndex(c) PROVE AllShown'
  BY <1>5 DEF TakeFromIndex
<1>6. ASSUME NEW c \in Connections, TakeSeat(c) PROVE AllShown'
  BY <1>6 DEF TakeSeat
<1>7. ASSUME NEW c \in Connections, JoinGroup(c) PROVE AllShown'
  BY <1>7 DEF JoinGroup
<1>8. ASSUME NEW c \in Connections, ReturnToLobby(c) PROVE AllShown'
  BY <1>8 DEF ReturnToLobby, Leave
<1>9. ASSUME NEW c \in Connections, OnDisconnected(c) PROVE AllShown'
  BY <1>9 DEF OnDisconnected, Leave
<1>10. ASSUME NEW c \in Connections, PlayAgain(c) PROVE AllShown'
  BY <1>10 DEF PlayAgain
<1>11. ASSUME NEW c \in Connections, RemoveFromMap(c) PROVE AllShown'
  BY <1>11 DEF RemoveFromMap
<1>12. ASSUME NEW c \in Connections, RemoveFromIndex(c) PROVE AllShown'
  BY <1>12 DEF RemoveFromIndex
<1>13. ASSUME NEW c \in Connections, ShowDisconnected(c) PROVE AllShown'
  BY <1>13 DEF ShowDisconnected
<1>14. ASSUME NEW c \in Connections, LeaveGroup(c) PROVE AllShown'
  BY <1>14 DEF LeaveGroup
<1>15. ASSUME NEW r \in Rooms, AdvancePhase(r) PROVE AllShown'
  BY <1>15 DEF AdvancePhase
<1>16. CASE UNCHANGED vars
  BY <1>16 DEF vars
<1>. QED
  BY <1>1, <1>2, <1>3, <1>4, <1>5, <1>6, <1>7, <1>8,
     <1>9, <1>10, <1>11, <1>12, <1>13, <1>14, <1>15, <1>16 DEF Next, HubCall

\* A newcomer is no player yet, and whoever rejoins has emptied its list.
LEMMA NextOneSeat ==
  TypeOK /\ Calling /\ Roster /\ Locked /\ OneSeatPerPlayer /\ [Next]_vars => OneSeatPerPlayer'
<1>. SUFFICES ASSUME TypeOK, Calling, Roster, Locked, OneSeatPerPlayer, [Next]_vars PROVE OneSeatPerPlayer'
  OBVIOUS
<1>. USE OwnersAreUsers, NoneIsNothing DEF TypeOK, Calling, Roster, Locked, OneSeatPerPlayer,
      Phases, Steps, Entering, rooms, tables, calls, Idle, Goto, Call, Return, Seats
<1>1. ASSUME NEW c \in Connections, NEW r \in Rooms, CreateRoom(c, r) PROVE OneSeatPerPlayer'
  BY <1>1 DEF CreateRoom
<1>2. ASSUME NEW c \in Connections, NEW r \in Rooms, JoinAsNewPlayer(c, r) PROVE OneSeatPerPlayer'
  BY <1>2 DEF JoinAsNewPlayer, MayEnter
<1>3. ASSUME NEW c \in Connections, NEW r \in Rooms, Rejoin(c, r) PROVE OneSeatPerPlayer'
  BY <1>3 DEF Rejoin, MayEnter
<1>4. ASSUME NEW c \in Connections, TakeFromMap(c) PROVE OneSeatPerPlayer'
  BY <1>4 DEF TakeFromMap
<1>5. ASSUME NEW c \in Connections, TakeFromIndex(c) PROVE OneSeatPerPlayer'
  BY <1>5 DEF TakeFromIndex
<1>6. ASSUME NEW c \in Connections, TakeSeat(c) PROVE OneSeatPerPlayer'
  BY <1>6 DEF TakeSeat
<1>7. ASSUME NEW c \in Connections, JoinGroup(c) PROVE OneSeatPerPlayer'
  BY <1>7 DEF JoinGroup
<1>8. ASSUME NEW c \in Connections, ReturnToLobby(c) PROVE OneSeatPerPlayer'
  BY <1>8 DEF ReturnToLobby, Leave
<1>9. ASSUME NEW c \in Connections, OnDisconnected(c) PROVE OneSeatPerPlayer'
  BY <1>9 DEF OnDisconnected, Leave
<1>10. ASSUME NEW c \in Connections, PlayAgain(c) PROVE OneSeatPerPlayer'
  BY <1>10 DEF PlayAgain
<1>11. ASSUME NEW c \in Connections, RemoveFromMap(c) PROVE OneSeatPerPlayer'
  BY <1>11 DEF RemoveFromMap
<1>12. ASSUME NEW c \in Connections, RemoveFromIndex(c) PROVE OneSeatPerPlayer'
  BY <1>12 DEF RemoveFromIndex
<1>13. ASSUME NEW c \in Connections, ShowDisconnected(c) PROVE OneSeatPerPlayer'
  BY <1>13 DEF ShowDisconnected
<1>14. ASSUME NEW c \in Connections, LeaveGroup(c) PROVE OneSeatPerPlayer'
  BY <1>14 DEF LeaveGroup
<1>15. ASSUME NEW r \in Rooms, AdvancePhase(r) PROVE OneSeatPerPlayer'
  BY <1>15 DEF AdvancePhase
<1>16. CASE UNCHANGED vars
  BY <1>16 DEF vars
<1>. QED
  BY <1>1, <1>2, <1>3, <1>4, <1>5, <1>6, <1>7, <1>8,
     <1>9, <1>10, <1>11, <1>12, <1>13, <1>14, <1>15, <1>16 DEF Next, HubCall

LEMMA NextLeaving ==
  TypeOK /\ Calling /\ Leaving /\ [Next]_vars => Leaving'
<1>. SUFFICES ASSUME TypeOK, Calling, Leaving, [Next]_vars PROVE Leaving'
  OBVIOUS
<1>. USE OwnersAreUsers, NoneIsNothing DEF TypeOK, Calling, Leaving,
      Phases, Steps, Entering, rooms, tables, calls, Idle, Goto, Call, Return, Seats
<1>1. ASSUME NEW c \in Connections, NEW r \in Rooms, CreateRoom(c, r) PROVE Leaving'
  BY <1>1 DEF CreateRoom
<1>2. ASSUME NEW c \in Connections, NEW r \in Rooms, JoinAsNewPlayer(c, r) PROVE Leaving'
  BY <1>2 DEF JoinAsNewPlayer, MayEnter
<1>3. ASSUME NEW c \in Connections, NEW r \in Rooms, Rejoin(c, r) PROVE Leaving'
  BY <1>3 DEF Rejoin, MayEnter
<1>4. ASSUME NEW c \in Connections, TakeFromMap(c) PROVE Leaving'
  BY <1>4 DEF TakeFromMap
<1>5. ASSUME NEW c \in Connections, TakeFromIndex(c) PROVE Leaving'
  BY <1>5 DEF TakeFromIndex
<1>6. ASSUME NEW c \in Connections, TakeSeat(c) PROVE Leaving'
  BY <1>6 DEF TakeSeat
<1>7. ASSUME NEW c \in Connections, JoinGroup(c) PROVE Leaving'
  BY <1>7 DEF JoinGroup
<1>8. ASSUME NEW c \in Connections, ReturnToLobby(c) PROVE Leaving'
  BY <1>8 DEF ReturnToLobby, Leave
<1>9. ASSUME NEW c \in Connections, OnDisconnected(c) PROVE Leaving'
  BY <1>9 DEF OnDisconnected, Leave
<1>10. ASSUME NEW c \in Connections, PlayAgain(c) PROVE Leaving'
  BY <1>10 DEF PlayAgain
<1>11. ASSUME NEW c \in Connections, RemoveFromMap(c) PROVE Leaving'
  BY <1>11 DEF RemoveFromMap
<1>12. ASSUME NEW c \in Connections, RemoveFromIndex(c) PROVE Leaving'
  BY <1>12 DEF RemoveFromIndex
<1>13. ASSUME NEW c \in Connections, ShowDisconnected(c) PROVE Leaving'
  BY <1>13 DEF ShowDisconnected
<1>14. ASSUME NEW c \in Connections, LeaveGroup(c) PROVE Leaving'
  BY <1>14 DEF LeaveGroup
<1>15. ASSUME NEW r \in Rooms, AdvancePhase(r) PROVE Leaving'
  BY <1>15 DEF AdvancePhase
<1>16. CASE UNCHANGED vars
  BY <1>16 DEF vars
<1>. QED
  BY <1>1, <1>2, <1>3, <1>4, <1>5, <1>6, <1>7, <1>8,
     <1>9, <1>10, <1>11, <1>12, <1>13, <1>14, <1>15, <1>16 DEF Next, HubCall

\* Whoever loses its seat is either leaving by itself, or the victim of a rejoin.
LEMMA NextIndexed ==
  TypeOK /\ Calling /\ Roster /\ Leaving /\ IndexedIsSeated /\ [Next]_vars => IndexedIsSeated'
<1>. SUFFICES ASSUME TypeOK, Calling, Roster, Leaving, IndexedIsSeated, [Next]_vars PROVE IndexedIsSeated'
  OBVIOUS
<1>. USE OwnersAreUsers, NoneIsNothing DEF TypeOK, Calling, Roster, Leaving, IndexedIsSeated, BeingReplaced,
      Phases, Steps, Entering, rooms, tables, calls, Idle, Goto, Call, Return, Seats
<1>1. ASSUME NEW c \in Connections, NEW r \in Rooms, CreateRoom(c, r) PROVE IndexedIsSeated'
  BY <1>1 DEF CreateRoom
<1>2. ASSUME NEW c \in Connections, NEW r \in Rooms, JoinAsNewPlayer(c, r) PROVE IndexedIsSeated'
  BY <1>2 DEF JoinAsNewPlayer, MayEnter
<1>3. ASSUME NEW c \in Connections, NEW r \in Rooms, Rejoin(c, r) PROVE IndexedIsSeated'
  BY <1>3 DEF Rejoin, MayEnter
<1>4. ASSUME NEW c \in Connections, TakeFromMap(c) PROVE IndexedIsSeated'
  BY <1>4 DEF TakeFromMap
<1>5. ASSUME NEW c \in Connections, TakeFromIndex(c) PROVE IndexedIsSeated'
  BY <1>5 DEF TakeFromIndex
<1>6. ASSUME NEW c \in Connections, TakeSeat(c) PROVE IndexedIsSeated'
  BY <1>6 DEF TakeSeat
<1>7. ASSUME NEW c \in Connections, JoinGroup(c) PROVE IndexedIsSeated'
  BY <1>7 DEF JoinGroup
<1>8. ASSUME NEW c \in Connections, ReturnToLobby(c) PROVE IndexedIsSeated'
  BY <1>8 DEF ReturnToLobby, Leave
<1>9. ASSUME NEW c \in Connections, OnDisconnected(c) PROVE IndexedIsSeated'
  BY <1>9 DEF OnDisconnected, Leave
<1>10. ASSUME NEW c \in Connections, PlayAgain(c) PROVE IndexedIsSeated'
  BY <1>10 DEF PlayAgain
<1>11. ASSUME NEW c \in Connections, RemoveFromMap(c) PROVE IndexedIsSeated'
  BY <1>11 DEF RemoveFromMap
<1>12. ASSUME NEW c \in Connections, RemoveFromIndex(c) PROVE IndexedIsSeated'
  BY <1>12 DEF RemoveFromIndex
<1>13. ASSUME NEW c \in Connections, ShowDisconnected(c) PROVE IndexedIsSeated'
  BY <1>13 DEF ShowDisconnected
<1>14. ASSUME NEW c \in Connections, LeaveGroup(c) PROVE IndexedIsSeated'
  BY <1>14 DEF LeaveGroup
<1>15. ASSUME NEW r \in Rooms, AdvancePhase(r) PROVE IndexedIsSeated'
  BY <1>15 DEF AdvancePhase
<1>16. CASE UNCHANGED vars
  BY <1>16 DEF vars
<1>. QED
  BY <1>1, <1>2, <1>3, <1>4, <1>5, <1>6, <1>7, <1>8,
     <1>9, <1>10, <1>11, <1>12, <1>13, <1>14, <1>15, <1>16 DEF Next, HubCall

\* Only LeaveGroup leaves a group, and by then the connection is out of the map.
LEMMA NextGrouped ==
  TypeOK /\ Calling /\ Leaving /\ Grouped /\ [Next]_vars => Grouped'
<1>. SUFFICES ASSUME TypeOK, Calling, Leaving, Grouped, [Next]_vars PROVE Grouped'
  OBVIOUS
<1>. USE OwnersAreUsers, NoneIsNothing DEF TypeOK, Calling, Leaving, Grouped,
      Phases, Steps, Entering, rooms, tables, calls, Idle, Goto, Call, Return, Seats
<1>1. ASSUME NEW c \in Connections, NEW r \in Rooms, CreateRoom(c, r) PROVE Grouped'
  BY <1>1 DEF CreateRoom
<1>2. ASSUME NEW c \in Connections, NEW r \in Rooms, JoinAsNewPlayer(c, r) PROVE Grouped'
  BY <1>2 DEF JoinAsNewPlayer, MayEnter
<1>3. ASSUME NEW c \in Connections, NEW r \in Rooms, Rejoin(c, r) PROVE Grouped'
  BY <1>3 DEF Rejoin, MayEnter
<1>4. ASSUME NEW c \in Connections, TakeFromMap(c) PROVE Grouped'
  BY <1>4 DEF TakeFromMap
<1>5. ASSUME NEW c \in Connections, TakeFromIndex(c) PROVE Grouped'
  BY <1>5 DEF TakeFromIndex
<1>6. ASSUME NEW c \in Connections, TakeSeat(c) PROVE Grouped'
  BY <1>6 DEF TakeSeat
<1>7. ASSUME NEW c \in Connections, JoinGroup(c) PROVE Grouped'
  BY <1>7 DEF JoinGroup
<1>8. ASSUME NEW c \in Connections, ReturnToLobby(c) PROVE Grouped'
  BY <1>8 DEF ReturnToLobby, Leave
<1>9. ASSUME NEW c \in Connections, OnDisconnected(c) PROVE Grouped'
  BY <1>9 DEF OnDisconnected, Leave
<1>10. ASSUME NEW c \in Connections, PlayAgain(c) PROVE Grouped'
  BY <1>10 DEF PlayAgain
<1>11. ASSUME NEW c \in Connections, RemoveFromMap(c) PROVE Grouped'
  BY <1>11 DEF RemoveFromMap
<1>12. ASSUME NEW c \in Connections, RemoveFromIndex(c) PROVE Grouped'
  BY <1>12 DEF RemoveFromIndex
<1>13. ASSUME NEW c \in Connections, ShowDisconnected(c) PROVE Grouped'
  BY <1>13 DEF ShowDisconnected
<1>14. ASSUME NEW c \in Connections, LeaveGroup(c) PROVE Grouped'
  BY <1>14 DEF LeaveGroup
<1>15. ASSUME NEW r \in Rooms, AdvancePhase(r) PROVE Grouped'
  BY <1>15 DEF AdvancePhase
<1>16. CASE UNCHANGED vars
  BY <1>16 DEF vars
<1>. QED
  BY <1>1, <1>2, <1>3, <1>4, <1>5, <1>6, <1>7, <1>8,
     <1>9, <1>10, <1>11, <1>12, <1>13, <1>14, <1>15, <1>16 DEF Next, HubCall

Inv ==
  /\ TypeOK /\ Calling /\ Roster /\ Locked /\ AllShown
  /\ OneSeatPerPlayer /\ Leaving /\ IndexedIsSeated /\ Grouped

LEMMA InitInv == Init => Inv
<1>. SUFFICES ASSUME Init PROVE Inv
  OBVIOUS
<1>1. TypeOK
  BY DEF Init, TypeOK, Steps
<1>2. Calling /\ Roster /\ Locked /\ Leaving
  BY DEF Init, Calling, Roster, Locked, Leaving, Entering
<1>3. AllShown /\ OneSeatPerPlayer /\ IndexedIsSeated /\ Grouped
  BY DEF Init, AllShown, OneSeatPerPlayer, IndexedIsSeated, Grouped
<1>. QED
  BY <1>1, <1>2, <1>3 DEF Inv

LEMMA NextInv == Inv /\ [Next]_vars => Inv'
BY NextTypeOK, NextCalling, NextRoster, NextLocked, NextShown, NextOneSeat,
   NextLeaving, NextIndexed, NextGrouped DEF Inv

LEMMA InvHolds == Spec => []Inv
BY InitInv, NextInv, PTL DEF Spec

\* Every reachable state of rooms, tables and hub calls is well formed.
THEOREM TypeCorrect == Spec => []TypeOK
<1>1. Inv => TypeOK
  BY DEF Inv
<1>. QED
  BY <1>1, InvHolds, PTL

\* However the removal of a player's old connections crosses the entry of new
\* ones, a player who is seated is shown as connected.
THEOREM ShownWhileSeatedHolds == Spec => []ShownWhileSeated
<1>1. Inv => ShownWhileSeated
  BY DEF Inv, AllShown, ShownWhileSeated
<1>. QED
  BY <1>1, InvHolds, PTL

\* However many connections a player opens, one of them is in a room's map.
THEOREM OneSeatPerPlayerHolds == Spec => []OneSeatPerPlayer
<1>1. Inv => OneSeatPerPlayer
  BY DEF Inv
<1>. QED
  BY <1>1, InvHolds, PTL

\* An index entry that nobody is removing names a room in whose map its open
\* connection is.
THEOREM IndexedIsSeatedHolds == Spec => []IndexedIsSeated
<1>1. Inv => IndexedIsSeated
  BY DEF Inv
<1>. QED
  BY <1>1, InvHolds, PTL

\* A seated connection that waits for nothing is in the group of its room.
THEOREM SeatsGetBroadcastsHolds == Spec => []SeatsGetBroadcasts
<1>1. Inv => SeatsGetBroadcasts
  BY DEF Inv, Grouped, SeatsGetBroadcasts, Idle, Entering
<1>. QED
  BY <1>1, InvHolds, PTL

(***************************************************************************)
(* Memories and messages of the board                                      *)
(***************************************************************************)

(* Types: the handlers and their broadcasts *)

RecallTyped ==
  /\ memory \in [Team -> [Hexes -> Entries \cup {Nothing}]]
  /\ sightings \in [Team -> Sightings \cup {Nothing}]
  /\ witnessed \in [Hexes -> Ages \cup {Nothing}] /\ spotted \in [Hexes -> Ages \cup {Nothing}]

RoomTyped ==
  /\ grid \in [Hexes -> Cells] /\ at \in [Players -> Hexes]
  /\ beacons \subseteq Team /\ online \subseteq Team

ScreenTyped == board \in [Hexes -> ShownCells] /\ roster \in Rosters

LEMMA TypeParts ==
  ViewTypeOK <=> RoomTyped /\ RecallTyped /\ ScreenTyped
                 /\ pending \in Seq(Snapshots) /\ wire \in Seq(Messages)
BY DEF ViewTypeOK, RoomTyped, RecallTyped, ScreenTyped

LEMMA LeavesType ==
  ASSUME pending \in Seq(Snapshots), RoomTyped',
         NEW kind \in {"state", "players", "tick"}, Leaves(kind)
  PROVE  pending' \in Seq(Snapshots)
<1>1. [kind |-> kind, grid |-> grid', at |-> at', beacons |-> beacons'] \in Snapshots
  BY DEF RoomTyped, Snapshots
<1>. QED  BY <1>1 DEF Leaves

\* What a handler leaves alone when it only changes the room.
LEMMA HandlerType ==
  ASSUME ViewTypeOK, RoomTyped', NEW kind \in {"state", "players", "tick"}, Leaves(kind),
         RecallTyped', wire' \in Seq(Messages), UNCHANGED screen
  PROVE  ViewTypeOK'
<1>1. pending' \in Seq(Snapshots)
  BY LeavesType, TypeParts
<1>2. ScreenTyped'
  BY TypeParts DEF ScreenTyped, screen
<1>3. ViewTypeOK' <=> (RoomTyped /\ RecallTyped /\ ScreenTyped
             /\ pending \in Seq(Snapshots) /\ wire \in Seq(Messages))'
  BY DEF ViewTypeOK, RoomTyped, RecallTyped, ScreenTyped
<1>. QED  BY <1>1, <1>2, <1>3

LEMMA RecallStays ==
  ASSUME ViewTypeOK, UNCHANGED <<memory, sightings, witnessed, spotted>> PROVE RecallTyped'
BY DEF ViewTypeOK, RecallTyped

LEMMA CellChangesType ==
  ASSUME ViewTypeOK, NEW h \in Hexes, NEW cell \in Cells, CellChanges(h, cell)
  PROVE  ViewTypeOK'
<1>1. RoomTyped'
  BY DEF CellChanges, ViewTypeOK, RoomTyped
<1>2. RecallTyped' /\ wire' \in Seq(Messages) /\ UNCHANGED screen /\ Leaves("state")
  BY RecallStays DEF CellChanges, recall, ViewTypeOK
<1>. QED  BY <1>1, <1>2, HandlerType

LEMMA CellsChangeType ==
  ASSUME ViewTypeOK,
         \/ \E p \in Players : Conquest(p)
         \/ \E h \in Hexes : TroopsChange(h) \/ FortChanges(h)
  PROVE  ViewTypeOK'
<1>0. grid \in [Hexes -> Cells] /\ at \in [Players -> Hexes]
  BY DEF ViewTypeOK
<1>1. ASSUME NEW h \in Hexes, TroopsChange(h) PROVE ViewTypeOK'
  <2>1. PICK n \in 1..MaxTroops : CellChanges(h, [grid[h] EXCEPT !.troops = n])
    BY <1>1 DEF TroopsChange
  <2>2. [grid[h] EXCEPT !.troops = n] \in Cells
    BY <1>0 DEF Cells
  <2>. QED  BY <2>1, <2>2, CellChangesType
<1>2. ASSUME NEW h \in Hexes, FortChanges(h) PROVE ViewTypeOK'
  <2>1. [grid[h] EXCEPT !.fort = ~ @] \in Cells
    BY <1>0 DEF Cells
  <2>. QED  BY <1>2, <2>1, CellChangesType DEF FortChanges
<1>3. ASSUME NEW p \in Players, Conquest(p) PROVE ViewTypeOK'
  <2>1. at[p] \in Hexes /\ SideOf(p) \in {Us, Them}
    BY <1>0 DEF SideOf
  <2>2. 1 \in 0..MaxTroops
    BY TroopsFit
  <2>3. [grid[at[p]] EXCEPT !.side = SideOf(p), !.troops = 1] \in Cells
    BY <1>0, <2>1, <2>2 DEF Cells
  <2>. QED  BY <1>3, <2>1, <2>3, CellChangesType DEF Conquest
<1>. QED  BY <1>1, <1>2, <1>3

LEMMA RoomChangesType ==
  ASSUME ViewTypeOK, RoomChanges \/ RegenerationTick PROVE ViewTypeOK'
<1>0. /\ RoomTyped /\ RecallTyped /\ wire \in Seq(Messages)
      /\ pending \in Seq(Snapshots) /\ ScreenTyped
  BY TypeParts
<1> USE DEF recall, room
<1>1. ASSUME NEW p \in Players, NEW h \in Hexes, Walk(p, h) PROVE ViewTypeOK'
  <2>1. RoomTyped'
    BY <1>0, <1>1 DEF Walk, RoomTyped
  <2>. QED  BY <1>0, <1>1, <2>1, RecallStays, HandlerType DEF Walk
<1>2. ASSUME NEW p \in Players, Report(p) PROVE ViewTypeOK'
  <2>1. RoomTyped'
    BY <1>0, <1>2 DEF Report, RoomTyped
  <2>. QED  BY <1>0, <1>2, <2>1, RecallStays, HandlerType DEF Report
<1>3. ASSUME NEW p \in Team, SwitchBeacon(p) PROVE ViewTypeOK'
  <2>1. RoomTyped'
    BY <1>0, <1>3 DEF SwitchBeacon, RoomTyped
  <2>. QED  BY <1>0, <1>3, <2>1, RecallStays, HandlerType DEF SwitchBeacon
<1>4. ASSUME NEW p \in Team, ShareBeaconIntel(p) PROVE ViewTypeOK'
  <2>1. RoomTyped'
    BY <1>0, <1>4 DEF ShareBeaconIntel, RoomTyped
  <2>2. \A h \in Hexes : [cell |-> grid[h], age |-> 0] \in Entries
    BY <1>0, MemoryLasts DEF RoomTyped, Entries, Ages
  <2>3. memory' \in [Team -> [Hexes -> Entries \cup {Nothing}]]
    BY <1>0, <1>4, <2>2 DEF ShareBeaconIntel, RecallTyped
  <2>4. RecallTyped'
    BY <1>0, <1>4, <2>3 DEF ShareBeaconIntel, RecallTyped
  <2>. QED  BY <1>0, <1>4, <2>1, <2>4, HandlerType DEF ShareBeaconIntel
<1>5. ASSUME NEW p \in Team, Disconnect(p) PROVE ViewTypeOK'
  <2>1. RoomTyped'
    BY <1>0, <1>5 DEF Disconnect, RoomTyped
  <2>2. wire' \in Seq(Messages)
    <3>1. <<>> \in Seq(Messages)
      OBVIOUS
    <3>. QED  BY <1>0, <1>5, <3>1 DEF Disconnect
  <2>. QED  BY <1>0, <1>5, <2>1, <2>2, RecallStays, HandlerType DEF Disconnect
<1>6. ASSUME NEW p \in Team, RejoinRoom(p) PROVE ViewTypeOK'
  <2>1. RoomTyped'
    BY <1>0, <1>6 DEF RejoinRoom, RoomTyped
  <2>. QED  BY <1>0, <1>6, <2>1, RecallStays, HandlerType DEF RejoinRoom
<1>7. CASE BattleEvent
  <2> DEFINE m == RawMessage([grid |-> grid, at |-> at, beacons |-> beacons])
  <2>1. m \in StateMessages
    BY <1>0 DEF RawMessage, StateMessages, ShownCells, Cells, RoomTyped
  <2>2. m \in Messages
    BY <2>1 DEF Messages
  <2>3. wire' = Append(wire, m) /\ UNCHANGED <<room, recall, pending, screen>>
    BY <1>7 DEF BattleEvent
  <2> HIDE DEF m
  <2>4. wire' \in Seq(Messages)
    BY <1>0, <2>2, <2>3
  <2>. QED  BY <1>0, <2>3, <2>4 DEF ViewTypeOK, RoomTyped, RecallTyped, ScreenTyped, screen
<1>8. CASE RegenerationTick
  <2>1. RoomTyped'
    BY <1>0, <1>8 DEF RegenerationTick, RoomTyped
  <2>. QED  BY <1>0, <1>8, <2>1, RecallStays, HandlerType DEF RegenerationTick
<1>. QED  BY <1>1, <1>2, <1>3, <1>4, <1>5, <1>6, <1>7, <1>8, CellsChangeType DEF RoomChanges

----------------------------------------------------------------------------
(* Types: what the hub remembers, and what it sends *)

LEMMA UpdateMemoryType ==
  ASSUME RecallTyped, NEW s \in Snapshots, NEW viewers, UpdateMemory(s, viewers)
  PROVE  RecallTyped'
<1>0. s.grid \in [Hexes -> Cells] /\ s.at \in [Players -> Hexes] /\ 0 \in Ages /\ Foe \in Players
  BY MemoryLasts DEF Snapshots, Ages, Players
<1>1. memory' \in [Team -> [Hexes -> Entries \cup {Nothing}]]
  <2>1. \A h \in Hexes : [cell |-> s.grid[h], age |-> 0] \in Entries
    BY <1>0 DEF Entries
  <2>2. \A u \in Team : RememberedHexes(s, viewers, u) \in [Hexes -> Entries \cup {Nothing}]
    BY <2>1 DEF RememberedHexes, RecallTyped
  <2>. QED  BY <2>2 DEF UpdateMemory
<1>2. sightings' \in [Team -> Sightings \cup {Nothing}]
  <2>1. [hex |-> s.at[Foe], age |-> 0] \in Sightings
    BY <1>0 DEF Sightings
  <2>. QED  BY <2>1 DEF UpdateMemory, RecallTyped
<1>3. spotted' \in [Hexes -> Ages \cup {Nothing}]
  BY <1>0 DEF UpdateMemory, RecallTyped
<1>4. witnessed' \in [Hexes -> Ages \cup {Nothing}]
  BY <1>0 DEF UpdateMemory, RecallTyped
<1>. QED  BY <1>1, <1>2, <1>3, <1>4 DEF RecallTyped

LEMMA ProjectedCellType ==
  ASSUME RecallTyped', NEW s \in Snapshots, NEW close, NEW h \in Hexes
  PROVE  ProjectedCell(s, close, h) \in ShownCells
<1>1. s.grid[h] \in Cells /\ Me \in Team
  BY DEF Snapshots, Team
<1>2. Fresh(memory'[Me][h]) => memory'[Me][h].cell \in Cells
  BY <1>1 DEF Fresh, RecallTyped, Entries
<1>. QED  BY <1>1, <1>2, NothingIsApart DEF ProjectedCell, ShownCells, Cells

LEMMA MessageType ==
  ASSUME RecallTyped', NEW s \in Snapshots
  PROVE  StateMessage(s) \in Messages /\ PlayersMessage(s) \in Messages
<1>1. s.at \in [Players -> Hexes] /\ Foe \in Players /\ Me \in Team
  BY DEF Snapshots, Players, Team
<1>2. HostilePosition(s) \in Hexes \cup {Nothing}
  BY <1>1 DEF HostilePosition, Fresh, RecallTyped, Sightings
<1>3. StateMessage(s) \in StateMessages
  BY <1>1, <1>2, ProjectedCellType DEF StateMessage, StateMessages
<1>4. PlayersMessage(s) \in PlayersMessages
  BY <1>1 DEF PlayersMessage, PlayersMessages
<1>. QED  BY <1>3, <1>4 DEF Messages

\* A broadcast: memories are brought up to date, and one message is sent.
LEMMA BroadcastEffect ==
  ASSUME ViewTypeOK, NEW i, Broadcast(i)
  PROVE  /\ pending[i] \in Snapshots /\ UpdateMemory(pending[i], online) /\ RecallTyped'
         /\ UNCHANGED <<room, screen, bounds>>
         /\ pending' \in Seq(Snapshots)
         /\ \/ wire' = wire
            \/ /\ Me \in online
               /\ \E m \in {StateMessage(pending[i]), PlayersMessage(pending[i])} :
                    m \in Messages /\ wire' = Append(wire, m)
<1>0. pending \in Seq(Snapshots) /\ RecallTyped
  BY TypeParts
<1>1. i \in 1..Len(pending) /\ pending[i] \in Snapshots /\ UpdateMemory(pending[i], online)
  BY <1>0 DEF Broadcast
<1>2. RecallTyped'
  BY <1>0, <1>1, UpdateMemoryType
<1>3. pending' \in Seq(Snapshots)
  <2>1. /\ SubSeq(pending, 1, i - 1) \in Seq(Snapshots)
        /\ SubSeq(pending, i + 1, Len(pending)) \in Seq(Snapshots)
    BY <1>0, <1>1
  <2>2. pending' = SubSeq(pending, 1, i - 1) \o SubSeq(pending, i + 1, Len(pending))
    BY DEF Broadcast, RemoveAt
  <2>. QED  BY <2>1, <2>2
<1>4. StateMessage(pending[i]) \in Messages /\ PlayersMessage(pending[i]) \in Messages
  BY <1>1, <1>2, MessageType
<1>5. \/ wire' = wire
      \/ Me \in online /\ (\/ wire' = Append(wire, StateMessage(pending[i]))
                           \/ wire' = Append(wire, PlayersMessage(pending[i])))
  BY DEF Broadcast
<1>6. UNCHANGED <<room, screen, bounds>>
  BY DEF Broadcast
<1>. QED  BY <1>1, <1>2, <1>3, <1>4, <1>5, <1>6

\* The clock only makes what is known older.
LEMMA OlderAges ==
  /\ \A age \in Ages : Older(age) \in Ages /\ age <= Older(age)
  /\ \A a, b \in Ages : a <= b => Older(a) <= Older(b)
  /\ \A a \in Ages : Older(a) <= Memory => a <= Memory
BY MemoryLasts DEF Ages, Older

LEMMA OlderEntries ==
  /\ \A e \in Entries : OlderEntry(e) \in Entries /\ OlderEntry(e).age = Older(e.age)
  /\ \A e \in Sightings : /\ OlderEntry(e) \in Sightings /\ OlderEntry(e).age = Older(e.age)
                          /\ OlderEntry(e).hex = e.hex
  /\ OlderEntry(Nothing) = Nothing
BY OlderAges, NothingIsApart DEF OlderEntry, Entries, Sightings

LEMMA TimePassesType == ViewTypeOK /\ TimePasses => ViewTypeOK'
<1> SUFFICES ASSUME ViewTypeOK, TimePasses PROVE ViewTypeOK'
  OBVIOUS
<1>1. memory' \in [Team -> [Hexes -> Entries \cup {Nothing}]]
  BY OlderEntries DEF ViewTypeOK, TimePasses
<1>2. sightings' \in [Team -> Sightings \cup {Nothing}]
  BY OlderEntries DEF ViewTypeOK, TimePasses
<1>3. witnessed' \in [Hexes -> Ages \cup {Nothing}] /\ spotted' \in [Hexes -> Ages \cup {Nothing}]
  BY OlderAges DEF ViewTypeOK, TimePasses, OlderAge
<1>. QED  BY <1>1, <1>2, <1>3 DEF ViewTypeOK, TimePasses, room

LEMMA ReceiveType == ViewTypeOK /\ Receive => ViewTypeOK'
<1> SUFFICES ASSUME ViewTypeOK, Receive PROVE ViewTypeOK'
  OBVIOUS
<1>0. wire \in Seq(Messages) /\ wire # <<>> /\ wire' = Tail(wire)
  BY DEF ViewTypeOK, Receive
<1>1. Head(wire) \in Messages /\ wire' \in Seq(Messages)
  BY <1>0
<1>2. board' \in [Hexes -> ShownCells] /\ roster' \in Rosters
  <2> DEFINE m == Head(wire)
  <2>1. RosterOf(m) \in Rosters
    BY <1>1 DEF RosterOf, Rosters, Messages, StateMessages, PlayersMessages
  <2>2. CASE m.kind = "state"
    <3>1. m.cells \in [Hexes -> ShownCells]
      BY <1>1, <2>2 DEF Messages, StateMessages, PlayersMessages
    <3>2. Normalized(m.cells) \in [Hexes -> ShownCells]
      BY <3>1 DEF Normalized, ViewTypeOK
    <3>. QED  BY <2>1, <2>2, <3>2 DEF Receive, OnStateUpdated
  <2>3. CASE m.kind # "state"
    BY <2>1, <2>3 DEF Receive, OnPlayersMoved, ViewTypeOK
  <2>. QED  BY <2>2, <2>3
<1>. QED  BY <1>1, <1>2 DEF ViewTypeOK, Receive, room, recall

LEMMA TypeStep == ViewTypeOK /\ [ViewNext]_viewVars => ViewTypeOK'
<1> SUFFICES ASSUME ViewTypeOK, [ViewNext]_viewVars PROVE ViewTypeOK'
  OBVIOUS
<1>1. ASSUME NEW i \in 1..MaxPending, Broadcast(i) PROVE ViewTypeOK'
  <2>1. /\ RecallTyped' /\ UNCHANGED <<room, screen>> /\ pending' \in Seq(Snapshots)
        /\ wire' = wire \/ \E m \in Messages : wire' = Append(wire, m)
    BY <1>1, BroadcastEffect
  <2>2. wire' \in Seq(Messages)
    <3>1. wire \in Seq(Messages)
      BY DEF ViewTypeOK
    <3>2. CASE \E m \in Messages : wire' = Append(wire, m)
      BY <3>1, <3>2
    <3>. QED  BY <2>1, <3>1, <3>2
  <2>. QED  BY <2>1, <2>2 DEF ViewTypeOK, RecallTyped, room, screen
<1>2. CASE ArrowsFade
  BY <1>2 DEF ArrowsFade, ViewTypeOK, room, recall
<1>3. CASE UNCHANGED viewVars
  BY <1>3 DEF viewVars, ViewTypeOK, room, recall, screen
<1>. QED  BY <1>1, <1>2, <1>3, RoomChangesType, ReceiveType, TimePassesType DEF ViewNext

\* The room, what the hub remembers, its messages and the screen keep their types.
THEOREM ViewTypeCorrect == ViewSpec => []ViewTypeOK
<1>1. ViewInit => ViewTypeOK
  <2> SUFFICES ASSUME ViewInit PROVE ViewTypeOK
    OBVIOUS
  <2>1. grid \in [Hexes -> Cells]
    <3>1. \A h \in Hexes : StartCell(h) \in Cells
      BY BoardIsAMap, TroopsFit DEF StartCell, Cells
    <3>. QED  BY <3>1 DEF ViewInit
  <2>2. at \in [Players -> Hexes] /\ beacons \subseteq Team /\ online \subseteq Team
    BY BoardIsAMap DEF ViewInit
  <2>3. RecallTyped
    BY DEF ViewInit, RecallTyped
  <2>4. pending \in Seq(Snapshots)
    <3>1. [kind |-> "state", grid |-> grid, at |-> at, beacons |-> beacons] \in Snapshots
      BY <2>1, <2>2 DEF Snapshots
    <3>. QED  BY <3>1 DEF ViewInit
  <2>5. wire \in Seq(Messages)
    BY DEF ViewInit
  <2>6. board \in [Hexes -> ShownCells]
    <3>1. [side |-> Nothing, troops |-> 0, fort |-> FALSE, tier |-> "Visible", last |-> Nothing] \in ShownCells
      BY TroopsFit DEF ShownCells
    <3>. QED  BY <3>1 DEF ViewInit
  <2>7. roster \in Rosters
    BY <2>2 DEF ViewInit, Rosters
  <2>. QED  BY <2>1, <2>2, <2>3, <2>4, <2>5, <2>6, <2>7 DEF ViewTypeOK, RecallTyped
<1>. QED  BY <1>1, TypeStep, PTL DEF ViewSpec

----------------------------------------------------------------------------
(* What one of us has seen, all of us remember. *)

\* Only broadcasts, shared intelligence and the clock touch what is remembered.
LEMMA RecallSteps ==
  ASSUME [ViewNext]_viewVars
  PROVE  \/ \E i \in 1..MaxPending : Broadcast(i)
         \/ \E p \in Team : ShareBeaconIntel(p)
         \/ TimePasses
         \/ UNCHANGED recall
BY DEF ViewNext, RoomChanges, Walk, Report, TroopsChange, FortChanges, Conquest, CellChanges,
   SwitchBeacon, RegenerationTick, BattleEvent, Disconnect, RejoinRoom, Receive, ArrowsFade, viewVars

LEMMA TeamRemembersStep ==
  ViewTypeOK /\ TeamRemembers /\ [ViewNext]_viewVars => TeamRemembers'
<1> SUFFICES ASSUME ViewTypeOK, TeamRemembers, [ViewNext]_viewVars, NEW u \in Team, NEW h \in Hexes,
                    witnessed'[h] # Nothing, witnessed'[h] <= Memory
             PROVE  memory'[u][h] # Nothing /\ memory'[u][h].age <= witnessed'[h]
  BY DEF TeamRemembers
<1>0. /\ memory[u][h] \in Entries \cup {Nothing} /\ witnessed[h] \in Ages \cup {Nothing}
      /\ grid[h] \in Cells
  BY DEF ViewTypeOK
<1>1. witnessed[h] # Nothing /\ witnessed[h] <= Memory =>
        memory[u][h] # Nothing /\ memory[u][h].age <= witnessed[h]
  BY DEF TeamRemembers
<1>2. \A cell \in Cells : /\ [cell |-> cell, age |-> 0] # Nothing
                          /\ [cell |-> cell, age |-> 0].age = 0
  <2>1. \A cell \in Cells : [cell |-> cell, age |-> 0] \in Entries
    BY MemoryLasts DEF Entries, Ages
  <2>. QED  BY <2>1, NothingIsApart
<1>3. ASSUME NEW i \in 1..MaxPending, Broadcast(i)
      PROVE  memory'[u][h] # Nothing /\ memory'[u][h].age <= witnessed'[h]
  <2> DEFINE s == pending[i]
             shared == UNION {SharedBy(s, v, u) : v \in online}
             watched == UNION {VisibleTo(s, v) \ BeaconSector(s, v) : v \in online}
  <2>1. s \in Snapshots /\ UpdateMemory(s, online)
    BY <1>3, BroadcastEffect
  <2>2. s.grid[h] \in Cells
    BY <2>1 DEF Snapshots
  <2>3. memory'[u][h] = IF h \in shared THEN [cell |-> s.grid[h], age |-> 0] ELSE memory[u][h]
    BY <2>1 DEF UpdateMemory, RememberedHexes
  <2>4. witnessed'[h] = IF h \in watched /\ Hostile(s.grid, h) THEN 0 ELSE witnessed[h]
    BY <2>1 DEF UpdateMemory
  <2>5. h \in watched /\ Hostile(s.grid, h) => h \in shared
    BY DEF SharedBy
  <2> HIDE DEF shared, watched, s
  <2>6. CASE h \in shared
    <3>1. memory'[u][h] # Nothing /\ memory'[u][h].age = 0
      BY <1>2, <2>2, <2>3, <2>6
    <3>2. witnessed'[h] \in Nat
      BY <1>0, <2>4, MemoryLasts DEF Ages
    <3>. QED  BY <3>1, <3>2
  <2>7. CASE h \notin shared
    BY <1>1, <2>3, <2>4, <2>5, <2>7
  <2>. QED  BY <2>6, <2>7
<1>4. ASSUME NEW p \in Team, ShareBeaconIntel(p)
      PROVE  memory'[u][h] # Nothing /\ memory'[u][h].age <= witnessed'[h]
  <2>1. /\ memory'[u][h] = IF h \in Sector[at[p]] THEN [cell |-> grid[h], age |-> 0] ELSE memory[u][h]
        /\ witnessed' = witnessed
    BY <1>4 DEF ShareBeaconIntel
  <2>2. CASE h \in Sector[at[p]]
    <3>1. memory'[u][h] # Nothing /\ memory'[u][h].age = 0
      BY <1>0, <1>2, <2>1, <2>2
    <3>2. witnessed'[h] \in Nat
      BY <1>0, <2>1, MemoryLasts DEF Ages
    <3>. QED  BY <3>1, <3>2
  <2>3. CASE h \notin Sector[at[p]]
    BY <1>1, <2>1, <2>3
  <2>. QED  BY <2>2, <2>3
<1>5. CASE TimePasses
  <2>1. memory'[u][h] = OlderEntry(memory[u][h]) /\ witnessed'[h] = OlderAge(witnessed[h])
    BY <1>5 DEF TimePasses
  <2>2. witnessed[h] \in Ages /\ witnessed'[h] = Older(witnessed[h])
    BY <1>0, <2>1 DEF OlderAge
  <2>3. witnessed[h] # Nothing /\ witnessed[h] <= Memory
    BY <2>2, OlderAges, NothingIsApart DEF Ages
  <2>4. memory[u][h] \in Entries /\ memory[u][h].age <= witnessed[h]
    BY <1>0, <1>1, <2>3
  <2>5. memory[u][h].age \in Ages
    BY <2>4 DEF Entries
  <2>6. memory'[u][h] \in Entries /\ memory'[u][h].age = Older(memory[u][h].age)
    BY <2>1, <2>4, OlderEntries
  <2>7. memory'[u][h].age <= witnessed'[h]
    BY <2>2, <2>4, <2>5, <2>6, OlderAges
  <2>. QED  BY <2>6, <2>7, NothingIsApart
<1>6. CASE UNCHANGED recall
  BY <1>1, <1>6 DEF recall
<1>. QED  BY <1>3, <1>4, <1>5, <1>6, RecallSteps

\* What one of us has seen is remembered by all of us while it lasts.
THEOREM TeamRemembersHolds == ViewSpec => []TeamRemembers
<1>1. ViewInit => TeamRemembers
  BY DEF ViewInit, TeamRemembers
<1>. QED  BY <1>1, TeamRemembersStep, ViewTypeCorrect, PTL DEF ViewSpec

----------------------------------------------------------------------------
(* Markers of the enemy *)

\* A remembered position is one where the enemy was seen no earlier than it says.
SightingsInv ==
  \A u \in Team : sightings[u] # Nothing =>
    /\ spotted[sightings[u].hex] # Nothing
    /\ spotted[sightings[u].hex] <= sightings[u].age

\* Whoever sees the enemy writes down the hex for all of us.
LEMMA FoeSpotted ==
  ASSUME ViewTypeOK, NEW s \in Snapshots, UpdateMemory(s, online), NEW v \in online,
         s.at[Foe] \in VisibleTo(s, v)
  PROVE  /\ spotted'[s.at[Foe]] = 0
         /\ sightings' = [u \in Team |-> [hex |-> s.at[Foe], age |-> 0]]
<1>1. s.at[Foe] \in Hexes
  BY DEF Snapshots, Players
<1>. QED  BY <1>1 DEF UpdateMemory, ViewTypeOK

LEMMA SightingsBroadcast ==
  ASSUME ViewTypeOK, SightingsInv, NEW i, Broadcast(i) PROVE SightingsInv'
<1>1. pending[i] \in Snapshots /\ UpdateMemory(pending[i], online)
  BY BroadcastEffect
<1>2. CASE \E v \in online : pending[i].at[Foe] \in VisibleTo(pending[i], v)
  <2>1. /\ spotted'[pending[i].at[Foe]] = 0
        /\ sightings' = [u \in Team |-> [hex |-> pending[i].at[Foe], age |-> 0]]
    BY <1>1, <1>2, FoeSpotted
  <2>2. 0 # Nothing
    BY NothingIsApart
  <2>. QED  BY <2>1, <2>2 DEF SightingsInv
<1>3. CASE ~ \E v \in online : pending[i].at[Foe] \in VisibleTo(pending[i], v)
  <2>1. UNCHANGED <<sightings, spotted>>
    BY <1>1, <1>3 DEF UpdateMemory
  <2>. QED  BY <2>1 DEF SightingsInv
<1>. QED  BY <1>2, <1>3

LEMMA SightingsTime ==
  ASSUME ViewTypeOK, SightingsInv, TimePasses PROVE SightingsInv'
<1> SUFFICES ASSUME NEW u \in Team, sightings'[u] # Nothing
             PROVE  /\ spotted'[sightings'[u].hex] # Nothing
                    /\ spotted'[sightings'[u].hex] <= sightings'[u].age
  BY DEF SightingsInv
<1>1. sightings'[u] = OlderEntry(sightings[u])
  BY DEF TimePasses
<1>2. sightings[u] \in Sightings /\ sightings[u] # Nothing
  BY <1>1, OlderEntries, NothingIsApart DEF ViewTypeOK
<1> DEFINE h == sightings[u].hex
<1>3. h \in Hexes /\ sightings[u].age \in Ages
  BY <1>2 DEF Sightings
<1>4. spotted[h] # Nothing /\ spotted[h] <= sightings[u].age
  BY <1>2 DEF SightingsInv
<1>5. spotted[h] \in Ages
  BY <1>3, <1>4 DEF ViewTypeOK
<1>6. spotted'[h] = Older(spotted[h])
  BY <1>3, <1>4 DEF TimePasses, OlderAge
<1>7. sightings'[u].hex = h /\ sightings'[u].age = Older(sightings[u].age)
  BY <1>1, <1>2, OlderEntries
<1> HIDE DEF h
<1>8. spotted'[h] <= sightings'[u].age
  BY <1>3, <1>4, <1>5, <1>6, <1>7, OlderAges
<1>9. spotted'[h] # Nothing
  BY <1>5, <1>6, OlderAges, NothingIsApart, MemoryLasts DEF Ages
<1>. QED  BY <1>7, <1>8, <1>9

LEMMA SightingsStep ==
  ViewTypeOK /\ SightingsInv /\ [ViewNext]_viewVars => SightingsInv'
<1> SUFFICES ASSUME ViewTypeOK, SightingsInv, [ViewNext]_viewVars PROVE SightingsInv'
  OBVIOUS
<1>1. ASSUME NEW p \in Team, ShareBeaconIntel(p) PROVE SightingsInv'
  BY <1>1 DEF ShareBeaconIntel, SightingsInv
<1>2. CASE UNCHANGED recall
  BY <1>2 DEF recall, SightingsInv
<1>. QED  BY <1>1, <1>2, SightingsBroadcast, SightingsTime, RecallSteps

\* A step that makes the wire longer sends one message for this viewer, or
\* one that is made for nobody.
LEMMA SendingSteps ==
  ASSUME ViewTypeOK, [ViewNext]_viewVars, Len(wire') > Len(wire), Last(wire').projected
  PROVE  \E i \in 1..MaxPending : Broadcast(i)
<1>0. wire \in Seq(Messages)
  BY DEF ViewTypeOK
<1>1. wire' # wire
  BY <1>0
<1>2. ~ BattleEvent
  <2> SUFFICES ASSUME BattleEvent PROVE FALSE
    OBVIOUS
  <2> DEFINE m == RawMessage([grid |-> grid, at |-> at, beacons |-> beacons])
  <2>1. wire' = Append(wire, m) /\ m.projected = FALSE
    BY DEF BattleEvent, RawMessage
  <2> HIDE DEF m
  <2>2. Last(wire') = m
    BY <1>0, <2>1 DEF Last
  <2>. QED  BY <2>1, <2>2
<1>3. ~ Receive
  <2>1. wire # <<>> => Len(Tail(wire)) < Len(wire) /\ Len(Tail(wire)) \in Nat /\ Len(wire) \in Nat
    BY <1>0
  <2>. QED  BY <2>1 DEF Receive
<1>4. ASSUME NEW p \in Team, Disconnect(p) PROVE FALSE
  <2>1. wire' = wire \/ wire' = <<>>
    BY <1>4 DEF Disconnect
  <2>. QED  BY <1>0, <1>1, <2>1
<1>. QED  BY <1>1, <1>2, <1>3, <1>4 DEF ViewNext, RoomChanges, Walk, Report, TroopsChange,
          FortChanges, Conquest, CellChanges, SwitchBeacon, ShareBeaconIntel, RegenerationTick,
          RejoinRoom, ArrowsFade, TimePasses, viewVars

\* A message places the enemy where he is in sight, or where he is remembered.
LEMMA MarkerOfMessage ==
  ASSUME ViewTypeOK, ViewTypeOK', SightingsInv', NEW i, Broadcast(i), Me \in online,
         NEW m \in {StateMessage(pending[i]), PlayersMessage(pending[i])}, m.at[Foe] # Nothing
  PROVE  spotted'[m.at[Foe]] # Nothing /\ spotted'[m.at[Foe]] <= Memory
<1> DEFINE s == pending[i]
<1>1. s \in Snapshots /\ UpdateMemory(s, online)
  BY BroadcastEffect
<1>2. s.at \in [Players -> Hexes] /\ Foe \in Players /\ Me \in Team
  BY <1>1 DEF Snapshots, Players, Team
<1>3. \/ s.at[Foe] \in VisibleTo(s, Me) /\ m.at[Foe] = s.at[Foe]
      \/ Fresh(sightings'[Me]) /\ m.at[Foe] = sightings'[Me].hex
  BY <1>2 DEF StateMessage, PlayersMessage, HostilePosition
<1>4. CASE s.at[Foe] \in VisibleTo(s, Me) /\ m.at[Foe] = s.at[Foe]
  <2>1. spotted'[m.at[Foe]] = 0
    BY <1>1, <1>4, FoeSpotted
  <2>. QED  BY <2>1, NothingIsApart, MemoryLasts
<1>5. CASE Fresh(sightings'[Me]) /\ m.at[Foe] = sightings'[Me].hex
  <2>1. sightings'[Me] \in Sightings /\ sightings'[Me].age <= Memory
    BY <1>2, <1>5 DEF Fresh, ViewTypeOK
  <2>2. /\ spotted'[m.at[Foe]] # Nothing
        /\ spotted'[m.at[Foe]] <= sightings'[Me].age
    BY <1>2, <1>5 DEF Fresh, SightingsInv
  <2>3. m.at[Foe] \in Hexes /\ sightings'[Me].age \in Ages
    BY <1>5, <2>1 DEF Sightings
  <2>4. spotted'[m.at[Foe]] \in Nat /\ sightings'[Me].age \in Nat
    BY <2>2, <2>3, MemoryLasts DEF ViewTypeOK, Ages
  <2>. QED  BY <2>1, <2>2, <2>4, MemoryLasts
<1>. QED  BY <1>3, <1>4, <1>5

\* No message made for a viewer places the enemy where he was not seen lately.
THEOREM MarkersAreRecentHolds == ViewSpec => MarkersAreRecent
<1>1. ViewInit => SightingsInv
  BY DEF ViewInit, SightingsInv
<1>2. ASSUME ViewTypeOK, ViewTypeOK', SightingsInv', [ViewNext]_viewVars
      PROVE  [Len(wire') > Len(wire) /\ Last(wire').projected /\ Last(wire').at[Foe] # Nothing =>
                spotted'[Last(wire').at[Foe]] # Nothing /\ spotted'[Last(wire').at[Foe]] <= Memory]_viewVars
  <2> SUFFICES ASSUME Len(wire') > Len(wire), Last(wire').projected, Last(wire').at[Foe] # Nothing
               PROVE  /\ spotted'[Last(wire').at[Foe]] # Nothing
                      /\ spotted'[Last(wire').at[Foe]] <= Memory
    OBVIOUS
  <2>1. PICK i \in 1..MaxPending : Broadcast(i)
    BY <1>2, SendingSteps
  <2>2. wire \in Seq(Messages)
    BY <1>2 DEF ViewTypeOK
  <2>3. PICK m \in {StateMessage(pending[i]), PlayersMessage(pending[i])} :
          Me \in online /\ m \in Messages /\ wire' = Append(wire, m)
    BY <1>2, <2>1, <2>2, BroadcastEffect
  <2>4. Last(wire') = m
    BY <2>2, <2>3 DEF Last
  <2>. QED  BY <1>2, <2>1, <2>3, <2>4, MarkerOfMessage
<1>. QED  BY <1>1, <1>2, SightingsStep, ViewTypeCorrect, PTL DEF ViewSpec, MarkersAreRecent
==============================================================================
