--------------------------- MODULE RoomConnections ---------------------------
(***************************************************************************)
(* Who is in which room: the connections of the hub, RoomService's index   *)
(* from connections to rooms, each room's map of connections, its players  *)
(* and which of them are shown as connected, and the SignalR groups.       *)
(*                                                                         *)
(* The dictionaries are concurrent and are partly used outside SyncRoot,   *)
(* so every access of one that another thread can see is a step.  The hub  *)
(* runs the calls of one connection one after the other, and OnDisconnected *)
(* after them.  Refused calls change nothing and are left out.             *)
(***************************************************************************)
EXTENDS FiniteSets

CONSTANTS
  Users,
  Connections,  \* connections, each used once
  Owner,        \* Owner[c]: the user who opened c
  Rooms,        \* room codes; the random ones drawn are all different
  None

ASSUME OwnersAreUsers == Owner \in [Connections -> Users]
Phases == {"Lobby", "Playing", "GameOver"}

ASSUME NoneIsNothing == None \notin Rooms \cup Connections \cup Phases

VARIABLES
  phase,    \* phase[r]: the GamePhase of r, or None before r is created
  players,  \* players[r]: the users in State.Players
  shown,    \* shown[r]: the players with IsConnected
  map,      \* map[r]: the connections in ConnectionMap
  index,    \* index[c]: the room of c in _connectionRoomIndex, or None
  group,    \* group[r]: the connections in the SignalR group of r
  holder,   \* holder[r]: the rejoining connection inside lock (room.SyncRoot), or None
  open,     \* the connections that are not closed
  seat,     \* seat[c]: the room that the client of c shows, or None for the lobby
  pc,       \* pc[c]: what the hub call of c does next
  target,   \* target[c]: the room of that call, or None
  stale,    \* stale[c]: JoinRoom's staleConnections, as far as not yet handled
  victim    \* victim[c]: the one just taken out of the map

rooms == <<phase, players, shown>>
tables == <<map, index, group>>
calls == <<pc, target, stale, victim>>
vars == <<rooms, tables, holder, open, seat, calls>>

Steps == {"idle", "stale", "forget", "group", "leave", "unindex", "unseat", "ungroup"}

TypeOK ==
  /\ phase \in [Rooms -> Phases \cup {None}]
  /\ players \in [Rooms -> SUBSET Users]
  /\ shown \in [Rooms -> SUBSET Users]
  /\ map \in [Rooms -> SUBSET Connections]
  /\ index \in [Connections -> Rooms \cup {None}]
  /\ group \in [Rooms -> SUBSET Connections]
  /\ holder \in [Rooms -> Connections \cup {None}]
  /\ open \subseteq Connections
  /\ seat \in [Connections -> Rooms \cup {None}]
  /\ pc \in [Connections -> Steps]
  /\ target \in [Connections -> Rooms \cup {None}]
  /\ stale \in [Connections -> SUBSET Connections]
  /\ victim \in [Connections -> Connections \cup {None}]

Init ==
  /\ phase = [r \in Rooms |-> None]
  /\ players = [r \in Rooms |-> {}]
  /\ shown = players
  /\ map = [r \in Rooms |-> {}]
  /\ index = [c \in Connections |-> None]
  /\ group = map
  /\ holder = phase
  /\ open = Connections
  /\ seat = index
  /\ pc = [c \in Connections |-> "idle"]
  /\ target = index
  /\ stale = [c \in Connections |-> {}]
  /\ victim = index

Idle(c) == c \in open /\ pc[c] = "idle"

Goto(c, from, to) == pc[c] = from /\ pc' = [pc EXCEPT ![c] = to]

Call(c, r, step) ==
  /\ Goto(c, "idle", step)
  /\ target' = [target EXCEPT ![c] = r]

Return(c, from) ==
  /\ Goto(c, from, "idle")
  /\ target' = [target EXCEPT ![c] = None]

Seats(r, u) == {c \in map[r] : Owner[c] = u}

----------------------------------------------------------------------------
(* Entering a room *)

\* The whole room is made before anybody can find it.
CreateRoom(c, r) ==
  /\ Idle(c) /\ seat[c] = None
  /\ phase[r] = None
  /\ phase' = [phase EXCEPT ![r] = "Lobby"]
  /\ players' = [players EXCEPT ![r] = {Owner[c]}]
  /\ shown' = [shown EXCEPT ![r] = {Owner[c]}]
  /\ map' = [map EXCEPT ![r] = {c}]
  /\ index' = [index EXCEPT ![c] = r]
  /\ Call(c, r, "group")
  /\ UNCHANGED <<group, holder, open, seat, stale, victim>>

\* A client enters a room from the lobby, or asks again for the one it is in.
MayEnter(c, r) == Idle(c) /\ seat[c] \in {None, r} /\ holder[r] = None

\* JoinRoom of somebody new, in one locked section.
JoinAsNewPlayer(c, r) ==
  /\ MayEnter(c, r)
  /\ phase[r] = "Lobby" /\ Owner[c] \notin players[r]
  /\ players' = [players EXCEPT ![r] = @ \cup {Owner[c]}]
  /\ shown' = [shown EXCEPT ![r] = @ \cup {Owner[c]}]
  /\ map' = [map EXCEPT ![r] = @ \cup {c}]
  /\ index' = [index EXCEPT ![c] = r]
  /\ Call(c, r, "group")
  /\ UNCHANGED <<phase, group, holder, open, seat, stale, victim>>

\* JoinRoom or RejoinRoom of a player takes the lock and lists the player's
\* connections, which are then removed one by one.
Rejoin(c, r) ==
  /\ MayEnter(c, r)
  /\ Owner[c] \in players[r]
  /\ holder' = [holder EXCEPT ![r] = c]
  /\ stale' = [stale EXCEPT ![c] = Seats(r, Owner[c])]
  /\ Call(c, r, "stale")
  /\ UNCHANGED <<rooms, tables, open, seat, victim>>

TakeFromMap(c) ==
  /\ Goto(c, "stale", "forget")
  /\ \E k \in stale[c] :
       /\ map' = [map EXCEPT ![target[c]] = @ \ {k}]
       /\ stale' = [stale EXCEPT ![c] = @ \ {k}]
       /\ victim' = [victim EXCEPT ![c] = k]
  /\ UNCHANGED <<rooms, index, group, holder, open, seat, target>>

\* Mutant: the index keeps the old connection.
TakeFromIndex_Forgotten(c) ==
  /\ Goto(c, "forget", "stale")
  /\ victim' = [victim EXCEPT ![c] = None]
  /\ UNCHANGED <<rooms, map, index, group, holder, open, seat, target, stale>>

\* Whatever room the index has for the old connection by now.
TakeFromIndex(c) ==
  /\ Goto(c, "forget", "stale")
  /\ index' = [index EXCEPT ![victim[c]] = None]
  /\ victim' = [victim EXCEPT ![c] = None]
  /\ UNCHANGED <<rooms, map, group, holder, open, seat, target, stale>>

TakeSeat(c) ==
  /\ stale[c] = {}
  /\ Goto(c, "stale", "group")
  /\ map' = [map EXCEPT ![target[c]] = @ \cup {c}]
  /\ index' = [index EXCEPT ![c] = target[c]]
  /\ shown' = [shown EXCEPT ![target[c]] = @ \cup {Owner[c]}]
  /\ holder' = [holder EXCEPT ![target[c]] = None]
  /\ UNCHANGED <<phase, players, group, open, seat, target, stale, victim>>

\* Mutant: one connection of a player in the group is thought to be enough.
JoinGroup_OncePerPlayer(c) ==
  /\ Return(c, "group")
  /\ group' = IF \E k \in group[target[c]] : Owner[k] = Owner[c] THEN group
              ELSE [group EXCEPT ![target[c]] = @ \cup {c}]
  /\ seat' = [seat EXCEPT ![c] = target[c]]
  /\ UNCHANGED <<rooms, map, index, holder, open, stale, victim>>

\* AddToGroupAsync; the client then shows the state it is sent.
JoinGroup(c) ==
  /\ Return(c, "group")
  /\ group' = [group EXCEPT ![target[c]] = @ \cup {c}]
  /\ seat' = [seat EXCEPT ![c] = target[c]]
  /\ UNCHANGED <<rooms, map, index, holder, open, stale, victim>>

----------------------------------------------------------------------------
(* Leaving a room *)

\* The hub looks the caller's room up; without one the call returns at once.
Leave(c) ==
  \/ /\ index[c] # None
     /\ Call(c, index[c], "leave")
     /\ UNCHANGED group
  \/ /\ index[c] = None
     /\ group' = IF c \in open' THEN group ELSE [r \in Rooms |-> group[r] \ {c}]
     /\ UNCHANGED <<pc, target>>

\* The client goes to the lobby whatever the server did.
ReturnToLobby(c) ==
  /\ Idle(c) /\ seat[c] # None
  /\ seat' = [seat EXCEPT ![c] = None]
  /\ UNCHANGED open
  /\ Leave(c)
  /\ UNCHANGED <<rooms, map, index, holder, stale, victim>>

\* The connection is lost, or its page closed.
OnDisconnected(c) ==
  /\ Idle(c)
  /\ open' = open \ {c}
  /\ seat' = [seat EXCEPT ![c] = None]
  /\ Leave(c)
  /\ UNCHANGED <<rooms, map, index, holder, stale, victim>>

\* RemoveConnection, before it takes the lock: a connection that is not in the
\* map any more has nothing to remove.
RemoveFromMap(c) ==
  /\ Goto(c, "leave", IF c \in map[target[c]] THEN "unindex" ELSE "ungroup")
  /\ map' = [map EXCEPT ![target[c]] = @ \ {c}]
  /\ UNCHANGED <<rooms, index, group, holder, open, seat, target, stale, victim>>

RemoveFromIndex(c) ==
  /\ Goto(c, "unindex", "unseat")
  /\ index' = [index EXCEPT ![c] = None]
  /\ UNCHANGED <<rooms, map, group, holder, open, seat, target, stale, victim>>

\* Mutant: other connections of the player are not looked for.
ShowDisconnected_Always(c) ==
  /\ Goto(c, "unseat", "ungroup")
  /\ holder[target[c]] = None
  /\ shown' = [shown EXCEPT ![target[c]] = @ \ {Owner[c]}]
  /\ UNCHANGED <<phase, players, tables, holder, open, seat, target, stale, victim>>

\* ... and its locked section.
ShowDisconnected(c) ==
  /\ Goto(c, "unseat", "ungroup")
  /\ holder[target[c]] = None
  /\ shown' = IF Seats(target[c], Owner[c]) # {} THEN shown
              ELSE [shown EXCEPT ![target[c]] = @ \ {Owner[c]}]
  /\ UNCHANGED <<phase, players, tables, holder, open, seat, target, stale, victim>>

\* ReturnToLobby leaves the group; SignalR drops a closed connection from all.
LeaveGroup(c) ==
  /\ Return(c, "ungroup")
  /\ group' = [r \in Rooms |-> IF c \in open /\ r # target[c] THEN group[r] ELSE group[r] \ {c}]
  /\ UNCHANGED <<rooms, map, index, holder, open, seat, stale, victim>>

\* handlePlayAgain: after GameOver the client goes to the lobby by itself.
PlayAgain(c) ==
  /\ Idle(c) /\ seat[c] # None
  /\ phase[seat[c]] = "GameOver"
  /\ seat' = [seat EXCEPT ![c] = None]
  /\ UNCHANGED <<rooms, tables, holder, open, calls>>

----------------------------------------------------------------------------
\* The host starts the game, and some operation ends it.
AdvancePhase(r) ==
  /\ holder[r] = None
  /\ \/ phase[r] = "Lobby" /\ phase' = [phase EXCEPT ![r] = "Playing"]
     \/ phase[r] = "Playing" /\ phase' = [phase EXCEPT ![r] = "GameOver"]
  /\ UNCHANGED <<players, shown, tables, holder, open, seat, calls>>

HubCall(c) ==
  \/ \E r \in Rooms : CreateRoom(c, r) \/ JoinAsNewPlayer(c, r) \/ Rejoin(c, r)
  \/ TakeFromMap(c) \/ TakeFromIndex(c) \/ TakeSeat(c) \/ JoinGroup(c)
  \/ ReturnToLobby(c) \/ OnDisconnected(c) \/ PlayAgain(c)
  \/ RemoveFromMap(c) \/ RemoveFromIndex(c) \/ ShowDisconnected(c) \/ LeaveGroup(c)

Next == (\E c \in Connections : HubCall(c)) \/ (\E r \in Rooms : AdvancePhase(r))

Spec == Init /\ [][Next]_vars

----------------------------------------------------------------------------
\* However the late disconnect of an old connection crosses the rejoin of a new
\* one, a player with a connection in the room is shown as connected.
ShownWhileSeated ==
  \A r \in Rooms : holder[r] = None => \A c \in map[r] : Owner[c] \in shown[r]

\* A player has one connection in a room: per-viewer states are sent, and calls
\* accepted, once, and the last connection to leave is the only one.
OneSeatPerPlayer ==
  \A r \in Rooms : \A c, k \in map[r] : Owner[c] = Owner[k] => c = k

BeingReplaced(c) == \E k \in Connections : pc[k] = "forget" /\ victim[k] = c

\* A call is accepted only from a connection that is seated in the room the
\* index gives, and the index remembers no closed connection, except those that
\* are just being removed.
IndexedIsSeated ==
  \A c \in Connections : index[c] # None /\ ~ BeingReplaced(c) =>
    /\ c \in map[index[c]] \/ pc[c] = "unindex"
    /\ c \in open \/ pc[c] \in {"leave", "unindex"}

\* Outside a running game StateUpdated goes to the SignalR group, and "GameOver"
\* to the map: a seated client that is not in the middle of a call is in both,
\* whatever rooms it has been in before.
SeatsGetBroadcasts ==
  \A r \in Rooms : \A c \in map[r] : Idle(c) => c \in group[r]

----------------------------------------------------------------------------
(* What the program says of itself, and does not do *)

Quiet == \A c \in Connections : pc[c] = "idle"

\* RoomServiceTests: GetRoomByConnection_ReturnsMatchingRoom.
ConnectionFindsItsRoom ==
  Quiet => \A c \in open : seat[c] # None /\ c \in map[seat[c]] => index[c] = seat[c]
=============================================================================
