---------------------------- MODULE ClientSession ----------------------------
(***************************************************************************)
(* One device: the web client's login, its SignalR connection with the     *)
(* automatic and the manual reconnects, the session it keeps in local      *)
(* storage, the resume of that session, the handlers of the state events,  *)
(* and the screen that App shows; with as much of the hub as answers it.   *)
(*                                                                         *)
(* Calls and messages keep their order on a connection and are lost with   *)
(* it.  A hub call is one step (its interleavings are RoomConnections'),   *)
(* and of a hub method's broadcasts only the first is kept: the            *)
(* StateUpdated that follows PlayerJoined or GameStarted says the same.    *)
(***************************************************************************)
EXTENDS Naturals, Sequences, SequencesExt

CONSTANTS
  Users,        \* who may log in on the device
  Rooms,        \* room codes
  Other,        \* any player on another device
  None,
  MaxRetries,   \* MANUAL_RECONNECT_MAX_ATTEMPTS (40)
  MaxActs,      \* bound: clicks of the user
  MaxFaults,    \* bound: lost connections, expired logins and reloads
  MaxNews       \* bound: what happens on other devices

Phases == {"Lobby", "Playing", "GameOver"}

ASSUME ConstantsAreDistinct == Other \notin Users /\ None \notin Users \cup Rooms \cup Phases \cup {Other}
ASSUME BoardsAreSomething == None \notin [room : Rooms, phase : Phases \cup {None}, for : Users \cup {None}]
ASSUME BoundsAreNat == {MaxRetries, MaxActs, MaxFaults, MaxNews} \subseteq Nat

VARIABLES
  auth,          \* the user of AuthState, or None
  leaving,       \* logout() waits for its answer
  session,       \* savedSession and localStorage: [room, user], or None
  game,          \* gameState: [room, phase, for], for whom it was received, or None
  view,          \* uiStore.view
  autoResuming,
  resume,        \* the running resume effect: stage, room, called, outcome; or None
  conn,          \* what useSignalR and its HubConnection are doing
  retries,       \* manualReconnectAttemptsRef
  seen,          \* previousConnectedRef
  calls,         \* calls of this connection that the hub has not handled
  wire,          \* messages the client has not handled
  phase,         \* hub: phase[r], or None
  players,       \* hub: the players of r who use this device
  host,          \* hub: the host of r
  group,         \* hub: the rooms whose broadcasts the connection gets
  seat,          \* hub: the room that the index has for it, or None
  old,           \* hub: a version without RejoinRoom
  acts, faults, news

login == <<auth, leaving>>
stores == <<session, game, view>>
resuming == <<autoResuming, resume>>
link == <<conn, retries, seen>>
rooms == <<phase, players, host>>
places == <<group, seat>>
bounds == <<acts, faults, news>>
vars == <<login, stores, resuming, link, calls, wire, rooms, places, old, bounds>>

Outcomes == {"none", "success", "stale", "error", "missing", "timeout"}
Resumes == [stage : {"rejoin", "join"}, room : Rooms, called : {"out", "back"}, outcome : Outcomes]

TypeOK ==
  /\ auth \in Users \cup {None} /\ leaving \in BOOLEAN
  /\ session \in [room : Rooms, user : Users] \cup {None}
  /\ game \in [room : Rooms, phase : Phases, for : Users] \cup {None}
  /\ view \in {"lobby", "game", "gameover"}
  /\ autoResuming \in BOOLEAN /\ resume \in Resumes \cup {None}
  /\ conn \in {"none", "starting", "connected", "reconnecting", "waiting", "gaveUp"}
  /\ retries \in 0..MaxRetries /\ seen \in BOOLEAN
  /\ phase \in [Rooms -> Phases \cup {None}]
  /\ players \in [Rooms -> SUBSET Users]
  /\ host \in [Rooms -> Users \cup {Other, None}]
  /\ group \subseteq Rooms /\ seat \in Rooms \cup {None}

Connected == conn = "connected"
Pending == resume # None /\ resume.outcome = "none"

\* The page as App renders it: the view counts only with a game to show.
Screen ==
  IF auth = None THEN "auth"
  ELSE IF game = None THEN "entry"
  ELSE view

\* A page load, with or without a login cookie and a saved session.
Init ==
  /\ phase \in [Rooms -> Phases \cup {None}]
  /\ host = [r \in Rooms |-> IF phase[r] = None THEN None ELSE Other]
  /\ session \in [room : Rooms, user : Users] \cup {None}
  /\ players = [r \in Rooms |->
                  IF session # None /\ session.room = r /\ phase[r] # None THEN {session.user} ELSE {}]
  /\ auth \in Users \cup {None}
  /\ conn = IF auth = None THEN "none" ELSE "starting"
  /\ game = None /\ view = "lobby" /\ leaving = FALSE
  /\ autoResuming = FALSE /\ resume = None
  /\ retries = 0 /\ seen = FALSE
  /\ calls = <<>> /\ wire = <<>>
  /\ group = {} /\ seat = None
  /\ old \in BOOLEAN /\ (old => session # None)
  /\ acts = 0 /\ faults = 0 /\ news = 0

Act == acts < MaxActs /\ acts' = acts + 1
Fault == faults < MaxFaults /\ faults' = faults + 1
News == news < MaxNews /\ news' = news + 1

----------------------------------------------------------------------------
(* The session and the stores *)

SaveSession(r) == session' = IF auth = None THEN session ELSE [room |-> r, user |-> auth]

Show(r, p) == game' = [room |-> r, phase |-> p, for |-> auth]

\* cleanupLobbyState, and what a stale resume, Play again and a logout do.
BackToEntry == session' = None /\ game' = None /\ view' = "lobby"

\* The cleanup of the resume effect.
CancelResume == resume' = None /\ autoResuming' = FALSE

\* clearPendingResume with an outcome; without a pending attempt nothing happens.
Settled(outcome) == IF Pending THEN [resume EXCEPT !.outcome = outcome] ELSE resume

\* Mutant: the old connection goes on delivering.
Disconnected_NotStopped(next) ==
  /\ conn' = next /\ retries' = 0 /\ seen' = FALSE
  /\ calls' = <<>> /\ wire' = wire
  /\ group' = {} /\ seat' = None

\* The connection is stopped, and another may be built for the next login.
Disconnected(next) ==
  /\ conn' = next /\ retries' = 0 /\ seen' = FALSE
  /\ calls' = <<>> /\ wire' = <<>>
  /\ group' = {} /\ seat' = None

----------------------------------------------------------------------------
(* Login *)

Login(u) ==
  /\ Screen = "auth" /\ Act
  /\ auth' = u
  /\ Disconnected("starting")
  /\ CancelResume
  /\ UNCHANGED <<leaving, stores, rooms, old, faults, news>>

\* handleLogout cleans up at once; the login ends when the server has answered.
Logout ==
  /\ Screen \in {"entry", "lobby"} /\ ~ leaving /\ Act
  /\ BackToEntry
  /\ leaving' = TRUE
  /\ UNCHANGED <<auth, resuming, link, calls, wire, rooms, places, old, faults, news>>

EndLogin ==
  /\ auth' = None /\ leaving' = FALSE
  /\ Disconnected("none")
  /\ CancelResume
  /\ UNCHANGED <<stores, rooms, old>>

LogoutAnswered == leaving /\ EndLogin /\ UNCHANGED bounds

\* The hourly refresh of the cookie is refused: only the login is cleared.
RefreshRefused == auth # None /\ Fault /\ EndLogin /\ UNCHANGED <<acts, news>>

\* The page is loaded again: local storage and the cookie survive.
Reload ==
  /\ auth # None /\ ~ leaving /\ Fault
  /\ game' = None /\ view' = "lobby"
  /\ Disconnected("starting")
  /\ CancelResume
  /\ UNCHANGED <<login, session, rooms, old, acts, news>>

----------------------------------------------------------------------------
(* The connection *)

\* The effects have seen the connection as it is: the page is rendered anew in
\* less than the round trips of a start(), and nobody clicks on it before.
Rendered == seen = Connected

\* The hub's client asks for the room again as soon as it is back, before the
\* resume effect runs and whoever saved the session.
OnReconnected ==
  calls' = IF session = None THEN <<>> ELSE <<[op |-> "Rejoin", room |-> session.room, by |-> "handler"]>>

Start ==
  /\ conn = "starting"
  /\ conn' \in {"connected", "waiting"}
  /\ UNCHANGED <<login, stores, resuming, retries, seen, calls, wire, rooms, places, old, bounds>>

\* Calls under way are rejected: a ReturnToLobby then cleans up all the same.
\* Rooms may be gone when the server is back.
LoseConnection ==
  /\ Connected /\ Fault
  /\ conn' = "reconnecting" /\ retries' = 0
  /\ IF (\E i \in DOMAIN calls : calls[i].op = "Return") \/ (\E i \in DOMAIN wire : wire[i].kind = "Return")
     THEN BackToEntry
     ELSE UNCHANGED stores
  /\ resume' = IF resume = None THEN None ELSE [Settled("error") EXCEPT !.called = "back"]
  /\ calls' = <<>> /\ wire' = <<>> /\ group' = {} /\ seat' = None
  /\ \E gone \in SUBSET Rooms :
       /\ phase' = [r \in Rooms |-> IF r \in gone THEN None ELSE phase[r]]
       /\ host' = [r \in Rooms |-> IF r \in gone THEN None ELSE host[r]]
       /\ players' = [r \in Rooms |-> IF r \in gone THEN {} ELSE players[r]]
  /\ UNCHANGED <<login, autoResuming, seen, old, acts, news>>

\* withAutomaticReconnect succeeds, or has used up its delays and closes.
AutoReconnect ==
  /\ conn = "reconnecting" /\ Rendered
  /\ \/ conn' = "connected" /\ OnReconnected
     \/ conn' = "waiting" /\ UNCHANGED calls
  /\ UNCHANGED <<login, stores, resuming, retries, seen, wire, rooms, places, old, bounds>>

\* One attempt of scheduleManualReconnect: the timer fires and start() ends.
ManualReconnect ==
  /\ conn = "waiting" /\ Rendered
  /\ \/ conn' = "connected" /\ retries' = 0 /\ OnReconnected
     \/ /\ retries' = retries + 1
        /\ conn' = IF retries' < MaxRetries THEN "waiting" ELSE "gaveUp"
        /\ UNCHANGED calls
  /\ UNCHANGED <<login, stores, resuming, seen, wire, rooms, places, old, bounds>>

----------------------------------------------------------------------------
(* The resume of a saved session *)

Begin(stage, r) == resume' = [stage |-> stage, room |-> r, called |-> "out", outcome |-> "none"]

\* Mutant: nothing is resumed while a board is shown.
ResumeEffect_NotWithABoard ==
  /\ seen # Connected
  /\ seen' = Connected
  /\ IF Connected /\ session # None /\ session.user = auth /\ game = None
     THEN /\ autoResuming' = TRUE
          /\ Begin("rejoin", session.room)
          /\ calls' = Append(calls, [op |-> "Rejoin", room |-> session.room, by |-> "resume"])
          /\ UNCHANGED session
     ELSE /\ CancelResume
          /\ session' = IF Connected /\ (session = None \/ session.user # auth) THEN None ELSE session
          /\ UNCHANGED calls
  /\ UNCHANGED <<login, game, view, conn, retries, wire, rooms, places, old, bounds>>

\* The effect after a render in which `connected' has changed.  Its cleanup
\* ends whatever the last one was doing.
ResumeEffect ==
  /\ seen # Connected
  /\ seen' = Connected
  /\ IF Connected /\ session # None /\ session.user = auth
     THEN /\ autoResuming' = TRUE
          /\ Begin("rejoin", session.room)
          /\ calls' = Append(calls, [op |-> "Rejoin", room |-> session.room, by |-> "resume"])
          /\ UNCHANGED session
     ELSE /\ CancelResume
          /\ session' = IF Connected THEN None ELSE session
          /\ UNCHANGED calls
  /\ UNCHANGED <<login, game, view, conn, retries, wire, rooms, places, old, bounds>>

\* RESUME_TIMEOUT_MS
ResumeTimeout ==
  /\ Pending
  /\ resume' = Settled("timeout")
  /\ UNCHANGED <<login, stores, autoResuming, link, calls, wire, rooms, places, old, bounds>>

\* Mutant: the success of the fallback leaves the flag up.
ResumeContinues_FlagStaysUp ==
  /\ resume # None /\ resume.called = "back" /\ resume.outcome # "none"
  /\ IF resume.stage = "rejoin" /\ resume.outcome = "missing"
     THEN /\ Begin("join", resume.room)
          /\ calls' = Append(calls, [op |-> "Join", room |-> resume.room, by |-> "resume"])
          /\ UNCHANGED <<autoResuming, stores>>
     ELSE /\ resume' = None
          /\ autoResuming' = (resume.stage = "join" /\ resume.outcome = "success")
          /\ UNCHANGED calls
          /\ IF resume.outcome = "stale" THEN BackToEntry ELSE UNCHANGED stores
  /\ UNCHANGED <<login, link, wire, rooms, places, old, bounds>>

\* Once the call is back and the outcome is known, whichever comes last.
ResumeContinues ==
  /\ resume # None /\ resume.called = "back" /\ resume.outcome # "none"
  /\ IF resume.stage = "rejoin" /\ resume.outcome = "missing"
     THEN /\ Begin("join", resume.room)
          /\ calls' = Append(calls, [op |-> "Join", room |-> resume.room, by |-> "resume"])
          /\ UNCHANGED <<autoResuming, stores>>
     ELSE /\ CancelResume
          /\ UNCHANGED calls
          /\ IF resume.outcome = "stale" THEN BackToEntry ELSE UNCHANGED stores
  /\ UNCHANGED <<login, link, wire, rooms, places, old, bounds>>

----------------------------------------------------------------------------
(* Clicks *)

Invoke(op, r) ==
  /\ calls' = Append(calls, [op |-> op, room |-> r, by |-> "user"])
  /\ UNCHANGED <<login, stores, resuming, link, wire, rooms, places, old, faults, news>>

\* Mutant: the entry screen does not wait for a resume.
MayEnter_AtOnce == Screen = "entry" /\ Connected /\ Rendered

\* handleCreateRoom and handleJoinRoom ask to wait while a resume is pending,
\* but not while another of their calls is.
MayEnter == Screen = "entry" /\ Connected /\ Rendered /\ ~ autoResuming /\ ~ Pending

CreateRoom == MayEnter /\ Act /\ Invoke("Create", None)
JoinRoom(r) == MayEnter /\ Act /\ Invoke("Join", r)
StartGame == Screen = "lobby" /\ game.phase = "Lobby" /\ Connected /\ Rendered /\ Act /\ Invoke("Start", None)

ReturnToLobby ==
  /\ Screen \in {"lobby", "game"} /\ Rendered /\ Act
  /\ IF Connected
     THEN Invoke("Return", None)
     ELSE /\ BackToEntry
          /\ UNCHANGED <<login, resuming, link, calls, wire, rooms, places, old, faults, news>>

\* The server is not told.
PlayAgain ==
  /\ Screen = "gameover" /\ Act
  /\ BackToEntry
  /\ UNCHANGED <<login, resuming, link, calls, wire, rooms, places, old, faults, news>>

----------------------------------------------------------------------------
(* The hub *)

State(kind, r) == [kind |-> kind, room |-> r, phase |-> phase'[r]]
Done(c) == [kind |-> c.op, by |-> c.by, ok |-> "yes"]
Failed(c, why) == [kind |-> c.op, by |-> c.by, ok |-> why]
Refusal(why) == [kind |-> "Error", why |-> why]

Sit(r) == group' = group \cup {r} /\ seat' = r

HubCreates(c) ==
  \E r \in Rooms :
    /\ phase[r] = None
    /\ phase' = [phase EXCEPT ![r] = "Lobby"]
    /\ players' = [players EXCEPT ![r] = {auth}]
    /\ host' = [host EXCEPT ![r] = auth]
    /\ Sit(r)
    /\ wire' = wire \o <<State("RoomCreated", r), Done(c)>>

\* No code is free in this instance.
HubCannotCreate(c) ==
  /\ \A r \in Rooms : phase[r] # None
  /\ wire' = Append(wire, Failed(c, "error"))
  /\ UNCHANGED <<rooms, places>>

\* JoinRoom answers a refusal with an Error message only.
HubJoins(c, r) ==
  /\ UNCHANGED <<phase, host>>
  /\ IF auth \in players[r] \/ phase[r] = "Lobby"
     THEN /\ players' = [players EXCEPT ![r] = @ \cup {auth}]
          /\ Sit(r)
          /\ wire' = wire \o <<State("PlayerJoined", r), Done(c)>>
     ELSE /\ wire' = wire \o <<Refusal(IF phase[r] = None THEN "stale" ELSE "error"), Done(c)>>
          /\ UNCHANGED <<players, places>>

\* RejoinRoom answers a refusal with an Error message and an exception.
HubRejoins(c, r) ==
  /\ UNCHANGED rooms
  /\ IF old
     THEN wire' = Append(wire, Failed(c, "missing")) /\ UNCHANGED places
     ELSE IF auth \in players[r]
     THEN Sit(r) /\ wire' = wire \o <<State("PlayerJoined", r), Done(c)>>
     ELSE wire' = wire \o <<Refusal("stale"), Failed(c, "stale")>> /\ UNCHANGED places

\* ReturnToLobby leaves the room that the index has for the connection.
HubReturns(c) ==
  /\ group' = group \ {seat} /\ seat' = None
  /\ wire' = Append(wire, Done(c))
  /\ UNCHANGED rooms

HubStarts(c) ==
  /\ IF seat # None /\ phase[seat] = "Lobby" /\ host[seat] = auth
     THEN /\ phase' = [phase EXCEPT ![seat] = "Playing"]
          /\ wire' = wire \o <<State("GameStarted", seat), Done(c)>>
     ELSE wire' = Append(wire, Done(c)) /\ UNCHANGED phase
  /\ UNCHANGED <<players, host, places>>

\* The hub handles the calls of a connection one after the other.
HubHandles ==
  /\ Connected /\ calls # <<>>
  /\ calls' = Tail(calls)
  /\ LET c == Head(calls) IN
       \/ c.op = "Create" /\ HubCreates(c)
       \/ c.op = "Create" /\ HubCannotCreate(c)
       \/ c.op = "Join" /\ HubJoins(c, c.room)
       \/ c.op = "Rejoin" /\ HubRejoins(c, c.room)
       \/ c.op = "Return" /\ HubReturns(c)
       \/ c.op = "Start" /\ HubStarts(c)
  /\ UNCHANGED <<login, stores, resuming, link, old, bounds>>

Broadcast(r, messages) ==
  /\ wire' = IF Connected /\ r \in group THEN wire \o messages ELSE wire
  /\ UNCHANGED <<login, stores, resuming, link, calls, players, host, places, old, acts, faults>>

\* On another device the host starts the game, somebody wins it, or something
\* else happens in the room: a player joins, moves, leaves.
OthersStart(r) ==
  /\ News /\ phase[r] = "Lobby" /\ host[r] = Other
  /\ phase' = [phase EXCEPT ![r] = "Playing"]
  /\ Broadcast(r, <<State("GameStarted", r)>>)

OthersWin(r) ==
  /\ News /\ phase[r] = "Playing"
  /\ phase' = [phase EXCEPT ![r] = "GameOver"]
  /\ Broadcast(r, <<State("StateUpdated", r), [kind |-> "GameOver"]>>)

OthersAct(r) ==
  /\ News /\ phase[r] # None
  /\ UNCHANGED phase
  /\ Broadcast(r, IF phase[r] = "GameOver"
                  THEN <<State("StateUpdated", r), [kind |-> "GameOver"]>>
                  ELSE <<State("StateUpdated", r)>>)

----------------------------------------------------------------------------
(* The handlers of useSignalRHandlers *)

Take(m) == wire # <<>> /\ m = Head(wire) /\ wire' = Tail(wire)

OnRoomCreated(m) ==
  /\ m.kind = "RoomCreated" /\ Take(m)
  /\ SaveSession(m.room)
  /\ resume' = Settled("success")
  /\ Show(m.room, m.phase) /\ view' = "lobby"

OnPlayerJoined(m) ==
  /\ m.kind = "PlayerJoined" /\ Take(m)
  /\ SaveSession(m.room)
  /\ resume' = Settled("success")
  /\ Show(m.room, m.phase)
  /\ view' = [Lobby |-> "lobby", Playing |-> "game", GameOver |-> "gameover"][m.phase]

OnGameStarted(m) ==
  /\ m.kind = "GameStarted" /\ Take(m)
  /\ SaveSession(m.room)
  /\ resume' = Settled("success")
  /\ Show(m.room, m.phase) /\ view' = "game"

\* A state of the lobby leaves the view as it is.
OnStateUpdated(m) ==
  /\ m.kind = "StateUpdated" /\ Take(m)
  /\ SaveSession(m.room)
  /\ resume' = Settled("success")
  /\ Show(m.room, m.phase)
  /\ view' = [Lobby |-> view, Playing |-> "game", GameOver |-> "gameover"][m.phase]

OnGameOver(m) ==
  /\ m.kind = "GameOver" /\ Take(m)
  /\ view' = "gameover"
  /\ UNCHANGED <<session, game, resume>>

\* Outside a resume an Error is only shown.
OnError(m) ==
  /\ m.kind = "Error" /\ Take(m)
  /\ resume' = Settled(m.why)
  /\ UNCHANGED stores

\* An invocation ends: only the resume and ReturnToLobby wait for theirs.
OnCompletion(m) ==
  /\ m.kind \in {"Create", "Join", "Rejoin", "Return", "Start"} /\ Take(m)
  /\ IF m.kind = "Return" THEN BackToEntry ELSE UNCHANGED stores
  /\ resume' = IF m.by # "resume" \/ resume = None THEN resume
               ELSE [(IF m.ok = "yes" THEN resume ELSE Settled(m.ok)) EXCEPT !.called = "back"]

Receive ==
  /\ Connected /\ wire # <<>>
  /\ LET m == Head(wire) IN
       \/ OnRoomCreated(m) \/ OnPlayerJoined(m) \/ OnGameStarted(m) \/ OnStateUpdated(m)
       \/ OnGameOver(m) \/ OnError(m) \/ OnCompletion(m)
  /\ UNCHANGED <<login, autoResuming, link, calls, rooms, places, old, bounds>>

----------------------------------------------------------------------------
Connection == Start \/ AutoReconnect \/ ManualReconnect
Others == \E r \in Rooms : OthersStart(r) \/ OthersWin(r) \/ OthersAct(r)
Clicks ==
  \/ \E u \in Users : Login(u)
  \/ Logout \/ CreateRoom \/ StartGame \/ ReturnToLobby \/ PlayAgain
  \/ \E r \in Rooms : JoinRoom(r)
Faults == LoseConnection \/ RefreshRefused \/ Reload

Next ==
  \/ Clicks \/ Faults \/ LogoutAnswered \/ Connection
  \/ ResumeEffect \/ ResumeTimeout \/ ResumeContinues
  \/ HubHandles \/ Receive \/ Others

\* Renders and timers happen, a live connection delivers, start() ends.
Fairness ==
  /\ WF_vars(Connection) /\ WF_vars(ResumeEffect) /\ WF_vars(ResumeTimeout)
  /\ WF_vars(ResumeContinues) /\ WF_vars(HubHandles) /\ WF_vars(Receive)
  /\ WF_vars(LogoutAnswered)

Spec == Init /\ [][Next]_vars /\ Fairness

----------------------------------------------------------------------------
\* The board a user has been sent is of the room that a reload would resume,
\* whatever was created, joined, left, resumed, lost or finished on the way.
ShownRoomIsSaved ==
  auth # None /\ game # None /\ game.for = auth =>
    session = [room |-> game.room, user |-> auth]

\* Nobody's session is of a room in which that user is no player, although users
\* follow each other on the device and messages and calls outlive their clicks.
SavedRoomIsOwn ==
  session # None /\ phase[session.room] # None => session.user \in players[session.room]

\* A resume succeeds with the board of the room it asked for: RejoinRoom expects
\* no particular one, so nothing else may be entered meanwhile.
ResumeShowsItsRoom ==
  [][Pending /\ resume' # None /\ resume'.stage = resume.stage /\ resume'.outcome = "success"
     => game' # None /\ game'.room = resume.room]_vars

\* "Restoring room" is not shown for ever, nor "please wait" answered for ever.
ResumeSettles == (autoResuming \/ Pending) ~> (~ autoResuming /\ ~ Pending)

\* A connected client whose session is of a room that its user is a player of is
\* again sent what happens there.
HasASeat == Connected /\ session # None /\ session.user = auth /\ auth \in players[session.room]
BackInTheRoom == (HasASeat /\ ~ old) ~> (~ HasASeat \/ session.room \in group)

----------------------------------------------------------------------------
(* What the program says of itself, and does not do *)

\* README_FRONTEND.md: the saved session is "Cleared on logout".
LogoutClearsSession == [][leaving /\ ~ leaving' => session' = None]_vars

\* README_FRONTEND.md, View Routing: "lobby", "game" and "gameover" are the screens
\* of the setup, the running and the finished game.
ScreenFitsPhase ==
  Screen \in {"lobby", "game", "gameover"} =>
    game.phase = [lobby |-> "Lobby", game |-> "Playing", gameover |-> "GameOver"][Screen]
=============================================================================
