------------------------- MODULE ClientSession_proofs ------------------------
(***************************************************************************)
(* Proofs about ClientSession, for every set of users and rooms and every  *)
(* bound.                                                                  *)
(*                                                                         *)
(* OwnRooms: the hub tells a connection only of rooms in which its user is *)
(* a player, and a room is created only by a connection that the resume    *)
(* effect has seen, when nobody else's session is left. So what a device   *)
(* saves is of a room of its own.                                          *)
(*                                                                         *)
(* ResumedAlone: while a resume runs, calls, messages and groups are of    *)
(* its room only, which begins with the calls that the hub's client makes  *)
(* before the effect runs. So nothing but the room asked for can be shown  *)
(* when a resume succeeds.                                                 *)
(***************************************************************************)
EXTENDS ClientSession, TLAPS

\* The elements of a sequence, and what is left of it.
LEMMA ShorterSeq ==
  ASSUME NEW S
  PROVE  /\ <<>> \in Seq(S)
         /\ \A s \in Seq(S) : s # <<>> => Head(s) \in S /\ Tail(s) \in Seq(S)
OBVIOUS

Askers == {"user", "handler", "resume"}
CallsTo(S) == [op : {"Join", "Rejoin"}, room : S, by : Askers] \cup [op : {"Return", "Start"}, room : {None}, by : Askers]
Creates == [op : {"Create"}, room : {None}, by : Askers]
StatesOf(S) ==
  [kind : {"RoomCreated", "PlayerJoined", "GameStarted", "StateUpdated"}, room : S,
   phase : Phases \cup {None}]
NewsOf(S) ==
  StatesOf(S) \cup [kind : {"GameOver"}] \cup [kind : {"Error"}, why : {"stale", "error"}]
    \cup [kind : {"Create", "Join", "Rejoin", "Return", "Start"}, by : Askers,
          ok : {"yes", "error", "stale", "missing"}]

SessionTypes ==
  /\ auth \in Users \cup {None} /\ seen \in BOOLEAN
  /\ session \in [room : Rooms, user : Users] \cup {None}
  /\ resume \in Resumes \cup {None}
  /\ phase \in [Rooms -> Phases \cup {None}]
  /\ players \in [Rooms -> SUBSET (Users \cup {None})]
  /\ group \subseteq Rooms /\ seat \in group \cup {None}
  /\ calls \in Seq(CallsTo(Rooms) \cup Creates) /\ wire \in Seq(NewsOf(Rooms))

\* A connection begins with nothing under way, and nothing reaches a lost one.
SessionLink ==
  /\ conn = "starting" => calls = <<>> /\ ~ seen /\ resume = None
  /\ ~ Connected => wire = <<>> /\ group = {} /\ seat = None

LEMMA NewsGrow ==
  ASSUME NEW S, NEW T, S \subseteq T
  PROVE  Seq(NewsOf(S)) \subseteq Seq(NewsOf(T))
<1>1. NewsOf(S) \subseteq NewsOf(T)
  BY DEF NewsOf, StatesOf
<1> DEFINE A == NewsOf(S)  B == NewsOf(T)
<1>2. A \subseteq B
  BY <1>1
<1> HIDE DEF A, B
<1>3. Seq(A) \subseteq Seq(B)
  BY <1>2
<1>. QED  BY <1>3 DEF A, B

LEMMA CallsGrow ==
  ASSUME NEW S, NEW T, S \subseteq T
  PROVE  /\ CallsTo(S) \subseteq CallsTo(T)
         /\ Seq(CallsTo(S)) \subseteq Seq(CallsTo(T))
         /\ Seq(CallsTo(S)) \subseteq Seq(CallsTo(T) \cup Creates)
<1>1. CallsTo(S) \subseteq CallsTo(T)
  BY DEF CallsTo
<1> DEFINE A == CallsTo(S)  B == CallsTo(T)  C == CallsTo(T) \cup Creates
<1>2. A \subseteq B /\ A \subseteq C
  BY <1>1
<1> HIDE DEF A, B, C
<1>3. Seq(A) \subseteq Seq(B) /\ Seq(A) \subseteq Seq(C)
  BY <1>2
<1>. QED  BY <1>2, <1>3 DEF A, B, C

LEMMA LongerSeq ==
  ASSUME NEW S
  PROVE  /\ \A s \in Seq(S), x \in S : Append(s, x) \in Seq(S)
         /\ \A s, t \in Seq(S) : s \o t \in Seq(S)
         /\ \A x \in S : <<x>> \in Seq(S)
         /\ \A x, y \in S : <<x, y>> \in Seq(S)
         /\ \A s \in Seq(S), x \in S : Append(s, x) = s \o <<x>>
OBVIOUS

\* What the hub sends is of rooms whose group the connection is then in.
HubSent == wire' = wire \/ \E msgs \in Seq(NewsOf(group')) : wire' = wire \o msgs

LEMMA AnswerSent ==
  ASSUME SessionTypes, NEW c \in CallsTo(Rooms) \cup Creates, NEW why \in {"stale", "error", "missing"},
         \/ wire' = Append(wire, Done(c)) \/ wire' = Append(wire, Failed(c, why))
         \/ \E e \in {"stale", "error"} : wire' = wire \o <<Refusal(e), Done(c)>>
         \/ wire' = wire \o <<Refusal("stale"), Failed(c, "stale")>>
  PROVE  HubSent
<1> DEFINE N == NewsOf(group')
<1>1. c.by \in Askers /\ c.op \in {"Create", "Join", "Rejoin", "Return", "Start"}
  BY DEF CallsTo, Creates
<1>2. /\ Done(c) \in N
      /\ \A w \in {"stale", "error", "missing"} : Failed(c, w) \in N
      /\ \A e \in {"stale", "error"} : Refusal(e) \in N
  BY <1>1 DEF NewsOf, Done, Failed, Refusal
<1>3. wire \in Seq(NewsOf(Rooms))
  BY DEF SessionTypes
<1>4. \A x : x \in NewsOf(Rooms) => Append(wire, x) = wire \o <<x>>
  BY <1>3, LongerSeq
<1>5. Done(c) \in NewsOf(Rooms) /\ Failed(c, why) \in NewsOf(Rooms)
  BY <1>1 DEF NewsOf, Done, Failed
<1> HIDE DEF N
<1>6. /\ <<Done(c)>> \in Seq(N) /\ <<Failed(c, why)>> \in Seq(N)
      /\ \A e \in {"stale", "error"} : <<Refusal(e), Done(c)>> \in Seq(N)
      /\ <<Refusal("stale"), Failed(c, "stale")>> \in Seq(N)
  BY <1>2, LongerSeq
<1>. QED  BY <1>4, <1>5, <1>6 DEF HubSent, N

LEMMA StateSent ==
  ASSUME SessionTypes, phase' \in [Rooms -> Phases \cup {None}], NEW r \in group', r \in Rooms,
         NEW kind \in {"RoomCreated", "PlayerJoined", "GameStarted", "StateUpdated"},
         NEW c \in CallsTo(Rooms) \cup Creates,
         \/ wire' = wire \o <<State(kind, r), Done(c)>>
         \/ wire' = wire \o <<State(kind, r), [kind |-> "GameOver"]>>
         \/ wire' = wire \o <<State(kind, r)>>
  PROVE  HubSent
<1> DEFINE N == NewsOf(group')
<1>1. c.by \in Askers /\ c.op \in {"Create", "Join", "Rejoin", "Return", "Start"}
  BY DEF CallsTo, Creates
<1>2. Done(c) \in N /\ [kind |-> "GameOver"] \in N /\ State(kind, r) \in N
  BY <1>1 DEF NewsOf, StatesOf, Done, State
<1> HIDE DEF N
<1>3. /\ <<State(kind, r), Done(c)>> \in Seq(N) /\ <<State(kind, r)>> \in Seq(N)
      /\ <<State(kind, r), [kind |-> "GameOver"]>> \in Seq(N)
  BY <1>2, LongerSeq
<1>. QED  BY <1>3 DEF HubSent, N

\* A call handled by the hub: a room is created for the caller alone, or joined,
\* or entered by one of its players.
HubEffect(c) ==
  /\ HubSent
  /\ phase' \in [Rooms -> Phases \cup {None}]
  /\ seat' \in group' \cup {None}
  /\ \/ /\ UNCHANGED players /\ group' \subseteq group
        /\ \A r \in Rooms : phase'[r] # None => phase[r] # None
     \/ /\ c.op = "Create"
        /\ \E r \in Rooms : phase[r] = None /\ players' = [players EXCEPT ![r] = {auth}]
                           /\ group' = group \cup {r} /\ \A q \in Rooms \ {r} : phase'[q] = phase[q]
     \/ /\ c.op \in {"Join", "Rejoin"} /\ UNCHANGED phase
        /\ players' \in {players, [players EXCEPT ![c.room] = @ \cup {auth}]}
        /\ auth \in players'[c.room] /\ group' = group \cup {c.room}

LEMMA HubWorks ==
  ASSUME SessionTypes, HubHandles
  PROVE  HubEffect(Head(calls)) /\ Head(calls) \in CallsTo(Rooms) \cup Creates
<1> DEFINE c == Head(calls)
<1>1. c \in CallsTo(Rooms) \cup Creates
  BY ShorterSeq DEF HubHandles, SessionTypes
<1>2. c.op \in {"Join", "Rejoin"} => c.room \in Rooms
  BY <1>1 DEF CallsTo, Creates
<1>3. \/ c.op = "Create" /\ HubCreates(c)
      \/ c.op = "Create" /\ HubCannotCreate(c)
      \/ c.op = "Join" /\ HubJoins(c, c.room)
      \/ c.op = "Rejoin" /\ HubRejoins(c, c.room)
      \/ c.op = "Return" /\ HubReturns(c)
      \/ c.op = "Start" /\ HubStarts(c)
  BY DEF HubHandles
<1> HIDE DEF c
<1> SUFFICES HubEffect(c)
  BY <1>1 DEF c
<1> USE DEF SessionTypes
<1>4. CASE c.op = "Create" /\ HubCreates(c)
  <2>1. PICK r \in Rooms :
          /\ phase[r] = None /\ phase' = [phase EXCEPT ![r] = "Lobby"]
          /\ players' = [players EXCEPT ![r] = {auth}]
          /\ Sit(r) /\ wire' = wire \o <<State("RoomCreated", r), Done(c)>>
    BY <1>4 DEF HubCreates
  <2>2. phase' \in [Rooms -> Phases \cup {None}]
    BY <2>1 DEF Phases
  <2>3. HubSent
    BY <1>1, <2>1, <2>2, StateSent DEF Sit
  <2>. QED  BY <1>4, <2>1, <2>2, <2>3 DEF HubEffect, Sit
<1>5. CASE HubCannotCreate(c)
  <2>1. HubSent
    BY <1>1, <1>5, AnswerSent DEF HubCannotCreate
  <2>. QED  BY <1>5, <2>1 DEF HubEffect, HubCannotCreate, rooms, places
<1>6. CASE c.op = "Join" /\ HubJoins(c, c.room)
  <2>1. CASE auth \in players[c.room] \/ phase[c.room] = "Lobby"
    <3>1. HubSent
      BY <1>1, <1>2, <1>6, <2>1, StateSent DEF HubJoins, Sit
    <3>. QED  BY <1>2, <1>6, <2>1, <3>1 DEF HubEffect, HubJoins, Sit
  <2>2. CASE ~ (auth \in players[c.room] \/ phase[c.room] = "Lobby")
    <3>1. HubSent
      BY <1>1, <1>6, <2>2, AnswerSent DEF HubJoins
    <3>. QED  BY <1>6, <2>2, <3>1 DEF HubEffect, HubJoins, places
  <2>. QED  BY <2>1, <2>2
<1>7. CASE c.op = "Rejoin" /\ HubRejoins(c, c.room)
  <2>1. CASE ~ old /\ auth \in players[c.room]
    <3>1. HubSent
      BY <1>1, <1>2, <1>7, <2>1, StateSent DEF HubRejoins, Sit, rooms
    <3>. QED  BY <1>2, <1>7, <2>1, <3>1 DEF HubEffect, HubRejoins, Sit, rooms
  <2>2. CASE old \/ auth \notin players[c.room]
    <3>1. HubSent
      BY <1>1, <1>7, <2>2, AnswerSent DEF HubRejoins
    <3>. QED  BY <1>7, <2>2, <3>1 DEF HubEffect, HubRejoins, places, rooms
  <2>. QED  BY <2>1, <2>2
<1>8. CASE HubReturns(c)
  <2>1. HubSent
    BY <1>1, <1>8, AnswerSent DEF HubReturns
  <2>. QED  BY <1>8, <2>1 DEF HubEffect, HubReturns, rooms
<1>9. CASE HubStarts(c)
  <2>1. CASE seat # None /\ phase[seat] = "Lobby" /\ host[seat] = auth
    <3>1. /\ phase' = [phase EXCEPT ![seat] = "Playing"] /\ UNCHANGED <<players, group, seat>>
          /\ wire' = wire \o <<State("GameStarted", seat), Done(c)>>
          /\ seat \in group /\ seat \in Rooms
      BY <1>9, <2>1 DEF HubStarts, places
    <3>2. phase' \in [Rooms -> Phases \cup {None}]
      BY <3>1 DEF Phases
    <3>3. HubSent
      BY <1>1, <3>1, <3>2, StateSent
    <3>4. \A r \in Rooms : phase'[r] # None => phase[r] # None
      BY <2>1, <3>1, ConstantsAreDistinct DEF Phases
    <3>. QED  BY <3>1, <3>2, <3>3, <3>4 DEF HubEffect
  <2>2. CASE ~ (seat # None /\ phase[seat] = "Lobby" /\ host[seat] = auth)
    <3>1. HubSent
      BY <1>1, <1>9, <2>2, AnswerSent DEF HubStarts
    <3>. QED  BY <1>9, <2>2, <3>1 DEF HubEffect, HubStarts, places
  <2>. QED  BY <2>1, <2>2
<1>. QED  BY <1>3, <1>4, <1>5, <1>6, <1>7, <1>8, <1>9

LEMMA OthersWork ==
  ASSUME SessionTypes, Others
  PROVE  /\ HubSent /\ phase' \in [Rooms -> Phases \cup {None}]
         /\ \A r \in Rooms : phase'[r] # None => phase[r] # None
         /\ UNCHANGED <<auth, leaving, session, game, view, autoResuming, resume, conn, retries, seen, calls, players,
                        group, seat>>
         /\ ~ Connected => wire' = wire
<1> USE DEF SessionTypes
<1>1. PICK r \in Rooms : OthersStart(r) \/ OthersWin(r) \/ OthersAct(r)
  BY DEF Others
<1>2. /\ UNCHANGED <<auth, leaving, session, game, view, autoResuming, resume, conn, retries, seen, calls, players,
                     group, seat>>
      /\ \/ wire' = wire
         \/ r \in group' /\ wire' = wire \o <<State("GameStarted", r)>>
         \/ r \in group' /\ wire' = wire \o <<State("StateUpdated", r)>>
         \/ r \in group' /\ wire' = wire \o <<State("StateUpdated", r), [kind |-> "GameOver"]>>
      /\ ~ Connected => wire' = wire
  BY <1>1 DEF OthersStart, OthersWin, OthersAct, Broadcast,
      login, stores, resuming, link, places
<1>3. /\ phase[r] # None
      /\ phase' \in {phase, [phase EXCEPT ![r] = "Playing"], [phase EXCEPT ![r] = "GameOver"]}
  BY <1>1, ConstantsAreDistinct DEF OthersStart, OthersWin, OthersAct, Phases
<1>4. phase' \in [Rooms -> Phases \cup {None}] /\ \A q \in Rooms : phase'[q] # None => phase[q] # None
  BY <1>3 DEF Phases
<1>5. HubSent
  <2> DEFINE c == [op |-> "Return", room |-> None, by |-> "user"]
  <2>1. c \in CallsTo(Rooms) \cup Creates
    BY DEF CallsTo, Askers
  <2>2. CASE wire' = wire
    BY <2>2 DEF HubSent
  <2>3. CASE wire' # wire
    <3>1. r \in group' /\ \E kind \in {"GameStarted", "StateUpdated"} :
            \/ wire' = wire \o <<State(kind, r)>>
            \/ wire' = wire \o <<State(kind, r), [kind |-> "GameOver"]>>
      BY <1>2, <2>3
    <3>. QED  BY <1>4, <2>1, <3>1, StateSent
  <2>. QED  BY <2>2, <2>3
<1>. QED  BY <1>2, <1>4, <1>5

\* A message that is handled: only a state of a room saves a session, and shows
\* its room; nothing else lets a resume succeed.
SessionSavedFrom(S) ==
  \/ session' \in {session, None}
  \/ auth # None /\ \E r \in S : session' = [room |-> r, user |-> auth]

ResumeAnsweredFrom(S) ==
  /\ resume' \in Resumes \cup {None} /\ (resume = None => resume' = None)
  /\ resume # None => resume'.room = resume.room
  /\ Pending /\ resume'.outcome = "success" => game' # None /\ game'.room \in S

LEMMA MessageHandled ==
  ASSUME SessionTypes, NEW S, S \subseteq Rooms, wire \in Seq(NewsOf(S)), Receive
  PROVE  /\ wire' \in Seq(NewsOf(S)) /\ SessionSavedFrom(S) /\ ResumeAnsweredFrom(S)
         /\ UNCHANGED <<auth, leaving, autoResuming, conn, seen, calls, phase, players, group, seat>>
<1> DEFINE m == Head(wire)
<1>1. m \in NewsOf(S) /\ wire # <<>> /\ Tail(wire) \in Seq(NewsOf(S))
  BY ShorterSeq DEF Receive
<1>2. \/ OnRoomCreated(m) \/ OnPlayerJoined(m) \/ OnGameStarted(m)
      \/ OnStateUpdated(m) \/ OnGameOver(m) \/ OnError(m) \/ OnCompletion(m)
  BY DEF Receive
<1> HIDE DEF m
<1>3. wire' = Tail(wire)
  BY <1>2 DEF OnRoomCreated, OnPlayerJoined, OnGameStarted, OnStateUpdated,
      OnGameOver, OnError, OnCompletion, Take
<1>4. resume \in Resumes \cup {None} /\ auth \in Users \cup {None}
  BY DEF SessionTypes
<1>5. UNCHANGED <<auth, leaving, autoResuming, conn, seen, calls, phase, players, group, seat>>
  BY DEF Receive, login, link, rooms, places
<1> SUFFICES SessionSavedFrom(S) /\ ResumeAnsweredFrom(S)
  BY <1>1, <1>3, <1>5
<1>6. CASE \/ OnRoomCreated(m) \/ OnPlayerJoined(m) \/ OnGameStarted(m)
           \/ OnStateUpdated(m)
  <2>1. /\ m.kind \in {"RoomCreated", "PlayerJoined", "GameStarted", "StateUpdated"}
        /\ SaveSession(m.room) /\ Show(m.room, m.phase)
        /\ resume' = Settled("success")
    BY <1>6 DEF OnRoomCreated, OnPlayerJoined, OnGameStarted, OnStateUpdated
  <2>2. m.room \in S /\ m.phase \in Phases \cup {None}
    BY <1>1, <2>1 DEF NewsOf, StatesOf
  <2>3. SessionSavedFrom(S)
    BY <2>1, <2>2 DEF SessionSavedFrom, SaveSession
  <2>4. game' # None /\ game'.room \in S
    BY <1>4, <2>1, <2>2, BoardsAreSomething DEF Show
  <2>5. ResumeAnsweredFrom(S)
    BY <1>4, <2>1, <2>4 DEF ResumeAnsweredFrom, Settled, Pending, Resumes, Outcomes
  <2>. QED  BY <2>3, <2>5
<1>7. CASE OnGameOver(m)
  BY <1>4, <1>7 DEF OnGameOver, SessionSavedFrom, ResumeAnsweredFrom, Pending
<1>8. CASE OnError(m)
  <2>1. m.why \in {"stale", "error"}
    BY <1>1, <1>8 DEF OnError, NewsOf, StatesOf, Askers
  <2>2. resume' = Settled(m.why) /\ session' = session
    BY <1>8 DEF OnError, stores
  <2>3. ResumeAnsweredFrom(S)
    BY <1>4, <2>1, <2>2 DEF ResumeAnsweredFrom, Settled, Pending, Resumes, Outcomes
  <2>. QED  BY <2>2, <2>3 DEF SessionSavedFrom
<1>9. CASE OnCompletion(m)
  <2>1. m.ok \in {"yes", "error", "stale", "missing"}
    BY <1>1, <1>9 DEF OnCompletion, NewsOf, StatesOf
  <2>2. session' \in {session, None}
    BY <1>9 DEF OnCompletion, BackToEntry, stores
  <2>3. resume' = IF m.by # "resume" \/ resume = None THEN resume
                  ELSE [(IF m.ok = "yes" THEN resume ELSE Settled(m.ok)) EXCEPT !.called = "back"]
    BY <1>9 DEF OnCompletion
  <2>4. ResumeAnsweredFrom(S)
    BY <1>4, <2>1, <2>3 DEF ResumeAnsweredFrom, Settled, Pending, Resumes, Outcomes
  <2>. QED  BY <2>2, <2>4 DEF SessionSavedFrom
<1>. QED  BY <1>2, <1>6, <1>7, <1>8, <1>9

\* The steps, by what they do to the connection and to the session.
Disconnects ==
  /\ Connected' = FALSE /\ seen' = FALSE /\ resume' = None /\ autoResuming' = FALSE
  /\ calls' = <<>> /\ wire' = <<>> /\ group' = {} /\ seat' = None
  /\ UNCHANGED <<session, phase, players>> /\ auth' \in Users \cup {None}

GoesBack ==
  /\ session' = None
  /\ UNCHANGED <<auth, autoResuming, resume, conn, seen, calls, wire, phase, players, group, seat>>

Asks ==
  /\ UNCHANGED <<auth, session, autoResuming, resume, conn, seen, wire, phase, players, group, seat>>
  /\ Connected /\ seen = Connected
  /\ \/ \E c \in CallsTo({}) : calls' = Append(calls, c)
     \/ ~ autoResuming /\ \E c \in CallsTo(Rooms) \cup Creates : calls' = Append(calls, c)

Links ==
  /\ UNCHANGED <<auth, session, autoResuming, resume, seen, wire, phase, players, group, seat>>
  /\ ~ Connected /\ conn' # "starting" /\ (conn = "starting" \/ seen = Connected)
  /\ \/ calls' = calls /\ (conn = "starting" \/ ~ Connected')
     \/ session = None /\ calls' = <<>>
     \/ session # None /\ calls' = <<[op |-> "Rejoin", room |-> session.room, by |-> "handler"]>>

Loses ==
  /\ session' \in {session, None} /\ UNCHANGED <<auth, autoResuming, seen>>
  /\ Connected /\ ~ Connected' /\ conn' # "starting"
  /\ calls' = <<>> /\ wire' = <<>> /\ group' = {} /\ seat' = None
  /\ phase' \in [Rooms -> Phases \cup {None}] /\ players' \in [Rooms -> SUBSET (Users \cup {None})]
  /\ \A r \in Rooms : phase'[r] = None \/ (phase[r] # None /\ players'[r] = players[r])
  /\ resume' \in Resumes \cup {None} /\ (resume = None => resume' = None)
  /\ resume # None => resume'.room = resume.room /\ (Pending => resume'.outcome = "error")

SessionRest ==
  /\ UNCHANGED <<auth, conn, wire, phase, players, group, seat>>
  /\ \/ ResumeEffect \/ ResumeTimeout \/ ResumeContinues

LEMMA DisconnectsCovers ==
  ASSUME SessionTypes,
         \/ \E u \in Users : Login(u)
         \/ LogoutAnswered \/ RefreshRefused \/ Reload
  PROVE  Disconnects
BY DEF SessionTypes, Disconnects, Login, LogoutAnswered, RefreshRefused, Reload,
    EndLogin, Disconnected, CancelResume, Connected, stores, rooms,
    login

LEMMA ClicksCovers ==
  ASSUME SessionTypes,
         \/ Logout \/ CreateRoom \/ StartGame \/ ReturnToLobby \/ PlayAgain
         \/ \E r \in Rooms : JoinRoom(r)
  PROVE  GoesBack \/ Asks
<1> DEFINE call(op, r) == [op |-> op, room |-> r, by |-> "user"]
<1>1. /\ call("Start", None) \in CallsTo({}) /\ call("Return", None) \in CallsTo({})
      /\ call("Create", None) \in CallsTo(Rooms) \cup Creates
      /\ \A r \in Rooms : call("Join", r) \in CallsTo(Rooms) \cup Creates
  BY DEF CallsTo, Creates, Askers
<1>2. CASE Logout \/ PlayAgain
  BY <1>2 DEF GoesBack, Logout, PlayAgain, BackToEntry, resuming, link,
      login, rooms, places
<1>3. CASE ReturnToLobby /\ ~ Connected
  BY <1>3 DEF GoesBack, ReturnToLobby, BackToEntry, resuming, link,
      login, rooms, places
<1>4. ASSUME NEW op, NEW r, Invoke(op, r)
      PROVE  /\ calls' = Append(calls, call(op, r))
             /\ UNCHANGED <<auth, session, autoResuming, resume, conn, seen, wire, phase, players, group, seat>>
  BY <1>4 DEF Invoke, resuming, link, login, rooms, places,
      stores
<1>5. CASE StartGame \/ (ReturnToLobby /\ Connected)
  <2>1. /\ Connected /\ seen = Connected
        /\ Invoke("Start", None) \/ Invoke("Return", None)
    BY <1>5 DEF StartGame, ReturnToLobby, Rendered
  <2>. QED  BY <1>1, <1>4, <2>1 DEF Asks
<1>6. CASE CreateRoom \/ \E r \in Rooms : JoinRoom(r)
  <2>1. /\ Connected /\ seen = Connected /\ ~ autoResuming
        /\ Invoke("Create", None) \/ \E r \in Rooms : Invoke("Join", r)
    BY <1>6 DEF CreateRoom, JoinRoom, MayEnter, Rendered
  <2>. QED  BY <1>1, <1>4, <2>1 DEF Asks
<1>. QED  BY <1>2, <1>3, <1>5, <1>6

LEMMA LinksCovers ==
  ASSUME SessionTypes, Connection
  PROVE  Links
BY DEF Links, Connection, Start, AutoReconnect, ManualReconnect,
    OnReconnected, Rendered, Connected, login, stores, resuming,
    rooms, places

LEMMA LosesCovers ==
  ASSUME SessionTypes, LoseConnection
  PROVE  Loses
<1> USE DEF SessionTypes
<1>1. PICK gone \in SUBSET Rooms :
        /\ phase' = [r \in Rooms |-> IF r \in gone THEN None ELSE phase[r]]
        /\ players' = [r \in Rooms |-> IF r \in gone THEN {} ELSE players[r]]
  BY DEF LoseConnection
<1>2. /\ phase' \in [Rooms -> Phases \cup {None}] /\ players' \in [Rooms -> SUBSET (Users \cup {None})]
      /\ \A r \in Rooms : phase'[r] = None \/ (phase[r] # None /\ players'[r] = players[r])
  BY <1>1
<1>3. resume' = IF resume = None THEN None ELSE [Settled("error") EXCEPT !.called = "back"]
  BY DEF LoseConnection
<1>4. /\ resume' \in Resumes \cup {None} /\ (resume = None => resume' = None)
      /\ resume # None => resume'.room = resume.room /\ (Pending => resume'.outcome = "error")
  BY <1>3 DEF Settled, Pending, Resumes, Outcomes
<1>. QED  BY <1>2, <1>4 DEF Loses, LoseConnection, BackToEntry, stores, login,
            Connected

SessionStep ==
  \/ Disconnects \/ GoesBack \/ Asks \/ Links \/ Loses \/ SessionRest
  \/ HubHandles \/ Receive \/ Others
  \/ UNCHANGED <<auth, session, autoResuming, resume, conn, seen, calls, wire, phase, players, group, seat>>

LEMMA SessionStepCovers ==
  ASSUME SessionTypes, [Next]_vars
  PROVE  SessionStep
<1>1. CASE UNCHANGED vars
  BY <1>1 DEF SessionStep, vars, login, stores, resuming, link,
      rooms, places
<1>2. CASE ResumeEffect \/ ResumeTimeout \/ ResumeContinues
  BY <1>2 DEF SessionStep, SessionRest, ResumeEffect, ResumeTimeout, ResumeContinues,
      CancelResume, Begin, login, link, rooms, places
<1>3. CASE Clicks
  BY <1>3, DisconnectsCovers, ClicksCovers DEF SessionStep, Clicks
<1>4. CASE Faults \/ LogoutAnswered
  BY <1>4, DisconnectsCovers, LosesCovers DEF SessionStep, Faults
<1>5. CASE Connection
  BY <1>5, LinksCovers DEF SessionStep
<1>6. CASE HubHandles \/ Receive \/ Others
  BY <1>6 DEF SessionStep
<1>. QED  BY <1>1, <1>2, <1>3, <1>4, <1>5, <1>6 DEF Next

(* Types of the session, and what a step preserves of them *)

LEMMA HubKeepsTypes ==
  ASSUME SessionTypes, SessionLink, HubHandles
  PROVE  SessionTypes' /\ SessionLink'
<1> USE DEF SessionTypes
<1> DEFINE c == Head(calls)
<1>1. HubEffect(c) /\ c \in CallsTo(Rooms) \cup Creates
  BY HubWorks
<1>2. /\ calls' \in Seq(CallsTo(Rooms) \cup Creates)
      /\ UNCHANGED <<auth, session, resume, conn, seen>> /\ Connected
  BY ShorterSeq DEF HubHandles, login, stores, resuming, link
<1> HIDE DEF c
<1>3. c.op \in {"Join", "Rejoin"} => c.room \in Rooms
  BY <1>1 DEF CallsTo, Creates
<1>4. group' \subseteq Rooms /\ players' \in [Rooms -> SUBSET (Users \cup {None})]
  BY <1>1, <1>3 DEF HubEffect
<1>5. wire' \in Seq(NewsOf(Rooms))
  <2>1. Seq(NewsOf(group')) \subseteq Seq(NewsOf(Rooms))
    BY <1>4, NewsGrow
  <2>2. \A s, t \in Seq(NewsOf(Rooms)) : s \o t \in Seq(NewsOf(Rooms))
    BY LongerSeq
  <2>. QED  BY <1>1, <2>1, <2>2 DEF HubEffect, HubSent
<1>6. SessionTypes'
  BY <1>1, <1>2, <1>4, <1>5 DEF HubEffect
<1>. QED  BY <1>2, <1>6 DEF SessionLink, Connected

LEMMA OthersKeepTypes ==
  ASSUME SessionTypes, SessionLink, Others
  PROVE  SessionTypes' /\ SessionLink'
<1> USE DEF SessionTypes
<1>1. Seq(NewsOf(group')) \subseteq Seq(NewsOf(Rooms))
  BY OthersWork, NewsGrow
<1>2. wire' \in Seq(NewsOf(Rooms))
  <2>1. \A s, t \in Seq(NewsOf(Rooms)) : s \o t \in Seq(NewsOf(Rooms))
    BY LongerSeq
  <2>. QED  BY <1>1, <2>1, OthersWork DEF HubSent
<1>. QED  BY <1>2, OthersWork DEF SessionLink, Connected

LEMMA MessagesKeepTypes ==
  ASSUME SessionTypes, SessionLink, Receive
  PROVE  SessionTypes' /\ SessionLink'
<1> USE DEF SessionTypes
<1>1. /\ wire' \in Seq(NewsOf(Rooms)) /\ SessionSavedFrom(Rooms) /\ ResumeAnsweredFrom(Rooms)
      /\ UNCHANGED <<auth, leaving, autoResuming, conn, seen, calls, phase, players, group, seat>>
  BY MessageHandled
<1>2. session' \in [room : Rooms, user : Users] \cup {None}
  BY <1>1 DEF SessionSavedFrom
<1>3. Connected
  BY DEF Receive
<1>. QED  BY <1>1, <1>2, <1>3 DEF SessionLink, ResumeAnsweredFrom, Connected

LEMMA ResumesKeepTypes ==
  ASSUME SessionTypes, SessionLink, SessionRest
  PROVE  SessionTypes' /\ SessionLink'
<1> USE DEF SessionTypes
<1>1. seen' \in BOOLEAN /\ session' \in {session, None}
  BY DEF SessionRest, ResumeEffect, ResumeTimeout, ResumeContinues, BackToEntry,
      stores, link, Connected
<1>2. resume' \in Resumes \cup {None}
  BY DEF SessionRest, ResumeEffect, ResumeTimeout, ResumeContinues, CancelResume,
      Begin, Settled, Pending, Resumes, Outcomes
<1>3. calls' = calls \/ \E c \in CallsTo(Rooms) : calls' = Append(calls, c)
  <2>1. \A op \in {"Join", "Rejoin"}, r \in Rooms : [op |-> op, room |-> r, by |-> "resume"] \in CallsTo(Rooms)
    BY DEF CallsTo, Askers
  <2>2. CASE ResumeEffect
    BY <2>1, <2>2 DEF ResumeEffect
  <2>3. CASE ResumeTimeout
    BY <2>3 DEF ResumeTimeout
  <2>4. CASE ResumeContinues
    BY <2>1, <2>4 DEF ResumeContinues, Resumes
  <2>. QED  BY <2>2, <2>3, <2>4 DEF SessionRest
<1>4. calls' \in Seq(CallsTo(Rooms) \cup Creates)
  BY <1>3, LongerSeq
<1>5. conn = "starting" => calls' = <<>> /\ ~ seen' /\ resume' = None
  BY DEF SessionRest, SessionLink, ResumeEffect, ResumeTimeout, ResumeContinues,
      Pending, Connected
<1>6. SessionLink'
  BY <1>5 DEF SessionRest, SessionLink, Connected
<1>. QED  BY <1>1, <1>2, <1>4, <1>6 DEF SessionRest

LEMMA PlainStepsKeepTypes ==
  ASSUME SessionTypes, SessionLink,
         \/ Disconnects \/ GoesBack \/ Asks \/ Links \/ Loses
         \/ UNCHANGED <<auth, session, autoResuming, resume, conn, seen, calls, wire, phase, players, group, seat>>
  PROVE  SessionTypes' /\ SessionLink'
<1> USE DEF SessionTypes, SessionLink
<1>1. CASE Disconnects
  BY <1>1, ShorterSeq DEF Disconnects, Connected
<1>2. CASE GoesBack
  BY <1>2 DEF GoesBack, Connected
<1>3. CASE Asks
  <2>1. CallsTo({}) \subseteq CallsTo(Rooms)
    BY CallsGrow
  <2>2. \A s \in Seq(CallsTo(Rooms) \cup Creates), x \in CallsTo(Rooms) \cup Creates :
          Append(s, x) \in Seq(CallsTo(Rooms) \cup Creates)
    BY LongerSeq
  <2>3. calls' \in Seq(CallsTo(Rooms) \cup Creates)
    BY <1>3, <2>1, <2>2 DEF Asks
  <2>. QED  BY <1>3, <2>3 DEF Asks, Connected
<1>4. CASE Links
  <2>1. \A r \in Rooms : [op |-> "Rejoin", room |-> r, by |-> "handler"] \in CallsTo(Rooms) \cup Creates
    BY DEF CallsTo, Askers
  <2>2. /\ \A x \in CallsTo(Rooms) \cup Creates : <<x>> \in Seq(CallsTo(Rooms) \cup Creates)
        /\ <<>> \in Seq(CallsTo(Rooms) \cup Creates)
    BY LongerSeq, ShorterSeq
  <2>3. session # None => session.room \in Rooms
    OBVIOUS
  <2>4. calls' \in Seq(CallsTo(Rooms) \cup Creates)
    BY <1>4, <2>1, <2>2, <2>3 DEF Links
  <2>. QED  BY <1>4, <2>4 DEF Links, Connected
<1>5. CASE Loses
  BY <1>5, ShorterSeq DEF Loses, Connected
<1>6. CASE UNCHANGED <<auth, session, autoResuming, resume, conn, seen, calls, wire, phase, players, group, seat>>
  BY <1>6 DEF Connected
<1>. QED  BY <1>1, <1>2, <1>3, <1>4, <1>5, <1>6

LEMMA SessionTypesStep ==
  ASSUME SessionTypes, SessionLink, [Next]_vars
  PROVE  SessionTypes' /\ SessionLink' /\ SessionStep
BY SessionStepCovers, HubKeepsTypes, OthersKeepTypes, MessagesKeepTypes, ResumesKeepTypes, PlainStepsKeepTypes
DEF SessionStep

LEMMA SessionTypesStart == ASSUME Init PROVE SessionTypes /\ SessionLink
BY ShorterSeq DEF Init, SessionTypes, SessionLink, Connected

(* Saved rooms are own rooms *)

MyRooms == {r \in Rooms : auth \in players[r]}

\* Nobody hears of a room in which the user is no player, whoever had the
\* device before has no session left once the connection has been seen, and a
\* room is created, with its creator alone, on such a connection only.
OwnRooms ==
  /\ group \subseteq MyRooms /\ wire \in Seq(NewsOf(MyRooms))
  /\ Connected /\ seen => session = None \/ session.user = auth
  /\ (Connected /\ seen) \/ calls \in Seq(CallsTo(Rooms))
  /\ SavedRoomIsOwn

LEMMA HubKeepsOwn ==
  ASSUME SessionTypes, OwnRooms, HubHandles
  PROVE  OwnRooms'
<1> USE DEF SessionTypes
<1> DEFINE c == Head(calls)
<1>1. HubEffect(c) /\ c \in CallsTo(Rooms) \cup Creates
  BY HubWorks
<1>2. UNCHANGED <<auth, session, conn, seen>> /\ Connected /\ calls # <<>> /\ calls' = Tail(calls)
  BY DEF HubHandles, login, stores, link
<1>3. (Connected /\ seen)' \/ calls' \in Seq(CallsTo(Rooms))
  BY <1>2, ShorterSeq DEF OwnRooms, Connected
<1>4. c.op = "Create" => Connected /\ seen
  <2>1. calls \in Seq(CallsTo(Rooms)) => c \in CallsTo(Rooms)
    BY <1>2, ShorterSeq
  <2>. QED  BY <2>1 DEF OwnRooms, CallsTo
<1> HIDE DEF c
<1>5. c.op \in {"Join", "Rejoin"} => c.room \in Rooms
  BY <1>1 DEF CallsTo, Creates
<1>6. MyRooms \subseteq MyRooms'
  BY <1>1, <1>2, <1>5 DEF HubEffect, MyRooms
<1>7. group' \subseteq MyRooms'
  <2>1. CASE UNCHANGED players /\ group' \subseteq group
    BY <1>6, <2>1 DEF OwnRooms
  <2>2. CASE c.op = "Create" /\ \E r \in Rooms : players' = [players EXCEPT ![r] = {auth}] /\ group' = group \cup {r}
    BY <1>2, <1>6, <2>2 DEF OwnRooms, MyRooms
  <2>3. CASE c.op \in {"Join", "Rejoin"} /\ auth \in players'[c.room] /\ group' = group \cup {c.room}
    BY <1>2, <1>5, <1>6, <2>3 DEF OwnRooms, MyRooms
  <2>. QED  BY <1>1, <2>1, <2>2, <2>3 DEF HubEffect
<1>8. wire' \in Seq(NewsOf(MyRooms'))
  <2>1. /\ Seq(NewsOf(MyRooms)) \subseteq Seq(NewsOf(MyRooms'))
        /\ Seq(NewsOf(group')) \subseteq Seq(NewsOf(MyRooms'))
    BY <1>6, <1>7, NewsGrow
  <2>2. \A s, t \in Seq(NewsOf(MyRooms')) : s \o t \in Seq(NewsOf(MyRooms'))
    BY LongerSeq
  <2>3. wire \in Seq(NewsOf(MyRooms')) /\ HubSent
    BY <1>1, <2>1 DEF HubEffect, OwnRooms
  <2>. QED  BY <2>1, <2>2, <2>3 DEF HubSent
<1>9. SavedRoomIsOwn'
  <2> SUFFICES ASSUME session # None, phase'[session.room] # None
               PROVE  session.user \in players'[session.room]
    BY <1>2 DEF SavedRoomIsOwn
  <2> DEFINE r == session.room  u == session.user
  <2>1. r \in Rooms
    OBVIOUS
  <2>2. phase[r] # None => u \in players[r]
    BY DEF OwnRooms, SavedRoomIsOwn
  <2> HIDE DEF r, u
  <2>3. CASE c.op = "Create" /\ u = auth
    BY <1>1, <2>1, <2>2, <2>3 DEF HubEffect, r, u
  <2>4. CASE c.op # "Create"
    BY <1>1, <1>5, <2>1, <2>2, <2>4 DEF HubEffect, r, u
  <2>. QED  BY <1>4, <2>3, <2>4 DEF OwnRooms, u
<1>. QED  BY <1>2, <1>3, <1>7, <1>8, <1>9 DEF OwnRooms, Connected

LEMMA OthersKeepOwn ==
  ASSUME SessionTypes, OwnRooms, Others
  PROVE  OwnRooms'
<1>1. MyRooms' = MyRooms
  BY OthersWork DEF MyRooms
<1>2. wire' \in Seq(NewsOf(MyRooms'))
  <2>1. Seq(NewsOf(group')) \subseteq Seq(NewsOf(MyRooms'))
    BY <1>1, OthersWork, NewsGrow DEF OwnRooms
  <2>2. \A s, t \in Seq(NewsOf(MyRooms')) : s \o t \in Seq(NewsOf(MyRooms'))
    BY LongerSeq
  <2>. QED  BY <1>1, <2>1, <2>2, OthersWork DEF HubSent, OwnRooms
<1>3. SavedRoomIsOwn'
  BY OthersWork DEF OwnRooms, SavedRoomIsOwn, SessionTypes
<1>. QED  BY <1>1, <1>2, <1>3, OthersWork DEF OwnRooms, Connected

LEMMA MessagesKeepOwn ==
  ASSUME SessionTypes, OwnRooms, Receive
  PROVE  OwnRooms'
<1>1. MyRooms \subseteq Rooms
  BY DEF MyRooms
<1>2. /\ wire' \in Seq(NewsOf(MyRooms)) /\ SessionSavedFrom(MyRooms)
      /\ UNCHANGED <<auth, leaving, autoResuming, conn, seen, calls, phase, players, group, seat>>
  BY <1>1, MessageHandled DEF OwnRooms
<1>3. MyRooms' = MyRooms
  BY <1>2 DEF MyRooms
<1>4. SavedRoomIsOwn'
  BY <1>2 DEF SessionSavedFrom, MyRooms, OwnRooms, SavedRoomIsOwn
<1>5. Connected /\ seen => session' = None \/ session'.user = auth
  BY <1>2 DEF SessionSavedFrom, OwnRooms
<1>. QED  BY <1>2, <1>3, <1>4, <1>5 DEF OwnRooms, Connected

LEMMA ResumesKeepOwn ==
  ASSUME SessionTypes, SessionLink, OwnRooms, SessionRest
  PROVE  OwnRooms'
<1> USE DEF SessionTypes
<1>1. UNCHANGED <<auth, conn, wire, phase, players, group>> /\ MyRooms' = MyRooms
  BY DEF SessionRest, MyRooms
<1>2. session' \in {session, None}
  BY DEF SessionRest, ResumeEffect, ResumeTimeout, ResumeContinues, BackToEntry,
      stores
<1>3. Connected /\ seen' => session' = None \/ session'.user = auth
  <2>1. CASE ResumeEffect
    BY <2>1 DEF ResumeEffect
  <2>2. CASE ResumeTimeout \/ ResumeContinues
    <3>1. seen' = seen
      BY <2>2 DEF ResumeTimeout, ResumeContinues, link
    <3>. QED  BY <1>2, <3>1 DEF OwnRooms
  <2>. QED  BY <2>1, <2>2 DEF SessionRest
<1>4. (Connected /\ seen') \/ calls' \in Seq(CallsTo(Rooms))
  <2>1. CASE ResumeEffect
    BY <2>1 DEF ResumeEffect, OwnRooms
  <2>2. CASE ResumeTimeout
    BY <2>2 DEF ResumeTimeout, OwnRooms, link
  <2>3. CASE ResumeContinues
    <3>1. \A r \in Rooms : [op |-> "Join", room |-> r, by |-> "resume"] \in CallsTo(Rooms)
      BY DEF CallsTo, Askers
    <3>2. calls' = calls \/ \E c \in CallsTo(Rooms) : calls' = Append(calls, c)
      BY <2>3, <3>1 DEF ResumeContinues, Resumes
    <3>3. seen' = seen
      BY <2>3 DEF ResumeContinues, link
    <3>. QED  BY <3>2, <3>3, LongerSeq DEF OwnRooms
  <2>. QED  BY <2>1, <2>2, <2>3 DEF SessionRest
<1>5. SavedRoomIsOwn'
  BY <1>1, <1>2 DEF OwnRooms, SavedRoomIsOwn
<1>. QED  BY <1>1, <1>3, <1>4, <1>5 DEF OwnRooms, Connected

LEMMA PlainStepsKeepOwn ==
  ASSUME SessionTypes, SessionLink, OwnRooms,
         \/ Disconnects \/ GoesBack \/ Asks \/ Links \/ Loses
         \/ UNCHANGED <<auth, session, autoResuming, resume, conn, seen, calls, wire, phase, players, group, seat>>
  PROVE  OwnRooms'
<1> USE DEF OwnRooms, SavedRoomIsOwn, Connected
<1>1. CASE Disconnects
  BY <1>1, ShorterSeq DEF Disconnects, Connected
<1>2. CASE GoesBack
  <2>1. MyRooms' = MyRooms
    BY <1>2 DEF GoesBack, MyRooms
  <2>. QED  BY <1>2, <2>1 DEF GoesBack
<1>3. CASE Asks
  <2>1. MyRooms' = MyRooms
    BY <1>3 DEF Asks, MyRooms
  <2>. QED  BY <1>3, <2>1 DEF Asks
<1>4. CASE Links
  <2>1. MyRooms' = MyRooms
    BY <1>4 DEF Links, MyRooms
  <2>2. \A r \in Rooms : [op |-> "Rejoin", room |-> r, by |-> "handler"] \in CallsTo(Rooms)
    BY DEF CallsTo, Askers
  <2>3. \A x \in CallsTo(Rooms) : <<x>> \in Seq(CallsTo(Rooms))
    BY LongerSeq
  <2>4. session # None => session.room \in Rooms
    BY DEF SessionTypes
  <2>5. calls' \in Seq(CallsTo(Rooms))
    BY <1>4, <2>2, <2>3, <2>4, ShorterSeq DEF Links
  <2>6. ~ (Connected /\ seen)'
    BY <1>4 DEF Links, SessionLink, SessionTypes
  <2>. QED  BY <1>4, <2>1, <2>5, <2>6 DEF Links
<1>5. CASE Loses
  <2>1. SavedRoomIsOwn'
    BY <1>5 DEF Loses, SessionTypes
  <2>2. <<>> \in Seq(NewsOf(MyRooms')) /\ <<>> \in Seq(CallsTo(Rooms))
    BY ShorterSeq
  <2>. QED  BY <1>5, <2>1, <2>2 DEF Loses
<1>6. CASE UNCHANGED <<auth, session, autoResuming, resume, conn, seen, calls, wire, phase, players, group, seat>>
  <2>1. MyRooms' = MyRooms
    BY <1>6 DEF MyRooms
  <2>. QED  BY <1>6, <2>1
<1>. QED  BY <1>1, <1>2, <1>3, <1>4, <1>5, <1>6

\* A session that is kept on the device is of a room in which its user plays, as
\* long as there is that room, whoever used the device before and whatever the
\* server lost and created again meanwhile.
THEOREM SavedRoomIsOwnHolds == Spec => []SavedRoomIsOwn
<1> DEFINE IInv == SessionTypes /\ SessionLink /\ OwnRooms
<1>1. Init => IInv
  <2> SUFFICES ASSUME Init PROVE IInv
    OBVIOUS
  <2>1. SessionTypes /\ SessionLink
    BY SessionTypesStart
  <2>2. <<>> \in Seq(NewsOf(MyRooms)) /\ <<>> \in Seq(CallsTo(Rooms))
    BY ShorterSeq
  <2>3. SavedRoomIsOwn
    BY <2>1 DEF Init, SavedRoomIsOwn, SessionTypes
  <2>. QED  BY <2>1, <2>2, <2>3 DEF Init, OwnRooms, Connected
<1>2. IInv /\ [Next]_vars => IInv'
  BY SessionTypesStep, HubKeepsOwn, OthersKeepOwn, MessagesKeepOwn, ResumesKeepOwn, PlainStepsKeepOwn
  DEF SessionStep
<1>3. IInv => SavedRoomIsOwn
  BY DEF OwnRooms
<1>. QED  BY <1>1, <1>2, <1>3, PTL DEF Spec

(* A resume is alone *)

\* Rooms of which the hub is asked, and of which it can still tell.
About(S) == calls \in Seq(CallsTo(S)) /\ wire \in Seq(NewsOf(S)) /\ group \subseteq S

\* While a resume runs only its room is asked for.  A connection that no effect
\* has seen yet has at most asked for the room of the session.
ResumedAlone ==
  /\ resume # None => autoResuming /\ seen /\ About({resume.room})
  /\ Connected /\ ~ seen =>
       \E S \in {{}} \cup {{r} : r \in Rooms} : About(S) /\ (session = None \/ S = {session.room})

LEMMA HubStaysAbout ==
  ASSUME SessionTypes, NEW S, S \subseteq Rooms, About(S), HubHandles
  PROVE  About(S)'
<1> DEFINE c == Head(calls)
<1>1. HubEffect(c)
  BY HubWorks
<1>2. c \in CallsTo(S) /\ calls' \in Seq(CallsTo(S))
  BY ShorterSeq DEF HubHandles, About
<1> HIDE DEF c
<1>3. c.op # "Create" /\ (c.op \in {"Join", "Rejoin"} => c.room \in S)
  BY <1>2 DEF CallsTo
<1>4. group' \subseteq S
  BY <1>1, <1>3 DEF HubEffect, About
<1>5. wire' \in Seq(NewsOf(S))
  <2>1. Seq(NewsOf(group')) \subseteq Seq(NewsOf(S))
    BY <1>4, NewsGrow
  <2>2. \A s, t \in Seq(NewsOf(S)) : s \o t \in Seq(NewsOf(S))
    BY LongerSeq
  <2>3. HubSent /\ wire \in Seq(NewsOf(S))
    BY <1>1 DEF HubEffect, About
  <2>. QED  BY <2>1, <2>2, <2>3 DEF HubSent
<1>. QED  BY <1>2, <1>4, <1>5 DEF About

LEMMA OthersStayAbout ==
  ASSUME SessionTypes, NEW S, About(S), Others
  PROVE  About(S)'
<1>1. UNCHANGED <<calls, group>> /\ HubSent
  BY OthersWork
<1>2. Seq(NewsOf(group')) \subseteq Seq(NewsOf(S))
  BY <1>1, NewsGrow DEF About
<1>3. \A s, t \in Seq(NewsOf(S)) : s \o t \in Seq(NewsOf(S))
  BY LongerSeq
<1>. QED  BY <1>1, <1>2, <1>3 DEF HubSent, About

LEMMA HubKeepsAlone ==
  ASSUME SessionTypes, ResumedAlone, HubHandles \/ Others
  PROVE  ResumedAlone'
<1>1. UNCHANGED <<session, autoResuming, resume, conn, seen>>
  BY OthersWork DEF HubHandles, stores, resuming, link
<1>2. resume # None => resume.room \in Rooms
  BY DEF SessionTypes, Resumes
<1>3. \A S \in SUBSET Rooms : About(S) => About(S)'
  BY HubStaysAbout, OthersStayAbout
<1>4. resume' # None => autoResuming' /\ seen' /\ About({resume.room})'
  BY <1>1, <1>2, <1>3 DEF ResumedAlone
<1>5. ASSUME Connected, ~ seen
      PROVE  \E S \in {{}} \cup {{r} : r \in Rooms} : About(S)' /\ (session = None \/ S = {session.room})
  BY <1>3, <1>5 DEF ResumedAlone
<1>. QED  BY <1>1, <1>4, <1>5 DEF ResumedAlone, About, Connected

LEMMA MessagesKeepAlone ==
  ASSUME SessionTypes, ResumedAlone, Receive
  PROVE  ResumedAlone'
<1>1. ASSUME NEW S, S \subseteq Rooms, About(S)
      PROVE  About(S)' /\ SessionSavedFrom(S) /\ ResumeAnsweredFrom(S)
  BY <1>1, MessageHandled DEF About
<1>2. SessionSavedFrom(Rooms) /\ ResumeAnsweredFrom(Rooms) /\ UNCHANGED <<autoResuming, conn, seen>>
  BY MessageHandled DEF SessionTypes
<1>3. ASSUME resume' # None
      PROVE  autoResuming' /\ seen' /\ About({resume.room})'
  <2>1. resume # None /\ resume'.room = resume.room /\ resume.room \in Rooms
    BY <1>2, <1>3 DEF ResumeAnsweredFrom, SessionTypes, Resumes
  <2>. QED  BY <1>1, <1>2, <2>1 DEF ResumedAlone
<1>4. ASSUME Connected, ~ seen
      PROVE  \E S \in {{}} \cup {{r} : r \in Rooms} : About(S)' /\ (session' = None \/ S = {session'.room})
  <2>1. PICK S \in {{}} \cup {{r} : r \in Rooms} : About(S) /\ (session = None \/ S = {session.room})
    BY <1>4 DEF ResumedAlone
  <2>2. About(S)' /\ SessionSavedFrom(S)
    BY <1>1, <2>1
  <2>3. session' = None \/ S = {session'.room}
    BY <2>1, <2>2 DEF SessionSavedFrom
  <2>. QED  BY <2>2, <2>3
<1>. QED  BY <1>2, <1>3, <1>4 DEF ResumedAlone, About, Connected

LEMMA ResumesKeepAlone ==
  ASSUME SessionTypes, ResumedAlone, SessionRest
  PROVE  ResumedAlone'
<1> USE DEF SessionTypes
<1>1. UNCHANGED <<conn, wire, group>>
  BY DEF SessionRest
<1>2. CASE ResumeEffect /\ Connected /\ session # None /\ session.user = auth
  <2>1. /\ autoResuming' /\ seen' /\ ~ seen /\ resume'.room = session.room
        /\ calls' = Append(calls, [op |-> "Rejoin", room |-> session.room, by |-> "resume"])
    <3>1. seen # Connected /\ seen' = Connected /\ autoResuming' = TRUE
      BY <1>2 DEF ResumeEffect
    <3>2. seen' /\ ~ seen /\ autoResuming'
      BY <1>2, <3>1, Zenon
    <3>3. /\ calls' = Append(calls, [op |-> "Rejoin", room |-> session.room, by |-> "resume"])
          /\ resume' = [stage |-> "rejoin", room |-> session.room, called |-> "out", outcome |-> "none"]
      BY <1>2 DEF ResumeEffect, Begin
    <3>. QED  BY <3>2, <3>3
  <2>2. About({session.room})
    BY <1>2, <2>1 DEF ResumedAlone
  <2>3. [op |-> "Rejoin", room |-> session.room, by |-> "resume"] \in CallsTo({session.room})
    BY DEF CallsTo, Askers
  <2>4. calls' \in Seq(CallsTo({session.room}))
    BY <2>1, <2>2, <2>3, LongerSeq DEF About
  <2>. QED  BY <1>1, <2>1, <2>2, <2>4 DEF ResumedAlone, About
<1>3. CASE ResumeEffect /\ ~ (Connected /\ session # None /\ session.user = auth)
  BY <1>1, <1>3 DEF ResumeEffect, CancelResume, ResumedAlone, Connected
<1>4. CASE ResumeTimeout
  <2>1. /\ UNCHANGED <<session, autoResuming, conn, seen, calls, wire, group>>
        /\ resume # None /\ resume'.room = resume.room
    BY <1>4 DEF ResumeTimeout, Settled, Pending, Resumes, stores,
        link, places
  <2>. QED  BY <2>1 DEF ResumedAlone, About
<1>5. CASE ResumeContinues
  <2>1. resume # None /\ autoResuming /\ seen /\ seen' = seen /\ About({resume.room}) /\ resume.room \in Rooms
    BY <1>5 DEF ResumeContinues, link, ResumedAlone, Resumes
  <2>2. CASE resume.stage = "rejoin" /\ resume.outcome = "missing"
    <3>1. /\ autoResuming' = autoResuming /\ resume'.room = resume.room
          /\ calls' = Append(calls, [op |-> "Join", room |-> resume.room, by |-> "resume"])
      BY <1>5, <2>2 DEF ResumeContinues, Begin
    <3>2. [op |-> "Join", room |-> resume.room, by |-> "resume"] \in CallsTo({resume.room})
      BY DEF CallsTo, Askers
    <3>3. calls' \in Seq(CallsTo({resume.room}))
      BY <2>1, <3>1, <3>2, LongerSeq DEF About
    <3>. QED  BY <1>1, <2>1, <3>1, <3>3 DEF ResumedAlone, About
  <2>3. CASE ~ (resume.stage = "rejoin" /\ resume.outcome = "missing")
    BY <1>5, <2>1, <2>3 DEF ResumeContinues, CancelResume, ResumedAlone
  <2>. QED  BY <2>2, <2>3
<1>. QED  BY <1>2, <1>3, <1>4, <1>5 DEF SessionRest

LEMMA PlainStepsKeepAlone ==
  ASSUME SessionTypes, SessionLink, ResumedAlone,
         \/ Disconnects \/ GoesBack \/ Asks \/ Links \/ Loses
         \/ UNCHANGED <<auth, session, autoResuming, resume, conn, seen, calls, wire, phase, players, group, seat>>
  PROVE  ResumedAlone'
<1>1. CASE Disconnects
  BY <1>1 DEF Disconnects, ResumedAlone
<1>2. CASE GoesBack
  BY <1>2 DEF GoesBack, ResumedAlone, About, Connected
<1>3. CASE Asks
  <2>1. seen /\ seen' /\ UNCHANGED <<autoResuming, resume, wire, group>>
    BY <1>3 DEF Asks, SessionTypes
  <2>2. resume # None => \E c \in CallsTo({resume.room}) : calls' = Append(calls, c)
    <3>1. CallsTo({}) \subseteq CallsTo({resume.room})
      BY CallsGrow
    <3>. QED  BY <1>3, <3>1 DEF Asks, ResumedAlone
  <2>3. resume # None => calls' \in Seq(CallsTo({resume.room}))
    BY <2>2, LongerSeq DEF ResumedAlone, About
  <2>. QED  BY <2>1, <2>3 DEF ResumedAlone, About
<1>4. CASE Links
  <2>1. ~ seen /\ ~ seen' /\ resume = None /\ resume' = None
    BY <1>4 DEF Links, SessionLink, SessionTypes, ResumedAlone
  <2>2. ASSUME Connected'
        PROVE  \E S \in {{}} \cup {{r} : r \in Rooms} : About(S)' /\ (session' = None \/ S = {session'.room})
    <3>1. session' = session /\ wire' = <<>> /\ group' = {}
      BY <1>4 DEF Links, SessionLink
    <3>2. \A S : <<>> \in Seq(NewsOf(S)) /\ <<>> \in Seq(CallsTo(S))
      BY ShorterSeq
    <3>3. CASE session = None
      <4>1. calls' = <<>>
        BY <1>4, <2>2, <3>3 DEF Links, SessionLink
      <4>. QED  BY <3>1, <3>2, <3>3, <4>1 DEF About
    <3>4. CASE session # None
      <4> DEFINE r == session.room  call == [op |-> "Rejoin", room |-> r, by |-> "handler"]
      <4>1. r \in Rooms
        BY <3>4 DEF SessionTypes
      <4>2. calls' \in {<<>>, <<call>>}
        BY <1>4, <2>2, <3>4 DEF Links, SessionLink
      <4>3. call \in CallsTo({r})
        BY DEF CallsTo, Askers
      <4> HIDE DEF call
      <4>4. <<call>> \in Seq(CallsTo({r}))
        BY <4>3, LongerSeq
      <4>5. About({r})'
        BY <3>1, <3>2, <4>2, <4>4 DEF About
      <4>. QED  BY <3>1, <4>1, <4>5
    <3>. QED  BY <3>3, <3>4
  <2>. QED  BY <2>1, <2>2 DEF ResumedAlone
<1>5. CASE Loses
  <2>1. resume' # None => autoResuming' /\ seen'
    BY <1>5 DEF Loses, ResumedAlone
  <2>2. \A S : <<>> \in Seq(NewsOf(S)) /\ <<>> \in Seq(CallsTo(S))
    BY ShorterSeq
  <2>. QED  BY <1>5, <2>1, <2>2 DEF Loses, ResumedAlone, About
<1>6. CASE UNCHANGED <<auth, session, autoResuming, resume, conn, seen, calls, wire, phase, players, group, seat>>
  BY <1>6 DEF ResumedAlone, About, Connected
<1>. QED  BY <1>1, <1>2, <1>3, <1>4, <1>5, <1>6

LEMMA ResumeShowsStep ==
  ASSUME SessionTypes, ResumedAlone, SessionStep,
         Pending, resume' # None, resume'.outcome = "success"
  PROVE  game' # None /\ game'.room = resume.room
<1>1. /\ resume # None /\ resume.outcome = "none" /\ resume \in Resumes
      /\ resume.room \in Rooms /\ About({resume.room})
  BY DEF Pending, SessionTypes, Resumes, ResumedAlone
<1>2. CASE Receive
  <2>1. ResumeAnsweredFrom({resume.room})
    BY <1>1, <1>2, MessageHandled DEF About
  <2>. QED  BY <2>1 DEF ResumeAnsweredFrom
<1>3. CASE SessionRest
  <2>1. CASE ResumeEffect
    BY <2>1 DEF ResumeEffect, Begin, CancelResume
  <2>2. CASE ResumeTimeout
    <3>1. resume' = [resume EXCEPT !.outcome = "timeout"]
      BY <2>2 DEF ResumeTimeout, Settled
    <3>2. resume'.outcome = "timeout"
      BY <1>1, <3>1 DEF Resumes
    <3>. QED  BY <3>2
  <2>3. CASE ResumeContinues
    BY <1>1, <2>3 DEF ResumeContinues
  <2>. QED  BY <1>3, <2>1, <2>2, <2>3 DEF SessionRest
<1>4. CASE Disconnects
  BY <1>4 DEF Disconnects
<1>5. CASE Loses
  BY <1>1, <1>5 DEF Loses
<1>6. CASE GoesBack \/ Asks \/ Links
  BY <1>1, <1>6 DEF GoesBack, Asks, Links
<1>7. CASE HubHandles \/ Others
  BY <1>1, <1>7, OthersWork DEF HubHandles, resuming
<1>8. CASE UNCHANGED resume
  BY <1>1, <1>8
<1>. QED  BY <1>2, <1>3, <1>4, <1>5, <1>6, <1>7, <1>8 DEF SessionStep

\* A resume that succeeds shows the room it asked for: nothing else can have been
\* entered meanwhile, and nothing of another room was under way when it began.
THEOREM ResumeShowsItsRoomHolds == Spec => ResumeShowsItsRoom
<1> DEFINE IInv == SessionTypes /\ SessionLink /\ ResumedAlone
           Shows == Pending /\ resume' # None /\ resume'.stage = resume.stage /\ resume'.outcome = "success"
                      => game' # None /\ game'.room = resume.room
<1>1. Init => IInv
  BY SessionTypesStart DEF Init, ResumedAlone, Connected
<1>2. IInv /\ [Next]_vars => IInv'
  BY SessionTypesStep, HubKeepsAlone, MessagesKeepAlone, ResumesKeepAlone, PlainStepsKeepAlone DEF SessionStep
<1>3. IInv /\ [Next]_vars => [Shows]_vars
  BY SessionStepCovers, ResumeShowsStep
<1>. QED  BY <1>1, <1>2, <1>3, PTL DEF Spec, ResumeShowsItsRoom
==============================================================================
