------------------------------ MODULE AgentTools ------------------------------
(***************************************************************************)
(* The play-test tools: the registry of browser sessions, the tool calls   *)
(* an agent makes (several may run at once), the bridge that a page offers *)
(* to them, and as much of the client and the hub as answers.              *)
(*                                                                         *)
(* A tool is a script: a sequence of steps, each an awaited operation, so  *)
(* that calls, pages and the hub interleave between any two of them.       *)
(* Playwright's waits may time out at any moment.  Every session has a     *)
(* user of its own.  Where the players stand and the rules of a fight are  *)
(* left out: the hub decides whether placing troops is refused, claims the *)
(* hex or is a fight.  A page that catches up shows its room as it is.     *)
(***************************************************************************)
EXTENDS Naturals, Sequences, FiniteSets, SequencesExt

CONSTANTS
  Ids,         \* the names of the sessions, and their users
  Host,        \* the session that hosts in the scenario tools
  Rooms,       \* room codes
  Old,         \* a room that was played before
  None,
  Slots,       \* tool calls that may run at the same time
  Careful,     \* the agent has one call at a time about a session
  MaxPages,    \* bound: browser contexts
  MaxEvents    \* bound: tool calls, waits given up, and pages closed or reloaded by a person

ASSUME IdsAndRooms == IsFiniteSet(Ids) /\ Host \in Ids /\ Old \in Rooms /\ None \notin Ids \cup Rooms
\* Slot 0 stands for a hub call that no tool waits for.
ASSUME SlotsArePositive == Slots \subseteq Nat \ {0} /\ Careful \in BOOLEAN
\* There is a window for every session.
ASSUME BoundsAreNat == {MaxPages, MaxEvents} \subseteq Nat /\ Cardinality(Ids) <= MaxPages

VARIABLES
  sessions,    \* browser-registry: the page of a session, or 0
  pages,       \* the browser contexts: what their pages show, and their connection
  rooms,       \* hub: the rooms, or None
  fights,      \* hub: the fights, by whom and for which placing
  calls,       \* the tool calls
  shots,       \* placings asked for by tools
  events       \* what counts for the bound

hub == <<rooms, fights>>
vars == <<sessions, pages, hub, calls, shots, events>>

Pages == 1..MaxPages
Guests == Ids \ {Host}

(***************************************************************************)
(* Scripts                                                                 *)
(***************************************************************************)

Do(op, i, par) == [do |-> op, id |-> i, arg |-> par, or |-> 0]

\* try { .. } catch { .. }: a step of the first part that throws goes to the second.
Else(try, rescue) ==
  [k \in DOMAIN try |-> IF try[k].or = 0 THEN [try[k] EXCEPT !.or = Len(try) + 2 - k] ELSE try[k]]
  \o <<Do("skip", Host, Len(rescue))>> \o rescue

ForEach(ids, script(_)) == FlattenSeq([k \in 1..Cardinality(ids) |-> script(SetToSeq(ids)[k])])

Find(i) == <<Do("find", i, 0)>>
WaitForAgentBridge(i) == <<Do("bridge", i, 0)>>
Visit(i) == <<Do("goto", i, 0)>> \o WaitForAgentBridge(i)
PollAgentBridge(i, criteria) == <<Do("until", i, criteria)>>

\* A method of the bridge: the hub calls it makes without waiting, then those it awaits.
CallAgentBridge(i, sends, awaited) ==
  WaitForAgentBridge(i) \o <<Do("evaluate", i, 0)>>
  \o [k \in DOMAIN sends |-> Do("send", i, sends[k])]
  \o FlattenSeq([k \in DOMAIN awaited |-> <<Do("invoke", i, awaited[k]), Do("answer", i, 0)>>])

\* Mutant: the name is not looked up before the context is opened.
CreateSession_Unchecked(i) == <<Do("open", i, 0), Do("keep", i, 0)>>

\* createSession, and the capture of the console that every caller starts.
CreateSession(i) == <<Do("fresh", i, 0), Do("open", i, 0), Do("keep", i, 0)>>

DestroySession(i) == Else(Find(i) \o <<Do("close", i, 0), Do("drop", i, 0)>>, <<>>)

SessionCreate(i) == CreateSession(i) \o Visit(i)
DestroyAllSessions == ForEach(Ids, DestroySession) \o <<Do("quit", Host, 0)>>
SessionRecover(i) == Find(i) \o Visit(i)
SessionWaitUntilReady(i) == Find(i) \o WaitForAgentBridge(i)
SessionSmartClick(i, button) == Find(i) \o <<Do("click", i, button)>>
SessionSmartClickTestid(i, button) == SessionSmartClick(i, button)

\* Tools that wait for an element and click, fill or read it: none of the buttons below.
SessionElement(i) == Find(i) \o <<Do("element", i, 0)>>
SessionFormControl(i) == SessionElement(i)

\* Mutant: a session without a window gets none.
EnsureSessionReady_OnlyExisting(i) == Find(i) \o Visit(i)

EnsureSessionReady(i) == Else(Find(i) \o Visit(i), SessionCreate(i))

\* Register or log in by the API, set the cookie and load the page again.
AuthByApi(i) == <<Do("api", i, 0), Do("goto", i, 0)>>
AuthRegister(i) == Find(i) \o AuthByApi(i)
AuthRegisterUi(i) == Find(i) \o <<Do("form", i, 0)>>
SessionAuthStatus(i) == Find(i) \o <<Do("diagnose", i, 0)>>

\* The agent gives credentials for the sessions that are not logged in.
AuthenticatePlayer(i) ==
  EnsureSessionReady(i) \o <<Do("authed", i, 3)>> \o AuthByApi(i) \o WaitForAgentBridge(i)

CreateRoom(i) == Find(i) \o <<Do("click", i, "create"), Do("code", i, 0)>>
JoinRoom(i) == Find(i) \o <<Do("click", i, "join")>>
StartGame(i) == Find(i) \o <<Do("click", i, "start")>>
WaitForPhase(i, phase) == Find(i) \o PollAgentBridge(i, [phase |-> phase])

EveryoneIsIn == PollAgentBridge(Host, [players |-> Cardinality(Guests) + 1])

\* bridgeApi.configureDefaults: only the master tile and the wizard's step are awaited, and may fail.
ConfigureDefaults(i) ==
  LET script == CallAgentBridge(i, <<"locate", "configure", "distribute">>, <<"step">>)
  IN  SubSeq(script, 1, Len(script) - 2) \o Else(SubSeq(script, Len(script) - 1, Len(script)), <<>>)

\* bridgeApi.assignPlayers, which awaits nothing.
AssignPlayers(i, auto) ==
  CallAgentBridge(i, IF auto THEN <<"configure", "distribute">> ELSE <<"configure">>, <<>>)

SetAlliance(i) == Find(i) \o CallAgentBridge(i, <<"choose">>, <<>>)

ConfigureAlliancesAndAssignments(auto) ==
  Find(Host) \o AssignPlayers(Host, auto) \o IF auto THEN <<>> ELSE ForEach(Ids, SetAlliance)

BootstrapScenario(auto) ==
  AuthenticatePlayer(Host) \o ForEach(Guests, AuthenticatePlayer)
  \o CreateRoom(Host) \o PollAgentBridge(Host, [inRoom |-> TRUE])
  \o ForEach(Guests, JoinRoom) \o Find(Host) \o EveryoneIsIn
  \o ConfigureDefaults(Host) \o ConfigureAlliancesAndAssignments(auto)
  \o StartGame(Host) \o WaitForPhase(Host, "Playing")
  \o ForEach(Guests, LAMBDA g : WaitForPhase(g, "Playing"))

RoomConfigureDefaults(i) == Find(i) \o EveryoneIsIn \o ConfigureDefaults(i)
RoomWaitUntilJoinable(i) == Find(i) \o PollAgentBridge(i, [inLobby |-> TRUE])
RoomCanStart(i) == Find(i) \o WaitForAgentBridge(i) \o <<Do("canStart", i, 0)>>
StateWaitFor(i, criteria) == Find(i) \o PollAgentBridge(i, criteria)
StateWaitForEvent(i) == Find(i) \o <<Do("event", i, 0)>>
WaitForConnectionState(i) == Find(i) \o PollAgentBridge(i, [connected |-> TRUE])

\* Tools that read a snapshot, or change only what the page selects and shows.
Look(i) == Find(i) \o CallAgentBridge(i, <<>>, <<>>)
MapSelectHexNearPlayer(i) == Look(i) \o CallAgentBridge(i, <<>>, <<>>)
AssertSessionsInSync == ForEach(Ids, Look)

\* bridgeApi.setRules and setDynamics, which await nothing.
RoomSetRules(i) == Find(i) \o CallAgentBridge(i, <<"rules", "rules">>, <<>>)
RoomSetDynamics(i) == Find(i) \o CallAgentBridge(i, <<"rules">>, <<>>)

\* The buttons of the debug GPS; to navigate is to step and to look for the place.
PlayerStepHex(i) == Find(i) \o <<Do("click", i, "move")>>
PlayerNavigateToHex(i) ==
  Look(i) \o <<Do("click", i, "move")>> \o Else(PollAgentBridge(i, [inRoom |-> TRUE]), <<>>)

RoomReopenLastRoom(i) ==
  Find(i) \o WaitForAgentBridge(i) \o <<Do("recent", i, 0)>>
  \o Else(<<Do("click", i, "join")>> \o PollAgentBridge(i, [inRoom |-> TRUE]), <<>>)

\* The stages of scenario_inject_state; the last three run for all sessions at once.
ScenarioInjectState ==
  ForEach(Ids, LAMBDA i : Find(i) \o <<Do("needsAuth", i, 0)>>)
  \o [k \in 1..4 |-> Do(<<"inject", "navigate", "ready", "resume">>[k], Host, 0)]

ScenarioPopulateBoard ==
  Find(Host) \o <<Do("needsAuth", Host, 0), Do("populate", Host, 0)>>
  \o ForEach(Ids, LAMBDA i : Else(Find(i) \o Visit(i), <<>>))

\* attackHex: go there, preview, forget the last result, place the troops, wait for a result.
Attack(i) ==
  <<Do("clear", i, 0), Do("invoke", i, "place"), Do("answer", i, 0), Do("result", i, 0)>>
AttackHex(i) ==
  CallAgentBridge(i, <<>>, <<"move">>)
  \o Else(<<Do("invoke", i, "preview"), Do("answer", i, 0)>>, <<>>) \o Attack(i)
PlayerAttackHex(i) == Find(i) \o AttackHex(i)
PlayerClaimHex(i) == Find(i) \o CallAgentBridge(i, <<>>, <<"place">>)
PlayerPickupTroops(i) == Find(i) \o CallAgentBridge(i, <<>>, <<"pickup">>)
PlayerTeleportToHex(i) == Find(i) \o CallAgentBridge(i, <<>>, <<"move">>)

\* A batch: each action catches what it throws.
GameplayBatchActions(i) ==
  Find(i) \o WaitForAgentBridge(i) \o <<Do("evaluate", i, 0)>>
  \o Else(<<Do("invoke", i, "move"), Do("answer", i, 0), Do("invoke", i, "place"), Do("answer", i, 0)>>, <<>>)
  \o Else(<<Do("invoke", i, "move"), Do("answer", i, 0)>> \o Attack(i), <<>>)

Tool(t, i) ==
  CASE t = "session_create" -> SessionCreate(i)
    [] t = "session_destroy" -> DestroySession(i)
    [] t = "session_destroy_all" -> DestroyAllSessions
    [] t = "session_recover" -> SessionRecover(i)
    [] t = "session_wait_until_ready" -> SessionWaitUntilReady(i)
    [] t = "session_smart_click" -> SessionSmartClick(i, "create")
    [] t = "session_smart_click_testid" -> SessionSmartClickTestid(i, "start")
    [] t = "session_click" -> SessionElement(i)
    [] t = "session_select_option" -> SessionFormControl(i)
    [] t = "auth_register" -> AuthRegister(i)
    [] t = "auth_register_ui" -> AuthRegisterUi(i)
    [] t = "session_auth_status" -> SessionAuthStatus(i)
    [] t = "room_create" -> CreateRoom(i)
    [] t = "room_join" -> JoinRoom(i)
    [] t = "room_start" -> StartGame(i)
    [] t = "room_wait_until_joinable" -> RoomWaitUntilJoinable(i)
    [] t = "room_configure_defaults" -> RoomConfigureDefaults(i)
    [] t = "room_assign_players" -> ConfigureAlliancesAndAssignments(FALSE)
    [] t = "room_can_start" -> RoomCanStart(i)
    [] t = "room_reopen_last_room" -> RoomReopenLastRoom(i)
    [] t = "scenario_create" -> BootstrapScenario(TRUE)
    [] t = "scenario_assign" -> BootstrapScenario(FALSE)
    [] t = "scenario_inject_state" -> ScenarioInjectState
    [] t = "scenario_populate_board" -> ScenarioPopulateBoard
    [] t = "state_wait_for" -> StateWaitFor(i, [phase |-> "Playing"])
    [] t = "state_wait_for_event" -> StateWaitForEvent(i)
    [] t = "wait_for_connection_state" -> WaitForConnectionState(i)
    [] t = "state_game_snapshot" -> Look(i)
    [] t = "map_select_hex_near_player" -> MapSelectHexNearPlayer(i)
    [] t = "assert_sessions_in_sync" -> AssertSessionsInSync
    [] t = "room_set_rules" -> RoomSetRules(i)
    [] t = "room_set_dynamics" -> RoomSetDynamics(i)
    [] t = "player_step_hex" -> PlayerStepHex(i)
    [] t = "player_navigate_to_hex" -> PlayerNavigateToHex(i)
    [] t = "player_attack_hex" -> PlayerAttackHex(i)
    [] t = "player_claim_hex" -> PlayerClaimHex(i)
    [] t = "player_pickup_troops" -> PlayerPickupTroops(i)
    [] t = "player_teleport_to_hex" -> PlayerTeleportToHex(i)
    [] t = "gameplay_batch_actions" -> GameplayBatchActions(i)

Tools ==
  {"session_create", "session_destroy", "session_destroy_all", "session_recover",
   "session_wait_until_ready", "session_smart_click", "session_smart_click_testid",
   "session_click", "session_select_option", "auth_register", "auth_register_ui",
   "session_auth_status", "room_create", "room_join", "room_start", "room_wait_until_joinable",
   "room_configure_defaults", "room_assign_players", "room_can_start", "room_reopen_last_room",
   "scenario_create", "scenario_assign", "scenario_inject_state", "scenario_populate_board",
   "state_wait_for", "state_wait_for_event", "wait_for_connection_state", "state_game_snapshot",
   "map_select_hex_near_player", "assert_sessions_in_sync", "room_set_rules",
   "room_set_dynamics", "player_step_hex", "player_navigate_to_hex", "player_attack_hex", "player_claim_hex",
   "player_pickup_troops", "player_teleport_to_hex", "gameplay_batch_actions"}
Scenarios == {"scenario_create", "scenario_assign", "scenario_inject_state"}

Scripts == [t \in Tools |-> [i \in Ids |-> Tool(t, i)]]

\* The sessions that the steps of a script name.
Subjects(script) == {script[k].id : k \in {n \in DOMAIN script : script[n].do # "skip"}}

(***************************************************************************)
(* State                                                                   *)
(***************************************************************************)

Load == {"closed", "blank", "loading", "up", "live"}
Room == [code : Rooms, phase : {"Lobby", "Playing"}, host : Ids, in : SUBSET Ids,
         teams : SUBSET Ids, set : BOOLEAN, review : BOOLEAN]
ASSUME NoneIsNoRoom == None \notin Room
Fate == {"", "reloaded", "ready", "recovered", "failed"}

Blank == [at |-> "closed", user |-> None, token |-> FALSE, saved |-> None, resuming |-> FALSE,
          game |-> None, seat |-> None, fight |-> 0, log |-> 0, sent |-> <<>>, mail |-> <<>>]

NoCall == [tool |-> None, id |-> Host, todo |-> <<>>, on |-> [i \in Ids |-> 0], room |-> None,
           inPage |-> 0, waits |-> FALSE, left |-> {}, fate |-> [i \in Ids |-> ""],
           note |-> "", shot |-> 0, fight |-> 0, calm |-> FALSE, end |-> "done"]

TypeOK ==
  /\ sessions \in [Ids -> 0..MaxPages]
  /\ \A p \in Pages : /\ pages[p].at \in Load
                      /\ pages[p].user \in Ids \cup {None} /\ pages[p].saved \in Rooms \cup {None}
                      /\ pages[p].game \in Room \cup {None} /\ pages[p].fight <= Len(fights)
  /\ \A r \in Rooms : rooms[r] \in Room \cup {None} /\ (rooms[r] # None => rooms[r].code = r)
  /\ \A s \in Slots : /\ calls[s].end \in {"running", "done", "error"}
                      /\ calls[s].fate \in [Ids -> Fate] /\ calls[s].fight <= Len(fights)
  /\ shots \in Nat /\ events <= MaxEvents

OldRoom == [code |-> Old, phase |-> "Playing", host |-> Host, in |-> Ids, teams |-> Ids,
            set |-> TRUE, review |-> TRUE]

\* Nothing is open; or the sessions are logged in, at the entry screen or in a running game.
Init ==
  /\ rooms = [r \in Rooms |-> IF r = Old THEN OldRoom ELSE None]
  /\ \/ sessions = [i \in Ids |-> 0] /\ pages = [p \in Pages |-> Blank]
     \/ \E playing \in BOOLEAN :
          LET order == SetToSeq(Ids)
              of(p) == [Blank EXCEPT !.at = "live", !.user = order[p], !.token = TRUE,
                                     !.saved = IF playing THEN Old ELSE None,
                                     !.seat = IF playing THEN Old ELSE None,
                                     !.game = IF playing THEN OldRoom ELSE None]
          IN  /\ sessions = [i \in Ids |-> CHOOSE p \in DOMAIN order : order[p] = i]
              /\ pages = [p \in Pages |-> IF p <= Len(order) THEN of(p) ELSE Blank]
  /\ fights = <<>> /\ calls = [s \in Slots |-> NoCall]
  /\ shots = 0 /\ events = 0

Happens == events < MaxEvents /\ events' = events + 1

Running(s) == calls[s].end = "running"
Now(s) == Head(calls[s].todo)
At(s, op) == Running(s) /\ Now(s).do = op

\* What a call does between two awaits: nothing happens in the middle of it.
InAStretch(s) ==
  Running(s) /\ Now(s).do \in {"find", "fresh", "keep", "drop", "authed", "needsAuth", "send", "invoke", "clear"}
AllAwait == \A s \in Slots : ~InAStretch(s)
Awaits(s, op) == At(s, op) /\ AllAwait

\* The page that the step of a call is about.
PageOf(s) == calls[s].on[Now(s).id]
Ready(p) == p # 0 /\ pages[p].at \in {"up", "live"}

\* What is left of a call that is over: what it reports, if a property asks for it.
Ended(c, end) ==
  IF c.fight = 0 /\ ~c.calm THEN [NoCall EXCEPT !.note = c.note]
  ELSE [c EXCEPT !.on = NoCall.on, !.todo = <<>>, !.inPage = 0, !.waits = FALSE, !.left = {}, !.end = end]

\* A call with the rest of its script: a catch block that is not needed is passed over.
Settled(c, rest) ==
  LET todo == IF rest # <<>> /\ Head(rest).do = "skip" THEN SubSeq(rest, Head(rest).arg + 2, Len(rest)) ELSE rest
  IN  IF todo = <<>> THEN Ended(c, "done") ELSE [c EXCEPT !.todo = todo, !.left = Ids]

After(c, n) == SubSeq(c.todo, n + 1, Len(c.todo))
Moved(c) == Settled(c, After(c, 1))

\* An operation throws: the call goes to the catch block, or ends.
Thrown(c) ==
  IF Head(c.todo).or = 0 THEN Ended(c, "error") ELSE Settled(c, After(c, Head(c.todo).or))

Goes(s, c) == calls' = [calls EXCEPT ![s] = c]
Proceeds(s) == Goes(s, Moved(calls[s]))
Throws(s) == Goes(s, Thrown(calls[s]))

----------------------------------------------------------------------------
(* The registry of sessions *)

\* getSession
FindSession(s) ==
  /\ At(s, "find")
  /\ LET i == Now(s).id
     IN  IF sessions[i] = 0 THEN Throws(s)
         ELSE Goes(s, Moved([calls[s] EXCEPT !.on[i] = sessions[i]]))
  /\ UNCHANGED <<sessions, pages, hub, shots, events>>

CheckName(s) ==
  /\ At(s, "fresh")
  /\ IF sessions[Now(s).id] # 0 THEN Throws(s) ELSE Proceeds(s)
  /\ UNCHANGED <<sessions, pages, hub, shots, events>>

\* The bound on contexts: those that are closed and forgotten may be opened anew.
Held(p) == \/ \E i \in Ids : sessions[i] = p
           \/ \E s \in Slots : Running(s) /\ \E i \in Ids : calls[s].on[i] = p
Free == {p \in Pages : pages[p].at = "closed" /\ ~Held(p)}

NewPage(s) ==
  /\ Awaits(s, "open") /\ Free # {}
  /\ LET p == CHOOSE p \in Free : \A q \in Free : p <= q
     IN  /\ pages' = [pages EXCEPT ![p] = [Blank EXCEPT !.at = "blank"]]
         /\ Goes(s, Moved([calls[s] EXCEPT !.on[Now(s).id] = p]))
  /\ UNCHANGED <<sessions, hub, shots, events>>

KeepSession(s) ==
  /\ At(s, "keep")
  /\ sessions' = [sessions EXCEPT ![Now(s).id] = PageOf(s)]
  /\ Proceeds(s)
  /\ UNCHANGED <<pages, hub, shots, events>>

\* What a page has in its memory, and its connection, go with it; its storage stays.
Emptied(page, at) ==
  [page EXCEPT !.at = at, !.resuming = FALSE, !.game = None, !.seat = None, !.fight = 0,
               !.log = 0, !.sent = <<>>, !.mail = <<>>]

\* The methods that ran in the page are torn off.
Torn(p) == [s \in Slots |-> IF calls[s].inPage = p THEN [calls[s] EXCEPT !.inPage = 0] ELSE calls[s]]

CloseContext(s) ==
  /\ Awaits(s, "close")
  /\ pages' = [pages EXCEPT ![PageOf(s)] = Emptied(Blank, "closed")]
  /\ calls' = [Torn(PageOf(s)) EXCEPT ![s] = Moved(calls[s])]
  /\ UNCHANGED <<sessions, hub, shots, events>>

DropSession(s) ==
  /\ At(s, "drop")
  /\ sessions' = [sessions EXCEPT ![Now(s).id] = 0]
  /\ Proceeds(s)
  /\ UNCHANGED <<pages, hub, shots, events>>

\* browser.close() takes every context along.
CloseBrowser(s) ==
  /\ Awaits(s, "quit")
  /\ pages' = [p \in Pages |-> Blank]
  /\ calls' = [t \in Slots |-> IF t = s THEN Moved(calls[s]) ELSE [calls[t] EXCEPT !.inPage = 0]]
  /\ UNCHANGED <<sessions, hub, shots, events>>

----------------------------------------------------------------------------
(* Steps on a page *)

\* page.goto, page.reload
Navigate(s) ==
  /\ Awaits(s, "goto")
  /\ IF pages[PageOf(s)].at = "closed" THEN Throws(s) /\ UNCHANGED pages
     ELSE /\ pages' = [pages EXCEPT ![PageOf(s)] = Emptied(@, "loading")]
          /\ calls' = [Torn(PageOf(s)) EXCEPT ![s] = Moved(calls[s])]
  /\ UNCHANGED <<sessions, hub, shots, events>>

BridgeIsUp(s) ==
  /\ Awaits(s, "bridge") /\ Ready(PageOf(s))
  /\ Proceeds(s)
  /\ UNCHANGED <<sessions, pages, hub, shots, events>>

\* The API gives a token, which becomes the cookie of the page.
ApiAnswers(s) ==
  /\ Awaits(s, "api") /\ pages[PageOf(s)].at # "closed"
  /\ pages' = [pages EXCEPT ![PageOf(s)].user = Now(s).id, ![PageOf(s)].token = TRUE]
  /\ Proceeds(s)
  /\ UNCHANGED <<sessions, hub, shots, events>>

\* The sign-up form: the page logs in and connects, the registry learns no token.
SignUp(s) ==
  /\ Awaits(s, "form") /\ Ready(PageOf(s)) /\ pages[PageOf(s)].user = None
  /\ pages' = [pages EXCEPT ![PageOf(s)].user = Now(s).id]
  /\ Proceeds(s)
  /\ UNCHANGED <<sessions, hub, shots, events>>

SkipLogin(s) ==
  /\ At(s, "authed")
  /\ Goes(s, IF pages[PageOf(s)].token THEN Settled(calls[s], After(calls[s], Now(s).arg))
             ELSE Moved(calls[s]))
  /\ UNCHANGED <<sessions, pages, hub, shots, events>>

RequireLogin(s) ==
  /\ At(s, "needsAuth")
  /\ IF pages[PageOf(s)].token THEN Proceeds(s) ELSE Throws(s)
  /\ UNCHANGED <<sessions, pages, hub, shots, events>>

\* session_auth_status, without asking the backend.
Diagnosis(page) ==
  CASE page.user # None /\ ~page.token -> "partial_auth"
    [] ~page.token -> "mcp_auth_missing"
    [] page.at \notin {"up", "live"} -> "bridge_unavailable"
    [] OTHER -> "ok"

Diagnose(s) ==
  /\ Awaits(s, "diagnose")
  /\ Goes(s, Moved([calls[s] EXCEPT !.note = Diagnosis(pages[PageOf(s)])]))
  /\ UNCHANGED <<sessions, pages, hub, shots, events>>

\* What room_can_start and the wizard's canStart ask of the state a page shows.
CanStart(game) == game.set /\ Cardinality(game.in) >= 2 /\ game.in \subseteq game.teams

CheckStart(s) ==
  /\ Awaits(s, "canStart") /\ Ready(PageOf(s))
  /\ LET game == pages[PageOf(s)].game
     IN  Goes(s, Moved([calls[s] EXCEPT !.note = IF game # None /\ CanStart(game) THEN "yes" ELSE "no"]))
  /\ UNCHANGED <<sessions, pages, hub, shots, events>>

\* view, as the bridge reports it.
View(page) == IF page.game = None \/ page.game.phase = "Lobby" THEN "lobby" ELSE "game"

Meets(page, field, want, room) ==
  CASE field = "connected" -> page.at = "live"
    [] field = "phase" -> page.game # None /\ page.game.phase = want
    [] field = "players" -> page.game # None /\ Cardinality(page.game.in) >= want
    [] field = "inRoom" -> page.game # None /\ (room # None => page.game.code = room)
    [] field = "inLobby" -> page.game # None /\ page.game.phase = "Lobby" /\ View(page) = "lobby"

\* matchesStateCriteria: every criterion that is given.
Matches(page, criteria, room) ==
  \A field \in DOMAIN criteria : Meets(page, field, criteria[field], room)

SnapshotMatches(s) ==
  /\ Awaits(s, "until") /\ Ready(PageOf(s))
  /\ Matches(pages[PageOf(s)], Now(s).arg, calls[s].room)
  /\ Proceeds(s)
  /\ UNCHANGED <<sessions, pages, hub, shots, events>>

\* state_wait_for_event: a fight has been logged since the page was loaded.
EventSeen(s) ==
  /\ Awaits(s, "event") /\ Ready(PageOf(s)) /\ pages[PageOf(s)].log > 0
  /\ Proceeds(s)
  /\ UNCHANGED <<sessions, pages, hub, shots, events>>

\* The wizard shows the code of the room it is in.
ReadCode(s) ==
  /\ Awaits(s, "code") /\ Ready(PageOf(s))
  /\ LET game == pages[PageOf(s)].game
     IN  /\ game # None /\ game.phase = "Lobby"
         /\ Goes(s, Moved([calls[s] EXCEPT !.room = game.code]))
  /\ UNCHANGED <<sessions, pages, hub, shots, events>>

\* The room a snapshot tells as recent: getBridgeSnapshot has none of the fields looked for.
RecentRoom(page) == None

ReopenRecent(s) ==
  /\ Awaits(s, "recent") /\ Ready(PageOf(s))
  /\ LET recent == RecentRoom(pages[PageOf(s)])
     IN  Goes(s, IF recent = None THEN Ended(calls[s], "done")
                 ELSE Moved([calls[s] EXCEPT !.room = recent]))
  /\ UNCHANGED <<sessions, pages, hub, shots, events>>

\* The element is there, and the click or the reading is done.
UseElement(s) ==
  /\ Awaits(s, "element") /\ Ready(PageOf(s))
  /\ Proceeds(s)
  /\ UNCHANGED <<sessions, pages, hub, shots, events>>

\* A hub call that nobody waits for.
Ask(what, room) == [what |-> what, room |-> room, slot |-> 0, shot |-> 0]

\* A page makes a hub call; without a connection it is lost.
Sent(page, ask) == IF page.at = "live" THEN [page EXCEPT !.sent = Append(@, ask)] ELSE page

\* The buttons, where they are shown and enabled; a resume in progress refuses the first two.
ClickButton(s) ==
  /\ Awaits(s, "click") /\ PageOf(s) # 0
  /\ LET page == pages[PageOf(s)]
         button == Now(s).arg
     IN  /\ page.at = "live"
         /\ CASE button = "create" -> page.user # None /\ page.game = None
              [] button = "join" -> page.user # None /\ page.game = None /\ calls[s].room # None
              [] button = "move" -> page.game # None
              [] button = "start" -> /\ page.game # None /\ page.game.phase = "Lobby"
                                     /\ page.game.host = page.user /\ page.game.review
                                     /\ CanStart(page.game)
         /\ pages' = [pages EXCEPT ![PageOf(s)] =
                        IF page.resuming /\ button \in {"create", "join"} THEN @
                        ELSE Sent(@, Ask(button, calls[s].room))]
  /\ Proceeds(s)
  /\ UNCHANGED <<sessions, hub, shots, events>>

----------------------------------------------------------------------------
(* Methods of the bridge, which run in the page *)

EnterPage(s) ==
  /\ Awaits(s, "evaluate") /\ Ready(PageOf(s))
  /\ Goes(s, Moved([calls[s] EXCEPT !.inPage = PageOf(s)]))
  /\ UNCHANGED <<sessions, pages, hub, shots, events>>

\* handleX of the lobby: the hub is called and nobody waits.
SendToHub(s) ==
  /\ At(s, "send")
  /\ pages' = [pages EXCEPT ![PageOf(s)] = Sent(@, Ask(Now(s).arg, None))]
  /\ Proceeds(s)
  /\ UNCHANGED <<sessions, hub, shots, events>>

\* await invoke(..), which throws at once without a connection.
InvokeHub(s) ==
  /\ At(s, "invoke")
  /\ LET place == Now(s).arg = "place"
     IN  /\ shots' = IF place THEN shots + 1 ELSE shots
         /\ pages' = [pages EXCEPT ![PageOf(s)] = Sent(@, [Ask(Now(s).arg, None) EXCEPT !.slot = s, !.shot = shots'])]
         /\ IF pages[PageOf(s)].at # "live" THEN Throws(s)
            ELSE Goes(s, Moved([calls[s] EXCEPT !.waits = TRUE, !.fight = 0,
                                                !.shot = IF place THEN shots' ELSE @]))
  /\ UNCHANGED <<sessions, hub, events>>

AnswerCame(s) ==
  /\ Awaits(s, "answer") /\ calls[s].inPage # 0 /\ ~calls[s].waits
  /\ Proceeds(s)
  /\ UNCHANGED <<sessions, pages, hub, shots, events>>

\* Mutant: the last result stays in the store.
Forgotten_Kept(page) == page

\* setCombatResult(null)
Forgotten(page) == [page EXCEPT !.fight = 0]

ForgetResult(s) ==
  /\ At(s, "clear")
  /\ pages' = [pages EXCEPT ![PageOf(s)] = Forgotten(@)]
  /\ Proceeds(s)
  /\ UNCHANGED <<sessions, hub, shots, events>>

\* The result in the store; or none, when the deadline has passed.
ReadResult(s) ==
  /\ Awaits(s, "result") /\ calls[s].inPage # 0
  /\ Goes(s, Moved([calls[s] EXCEPT !.fight = pages[calls[s].inPage].fight]))
  /\ UNCHANGED <<sessions, pages, hub, shots, events>>

\* The page of a running method was loaded again or closed: the evaluation is rejected.
EvaluationTorn(s) ==
  /\ (Awaits(s, "answer") \/ Awaits(s, "result")) /\ calls[s].inPage = 0
  /\ Goes(s, Ended([calls[s] EXCEPT !.calm = FALSE], "error"))
  /\ UNCHANGED <<sessions, pages, hub, shots, events>>

\* A wait times out, an element is not there, the API refuses, or the page is gone.
GivesUp(s) ==
  /\ AllAwait /\ Happens /\ Running(s)
  /\ Now(s).do \in {"goto", "bridge", "api", "form", "until", "event", "code", "click", "element",
                    "canStart", "recent", "evaluate", "inject", "populate"}
  /\ Goes(s, [Thrown(calls[s]) EXCEPT !.calm = FALSE])
  /\ UNCHANGED <<sessions, pages, hub, shots>>

----------------------------------------------------------------------------
(* scenario_inject_state and scenario_populate_board *)

Fresh == {r \in Rooms : rooms[r] = None}

\* CreateScenarioRoom: every player is seated in a running game of a new room.
InjectRoom(s) ==
  /\ Awaits(s, "inject")
  /\ \E r \in Fresh :
       /\ rooms' = [rooms EXCEPT ![r] = [OldRoom EXCEPT !.code = r]]
       /\ Goes(s, Moved([calls[s] EXCEPT !.room = r]))
  /\ UNCHANGED <<sessions, pages, fights, shots, events>>

PopulateBoard(s) ==
  /\ Awaits(s, "populate")
  /\ \E r \in Rooms : rooms[r] # None /\ rooms[r].phase = "Playing"
  /\ Proceeds(s)
  /\ UNCHANGED <<sessions, pages, hub, shots, events>>

\* One session of a stage is through; the stage is over with the last.
OneDone(c, i) == IF c.left = {i} THEN Moved(c) ELSE [c EXCEPT !.left = @ \ {i}]

\* getSession is outside the try of every stage.
StageThrows(s) ==
  /\ Awaits(s, "navigate") \/ Awaits(s, "ready")
  /\ \E i \in calls[s].left : sessions[i] = 0
  /\ Throws(s)
  /\ UNCHANGED <<sessions, pages, hub, shots, events>>

\* frontend_navigation: a page that fails to load is noted, no more.
NavigateAll(s) ==
  /\ Awaits(s, "navigate")
  /\ \E i \in calls[s].left :
       LET p == sessions[i]
       IN  /\ p # 0
           /\ pages' = [pages EXCEPT ![p] = IF @.at = "closed" THEN @ ELSE Emptied(@, "loading")]
           /\ calls' = [Torn(p) EXCEPT ![s] = OneDone([calls[s] EXCEPT !.on[i] = p], i)]
  /\ UNCHANGED <<sessions, hub, shots, events>>

\* bridge_ready, and a wait that is given up.
BridgeOfAll(s) ==
  /\ Awaits(s, "ready")
  /\ \E i \in calls[s].left : \E intime \in BOOLEAN :
       /\ intime => Ready(calls[s].on[i])
       /\ Goes(s, OneDone([calls[s] EXCEPT !.calm = @ /\ intime], i))
  /\ UNCHANGED <<sessions, pages, hub, shots, events>>

\* What a poll of the resume stage waits for.
InInjectedRoom(s, i) ==
  LET p == calls[s].on[i]
  IN  Ready(p) /\ Matches(pages[p], [phase |-> "Playing", inRoom |-> TRUE], calls[s].room)

\* resume_poll: the page shows the injected room, at the first attempt or after a reload.
ResumeSeen(s) ==
  /\ Awaits(s, "resume")
  /\ \E i \in calls[s].left :
       /\ InInjectedRoom(s, i)
       /\ Goes(s, OneDone([calls[s] EXCEPT !.fate[i] = IF @ = "" THEN "ready" ELSE "recovered"], i))
  /\ UNCHANGED <<sessions, pages, hub, shots, events>>

\* The first attempt is over and the page was last seen in the lobby: it is loaded again.
ResumeAgain(s) ==
  /\ Awaits(s, "resume")
  /\ \E i \in calls[s].left :
       LET p == calls[s].on[i]
       IN  /\ calls[s].fate[i] = "" /\ Ready(p) /\ View(pages[p]) = "lobby"
           /\ pages' = [pages EXCEPT ![p] = Emptied(@, "loading")]
           /\ calls' = [Torn(p) EXCEPT ![s] = [calls[s] EXCEPT !.fate[i] = "reloaded", !.calm = FALSE]]
  /\ UNCHANGED <<sessions, hub, shots, events>>

ResumeFails(s) ==
  /\ Awaits(s, "resume")
  /\ \E i \in calls[s].left :
       /\ \/ calls[s].fate[i] = "reloaded" \/ ~Ready(calls[s].on[i])
          \/ View(pages[calls[s].on[i]]) # "lobby"
       /\ Goes(s, OneDone([calls[s] EXCEPT !.fate[i] = "failed", !.calm = FALSE], i))
  /\ UNCHANGED <<sessions, pages, hub, shots, events>>

----------------------------------------------------------------------------
(* The page *)

\* The app is mounted and the bridge installed, before login and connection.
PageLoads(p) ==
  /\ AllAwait /\ pages[p].at = "loading"
  /\ pages' = [pages EXCEPT ![p].at = "up"]
  /\ UNCHANGED <<sessions, hub, calls, shots, events>>

\* The connection is there, and useAutoResume rejoins the room that was saved.
Connect(p) ==
  /\ AllAwait /\ pages[p].at = "up" /\ pages[p].user # None
  /\ LET page == [pages[p] EXCEPT !.at = "live", !.resuming = pages[p].saved # None]
     IN  pages' = [pages EXCEPT ![p] =
                     IF page.resuming THEN Sent(page, Ask("rejoin", page.saved)) ELSE page]
  /\ UNCHANGED <<sessions, hub, calls, shots, events>>

\* The head of what the hub has sent.
Receive(p) ==
  /\ AllAwait /\ pages[p].mail # <<>>
  /\ LET msg == Head(pages[p].mail)
         page == [pages[p] EXCEPT !.mail = Tail(@)]
     IN  /\ pages' = [pages EXCEPT ![p] =
                        CASE msg.what = "room" -> [page EXCEPT !.game = msg.room, !.saved = msg.room.code,
                                                               !.resuming = FALSE]
                          [] msg.what = "stale" -> [page EXCEPT !.game = None, !.saved = None,
                                                                !.resuming = FALSE]
                          [] msg.what = "fight" -> [page EXCEPT !.fight = msg.n, !.log = @ + 1]
                          [] msg.what = "answer" -> page]
         /\ calls' = IF msg.what = "answer" /\ calls[msg.slot].inPage = p
                     THEN [calls EXCEPT ![msg.slot].waits = FALSE] ELSE calls
  /\ UNCHANGED <<sessions, hub, shots, events>>

\* PlayerJoined, StateUpdated, GameStarted: the page catches up with its room.
CatchUp(p) ==
  /\ AllAwait /\ pages[p].at = "live" /\ pages[p].game # None /\ pages[p].seat = pages[p].game.code
  /\ pages[p].game # rooms[pages[p].seat]
  /\ pages' = [pages EXCEPT ![p].game = rooms[pages[p].seat]]
  /\ UNCHANGED <<sessions, hub, calls, shots, events>>

----------------------------------------------------------------------------
(* The hub: the calls of a connection in their order *)

Answered(page, msgs) == [page EXCEPT !.sent = Tail(@), !.mail = @ \o msgs]
AnswerTo(slot) == IF slot = 0 THEN <<>> ELSE <<[what |-> "answer", slot |-> slot]>>

\* The host's calls in the lobby, and the choice of an alliance.
InLobby(room, what, u) ==
  CASE room.phase # "Lobby" -> room
    [] what = "choose" -> [room EXCEPT !.teams = @ \cup {u}]
    [] room.host # u -> room
    [] what = "locate" -> [room EXCEPT !.set = TRUE]
    [] what = "configure" -> [room EXCEPT !.teams = {}]
    [] what = "distribute" -> [room EXCEPT !.teams = room.in]
    [] what = "step" -> [room EXCEPT !.review = TRUE]
    [] what = "start" -> IF CanStart(room) THEN [room EXCEPT !.phase = "Playing"] ELSE room
    [] OTHER -> room

\* CreateRoom, JoinRoom and RejoinRoom seat the connection.
Seat(p) ==
  /\ AllAwait /\ pages[p].sent # <<>> /\ Head(pages[p].sent).what \in {"create", "join", "rejoin"}
  /\ LET req == Head(pages[p].sent)
         u == pages[p].user
         enter(r, room) ==
           /\ rooms' = [rooms EXCEPT ![r] = room]
           /\ pages' = [pages EXCEPT ![p] =
                          Answered([@ EXCEPT !.seat = r], <<[what |-> "room", room |-> room]>>)]
         refuse(msgs) == pages' = [pages EXCEPT ![p] = Answered(@, msgs)] /\ UNCHANGED rooms
     IN  CASE req.what = "create" ->
                \E r \in Fresh : enter(r, [code |-> r, phase |-> "Lobby", host |-> u, in |-> {u},
                                           teams |-> {}, set |-> FALSE, review |-> FALSE])
           [] req.what = "join" ->
                IF rooms[req.room] # None /\ (rooms[req.room].phase = "Lobby" \/ u \in rooms[req.room].in)
                THEN enter(req.room, [rooms[req.room] EXCEPT !.in = @ \cup {u}]) ELSE refuse(<<>>)
           [] req.what = "rejoin" ->
                IF u \in rooms[req.room].in THEN enter(req.room, rooms[req.room])
                ELSE refuse(<<[what |-> "stale"]>>)
  /\ UNCHANGED <<sessions, fights, calls, shots, events>>

\* Every other call, on the room of the connection.
Serve(p) ==
  /\ AllAwait /\ pages[p].sent # <<>>
  /\ LET req == Head(pages[p].sent)
     IN  /\ req.what \notin {"create", "join", "rejoin", "place"}
         /\ rooms' = IF pages[p].seat = None THEN rooms
                     ELSE [rooms EXCEPT ![pages[p].seat] = InLobby(@, req.what, pages[p].user)]
         /\ pages' = [pages EXCEPT ![p] = Answered(@, AnswerTo(req.slot))]
  /\ UNCHANGED <<sessions, fights, calls, shots, events>>

\* PlaceTroops: refused or a claim; or a fight, of which the defender hears if he sees the hex.
PlaceTroops(p) ==
  /\ AllAwait /\ pages[p].sent # <<>> /\ Head(pages[p].sent).what = "place"
  /\ LET slot == Head(pages[p].sent).slot
         n == Len(fights) + 1
         told == <<[what |-> "fight", n |-> n]>>
         foes == {q \in Pages : q # p /\ pages[q].seat = pages[p].seat}
     IN  \/ /\ pages' = [pages EXCEPT ![p] = Answered(@, AnswerTo(slot))]
            /\ UNCHANGED fights
         \/ /\ pages[p].seat # None /\ rooms[pages[p].seat].phase = "Playing"
            /\ fights' = Append(fights, [by |-> pages[p].user, shot |-> Head(pages[p].sent).shot])
            /\ \E hears \in SUBSET foes :
                 pages' = [q \in Pages |->
                             IF q = p THEN Answered(pages[p], told \o AnswerTo(slot))
                             ELSE IF q \in hears THEN [pages[q] EXCEPT !.mail = @ \o told]
                             ELSE pages[q]]
  /\ UNCHANGED <<sessions, rooms, calls, shots, events>>

----------------------------------------------------------------------------
(* The agent, and a person at the window *)

\* Nothing runs, no page has or will have a room to resume, no window was closed
\* by hand, and (a bound) there is room for one more room.
Quiet ==
  /\ \A s \in Slots : ~Running(s)
  /\ \A p \in Pages : pages[p].saved = None /\ pages[p].sent = <<>> /\ pages[p].mail = <<>>
  /\ \A i \in Ids : sessions[i] # 0 => pages[sessions[i]].at # "closed"
  /\ Fresh # {}

\* A tool call.  A join names a room that exists.
StartCall(s) ==
  /\ AllAwait /\ ~Running(s) /\ \A o \in Slots : o < s => Running(o)
  /\ Happens
  /\ \E t \in Tools, i \in Ids, r \in {q \in Rooms : rooms[q] # None} :
       LET new == [NoCall EXCEPT !.tool = IF t \in Scenarios THEN t ELSE None, !.id = i, !.left = Ids, !.end = "running",
                                 !.room = IF t = "room_join" THEN r ELSE None, !.calm = Quiet /\ t \in Scenarios]
       IN  /\ t # "room_join" => r = Old
           /\ Careful => \A o \in Slots : Running(o) => Subjects(calls[o].todo) \cap Subjects(Scripts[t][i]) = {}
           /\ calls' = [o \in Slots |-> IF o = s THEN Settled(new, Scripts[t][i]) ELSE [calls[o] EXCEPT !.calm = FALSE]]
  /\ UNCHANGED <<sessions, pages, hub, shots>>

\* The browser is not headless: a person closes a page or loads it again.
Meddle(p) ==
  /\ AllAwait /\ Happens /\ pages[p].at # "closed"
  /\ \E at \in {"closed", IF pages[p].at = "blank" THEN "blank" ELSE "loading"} :
       pages' = [pages EXCEPT ![p] = Emptied(@, at)]
  /\ calls' = [s \in Slots |-> [Torn(p)[s] EXCEPT !.calm = FALSE]]
  /\ UNCHANGED <<sessions, hub, shots>>

Step(s) ==
  \/ FindSession(s) \/ CheckName(s) \/ NewPage(s) \/ KeepSession(s) \/ CloseContext(s)
  \/ DropSession(s) \/ CloseBrowser(s)
  \/ Navigate(s) \/ BridgeIsUp(s) \/ ApiAnswers(s) \/ SignUp(s) \/ SkipLogin(s) \/ RequireLogin(s)
  \/ Diagnose(s) \/ CheckStart(s) \/ SnapshotMatches(s) \/ EventSeen(s) \/ ReadCode(s)
  \/ ReopenRecent(s) \/ UseElement(s) \/ ClickButton(s)
  \/ EnterPage(s) \/ SendToHub(s) \/ InvokeHub(s) \/ AnswerCame(s) \/ ForgetResult(s)
  \/ ReadResult(s) \/ EvaluationTorn(s)
  \/ InjectRoom(s) \/ PopulateBoard(s) \/ StageThrows(s) \/ NavigateAll(s) \/ BridgeOfAll(s)
  \/ ResumeSeen(s) \/ ResumeFails(s)

PageStep(p) == PageLoads(p) \/ Connect(p) \/ Receive(p) \/ CatchUp(p) \/ Seat(p) \/ Serve(p) \/ PlaceTroops(p)

\* What goes on by itself: the event loops of the tools, the pages and the hub.
Proceed ==
  \/ \E s \in Slots : Running(s) /\ Step(s)
  \/ AllAwait /\ \E p \in Pages : PageStep(p)

Next ==
  \/ \E s \in Slots : Step(s) \/ GivesUp(s) \/ ResumeAgain(s) \/ StartCall(s)
  \/ \E p \in Pages : PageStep(p) \/ Meddle(p)

\* While anything can go on, something does; nothing makes a wait time out.
Fairness == WF_vars(Proceed)

Spec == Init /\ [][Next]_vars /\ Fairness

----------------------------------------------------------------------------
(* Properties *)

\* No window is lost: an open page is registered, or a running call still
\* holds it, as long as the agent has one call at a time about a session
\* (createSession looks a name up long before it takes it).
NoPageIsLost == \A p \in Pages : pages[p].at # "closed" => Held(p)

\* A fight that an attack reports and that its own session started is the
\* fight of this attack, not of an earlier one: the result is forgotten
\* before, and the hub's messages keep their order (agentBridge.attackHex).
OwnFightReported ==
  \A s \in Slots :
    LET c == calls[s]
    IN  c.fight # 0 /\ fights[c.fight].by = c.id => fights[c.fight].shot = c.shot

\* A scenario whose players are distributed by the host, started alone with
\* sessions that have no room to resume, and in which no wait times out, ends
\* with every page in the running game of the new room (bootstrapScenario).
ScenarioStarts ==
  LET awaited(s) == calls[s].tool = "scenario_create" /\ calls[s].calm
      arrived(s) == /\ calls[s].end = "done"
                    /\ \A i \in Ids :
                         LET p == sessions[i]
                         IN  p # 0 /\ Matches(pages[p], [phase |-> "Playing", inRoom |-> TRUE], calls[s].room)
  IN  (\E s \in Slots : awaited(s)) ~> (\A s \in Slots : awaited(s) => arrived(s))

\* Not so: assignments are sent by the guests' own pages, and the host's new
\* list of alliances, which nobody waits for, may undo them.
AssignedScenarioStarts ==
  \A s \in Slots :
    Running(s) /\ calls[s].tool = "scenario_assign" ~> ~calls[s].calm \/ calls[s].end = "done"

\* Not so, though scenario_inject_state says that its sessions get there by
\* useAutoResume: a page resumes the room it has saved, never the injected one.
InjectedSessionsResume ==
  \A s \in Slots :
    At(s, "resume") ~> ~calls[s].calm \/ \A i \in Ids : calls[s].fate[i] \in {"ready", "recovered"}

=============================================================================
