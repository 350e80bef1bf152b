----------------------------- MODULE AbilityCards -----------------------------
(***************************************************************************)
(* The abilities on one player's screen: the buttons of the HUD, the card  *)
(* of the ability in use, what the state events make of them, the panels   *)
(* of battle invitations and troop offers, and the ledge of notices; with  *)
(* as much of the hub as answers them.                                     *)
(*                                                                         *)
(* Hub methods of abilities return nothing, so a refused call is answered  *)
(* like a granted one, after an Error message.  Calls and messages keep    *)
(* their order on a connection and are lost with it.                       *)
(***************************************************************************)
EXTENDS Naturals, Sequences, FiniteSets, SequencesExt

CONSTANTS
  Nothing,      \* no ability, no panel
  Grounds,      \* kinds of hexes to stand on: own, hostile, fort (hostile), foes (neutral, with foes)
  Invites,      \* battles this player is invited to
  Offers,       \* troop transfers offered to this player
  MaxItems,     \* MAX_ITEMS of the ledge (10)
  MaxActs,      \* bound: clicks
  MaxUpsets     \* bound: what others and the clock do, lost connections and positions

Missions == {"fort", "sabotage", "demolish"}
Buffs == {"raid", "beacon", "strike", "rally"}
Abilities == Missions \cup Buffs \cup {"battle", "intercept", "shareIntel"}
Roles == {"Commander", "Engineer", "Scout"}
Modes == {"idle", "targeting", "confirming", "active", "inProgress"}

\* abilityRegistry and the buttons of the HUD; battle has none.  The card that
\* sends troops has none either, and nothing else opens it: it is left out.
CommanderButtons == {"strike", "rally", "raid"}
EngineerButtons == {"fort", "sabotage", "demolish"}
ScoutButtons == {"intercept", "beacon", "shareIntel"}

Buttons(r) ==
  CASE r = "Commander" -> CommanderButtons
    [] r = "Engineer"  -> EngineerButtons
    [] r = "Scout"     -> ScoutButtons

\* Where an ability is started from: what the card asks and what the hub asks.
Fits(a, place) ==
  /\ a \in {"fort", "rally"} => place = "own"
  /\ a = "sabotage" => place \in {"hostile", "fort"}
  /\ a = "demolish" => place = "fort"
  /\ a = "battle" => place = "foes"

\* What stays on the ledge until its cause is gone.
Lasting == {"location", "error", "paused"}

ASSUME GroundsAreKnown == Grounds \subseteq {"own", "hostile", "fort", "foes"}
ASSUME NothingIsApart == Nothing \notin Abilities \cup Invites \cup Offers
ASSUME BattlesAreNoOffers == Invites \cap Offers = {}
ASSUME LedgeHasRoom == MaxItems \in Nat /\ Cardinality(Lasting) <= MaxItems

VARIABLES
  role,        \* the player's role
  running,     \* hub: the abilities that are on
  cooling,     \* hub: the abilities on cooldown
  place,       \* hub: where the player stands
  paused,      \* hub: IsPaused
  open,        \* hub: invitations and offers not yet answered
  shown,       \* gameState: running, cooling, place and paused
  ui,          \* abilityUi: ability, mode and visible
  panel,       \* fieldBattleInvite and troopTransferRequest
  timers,      \* notificationTimers, by what they were set for
  error,       \* uiStore.error is set
  lost,        \* locationError is set
  ledge,       \* items of the ledge, oldest first
  waved,       \* lasting items that the player has dismissed
  connected, calls, wire,
  acts, upsets

hub == <<role, running, cooling, place, paused, open>>
panels == <<panel, timers>>
notices == <<error, lost, ledge, waved>>
link == <<connected, calls, wire>>
bounds == <<acts, upsets>>
cardVars == <<hub, shown, ui, panels, notices, link, bounds>>

Idle == [ability |-> Nothing, mode |-> "idle", visible |-> FALSE]
Entered(a, mode, visible) == [ability |-> a, mode |-> mode, visible |-> visible]
RunningMode(a) == IF a \in Missions THEN "inProgress" ELSE "active"
State == [running |-> running, cooling |-> cooling, place |-> place, paused |-> paused]

CardsTypeOK ==
  /\ role \in Roles /\ running \subseteq Abilities /\ cooling \subseteq Abilities
  /\ place \in Grounds /\ paused \in BOOLEAN /\ open \subseteq Invites \cup Offers
  /\ shown \in [running : SUBSET Abilities, cooling : SUBSET Abilities, place : Grounds, paused : BOOLEAN]
  /\ ui \in [ability : Abilities \cup {Nothing}, mode : Modes, visible : BOOLEAN]
  /\ panel \in [invite : Invites \cup {Nothing}, offer : Offers \cup {Nothing}]
  /\ timers \subseteq Invites \cup Offers
  /\ error \in BOOLEAN /\ lost \in BOOLEAN /\ waved \subseteq Lasting
  /\ ledge \in Seq(Lasting \cup {"toast"}) /\ Len(ledge) <= MaxItems
  /\ connected \in BOOLEAN

\* The player enters the game, or comes back with a mission or the beacon on.
CardsInit ==
  /\ role \in Roles /\ place \in Grounds /\ cooling = {}
  /\ \/ running = {} /\ ui = Idle
     \/ \E a \in Buttons(role) \cap (Missions \cup {"beacon"}) :
          Fits(a, place) /\ running = {a} /\ ui = Entered(a, RunningMode(a), FALSE)
  /\ paused = FALSE /\ open = {}
  /\ shown = State
  /\ panel = [invite |-> Nothing, offer |-> Nothing] /\ timers = {}
  /\ error = FALSE /\ lost = FALSE /\ ledge = <<>> /\ waved = {}
  /\ connected = TRUE /\ calls = <<>> /\ wire = <<>>
  /\ acts = 0 /\ upsets = 0

Act == acts < MaxActs /\ acts' = acts + 1 /\ UNCHANGED upsets
Upset == upsets < MaxUpsets /\ upsets' = upsets + 1 /\ UNCHANGED acts

----------------------------------------------------------------------------
(* The ledge *)

EnforceMaxItems(items) ==
  LET transient == SelectInSeq(items, LAMBDA i : i = "toast")
  IN IF Len(items) <= MaxItems THEN items
     ELSE IF transient > 0 THEN RemoveAt(items, transient)
     ELSE Tail(items)

Push(items, item) == EnforceMaxItems(Append(items, item))

ClearBySource(items, item) == SelectSeq(items, LAMBDA i : i # item)

\* An effect of PlayingHud, run when its condition has changed.
Bridge(items, item, was, is) ==
  IF was = is THEN items
  ELSE IF is THEN Push(ClearBySource(items, item), item)
  ELSE ClearBySource(items, item)

\* The effects after a change of the stores.  A step that uses it assigns
\* shown', error' and lost' before.
Bridges(items) ==
  /\ ledge' = Bridge(Bridge(Bridge(items, "location", lost, lost'),
                            "error", error, error'),
                     "paused", shown.paused, shown'.paused)
  /\ waved' = waved \ ( (IF lost # lost' THEN {"location"} ELSE {})
                   \cup (IF error # error' THEN {"error"} ELSE {})
                   \cup (IF shown.paused # shown'.paused THEN {"paused"} ELSE {}) )

\* dismiss, by the button of an item.
Dismiss(item) ==
  /\ Act
  /\ item \in Range(ledge)
  /\ ledge' = RemoveAt(ledge, SelectInSeq(ledge, LAMBDA i : i = item))
  /\ waved' = waved \cup ({item} \cap Lasting)
  /\ UNCHANGED <<hub, shown, ui, panels, error, lost, link>>

\* The timer of a transient item.
ToastEnds ==
  /\ "toast" \in Range(ledge)
  /\ ledge' = RemoveAt(ledge, SelectInSeq(ledge, LAMBDA i : i = "toast"))
  /\ UNCHANGED <<hub, shown, ui, panels, error, lost, waved, link, bounds>>

PositionFails ==
  /\ Upset
  /\ lost' = ~lost
  /\ UNCHANGED <<hub, shown, ui, panels, error, link>>
  /\ Bridges(ledge)

----------------------------------------------------------------------------
(* The panels *)

Kind(o) == IF o \in Invites THEN "invite" ELSE "offer"
OfKind(k) == IF k = "invite" THEN Invites ELSE Offers

\* Mutant: the timer of the panel before keeps running.
ShowPanel_OldTimer(o) == panel' = [panel EXCEPT ![Kind(o)] = o] /\ timers' = timers \cup {o}

\* setFieldBattleInvite and setTroopTransferRequest.
ShowPanel(o) ==
  /\ panel' = [panel EXCEPT ![Kind(o)] = o]
  /\ timers' = (timers \ OfKind(Kind(o))) \cup {o}

ClosePanel(k) == panel' = [panel EXCEPT ![k] = Nothing] /\ timers' = timers \ OfKind(k)

\* The deadline: the store's timer, or the second tick of the panel.
PanelExpires(o) ==
  /\ o \in timers
  /\ panel' = [panel EXCEPT ![Kind(o)] = Nothing] /\ timers' = timers \ {o}
  /\ UNCHANGED <<hub, shown, ui, notices, link, bounds>>

----------------------------------------------------------------------------
(* Calls *)

\* A call without a connection rejects, and only a flight handles that.
Call(op, a) == calls' = IF connected THEN Append(calls, [op |-> op, of |-> a]) ELSE calls

CardShown == ui.ability # Nothing /\ ui.visible
OnCard(a) == CardShown /\ ui.ability = a

ButtonState(a) ==
  IF ui.ability = a /\ ui.mode # "idle" THEN ui.mode
  ELSE IF a \in Missions \cap shown.running THEN "inProgress"
  ELSE IF a \in {"strike", "rally", "beacon"} \cap shown.running THEN "active"
  ELSE IF a \in {"strike", "rally", "raid", "sabotage", "demolish"} \cap shown.cooling THEN "cooldown"
  ELSE "ready"

StartMode(a) == IF a \in Missions \cup {"raid"} THEN "targeting" ELSE "confirming"

\* getAbilityAction: open the ability, or show its hidden card again.
PressAbility(a) ==
  /\ Act
  /\ ~CardShown /\ a \in Buttons(role)
  /\ LET state == ButtonState(a)
     IN /\ state # "cooldown"
        /\ ui' = IF state = "ready" THEN Entered(a, StartMode(a), TRUE)
                 ELSE IF ui.ability = a THEN [ui EXCEPT !.visible = TRUE]
                 ELSE Entered(a, state, TRUE)
  /\ UNCHANGED <<hub, shown, panels, notices, link>>

\* The card takes its ability for started: from the server's state or its own mode.
Started(a) ==
  CASE a \in Missions -> a \in shown.running \/ ui.mode = "inProgress"
    [] a \in Buffs    -> a \in shown.running \/ ui.mode = "active"
    [] a = "battle"   -> a \in shown.running
    [] OTHER          -> FALSE

BackToHud ==
  /\ Act
  /\ CardShown
  /\ ui' = IF Started(ui.ability) \/ ui.ability \in {"raid"} \cap shown.cooling
           THEN [ui EXCEPT !.visible = FALSE]
           ELSE Idle
  /\ UNCHANGED <<hub, shown, panels, notices, link>>

\* A card calls the hub and leaves the rest to the answer.
CardCalls(op, a) ==
  /\ OnCard(a)
  /\ Call(op, a)
  /\ UNCHANGED <<hub, shown, ui, panels, notices, connected, wire>>

ArmStrike == Act /\ ~Started("strike") /\ CardCalls("start", "strike")

LaunchRaid == Act /\ ~Started("raid") /\ "raid" \notin shown.cooling /\ CardCalls("start", "raid")

\* Held against the ground for two seconds.
RaiseRally == Act /\ ~Started("rally") /\ Fits("rally", shown.place) /\ CardCalls("start", "rally")

StartFort == Act /\ ~Started("fort") /\ Fits("fort", shown.place) /\ CardCalls("start", "fort")

StartSabotage == Act /\ ~Started("sabotage") /\ Fits("sabotage", shown.place) /\ CardCalls("start", "sabotage")

StartDemolish == Act /\ ~Started("demolish") /\ Fits("demolish", shown.place) /\ CardCalls("start", "demolish")

AbortFort == Act /\ Started("fort") /\ CardCalls("cancel", "fort")

AbortSabotage == Act /\ Started("sabotage") /\ CardCalls("cancel", "sabotage")

AbortDemolish == Act /\ Started("demolish") /\ CardCalls("cancel", "demolish")

\* The beacon is shown as live before the hub is asked.
LightBeacon ==
  /\ Act
  /\ OnCard("beacon") /\ ~Started("beacon")
  /\ ui' = [ui EXCEPT !.mode = "active"]
  /\ Call("start", "beacon")
  /\ UNCHANGED <<hub, shown, panels, notices, connected, wire>>

ShareIntel ==
  \/ Act /\ Started("beacon") /\ CardCalls("share", "beacon")
  \/ Act /\ "shareIntel" \notin shown.cooling /\ CardCalls("share", "shareIntel")

\* Every half second while the card is up and the compass has a heading.
Scan == Act /\ CardCalls("scan", "intercept")

Challenge == Act /\ Fits("battle", shown.place) /\ CardCalls("start", "battle")

\* Join, Accept and Decline.
AnswerPanel(k) ==
  /\ Act
  /\ panel[k] # Nothing
  /\ Call("answer", panel[k])
  /\ UNCHANGED <<hub, shown, ui, panels, notices, connected, wire>>

FleeFails == ClosePanel("invite") /\ error' = TRUE

\* The only call whose failure is caught.
FleePanel ==
  /\ Act
  /\ panel.invite # Nothing
  /\ Call("flee", panel.invite)
  /\ IF connected THEN UNCHANGED <<panels, error>> ELSE FleeFails
  /\ UNCHANGED <<hub, shown, ui, lost, connected, wire>>
  /\ Bridges(ledge)

Ignore ==
  /\ Act
  /\ panel.invite # Nothing
  /\ ClosePanel("invite")
  /\ UNCHANGED <<hub, shown, ui, notices, link>>

----------------------------------------------------------------------------
(* The hub *)

Msg(type, of) == [type |-> type, of |-> of, state |-> Nothing]

\* A step that uses these assigns the hub's variables before.
Says(type) == [type |-> type, of |-> Nothing, state |-> State']
Send(msgs) == wire' = IF connected THEN wire \o msgs ELSE wire

MayStart(a) ==
  /\ a \notin cooling /\ Fits(a, place)
  /\ a \in {"raid", "fort", "battle"} => a \notin running

HubStarts(c) ==
  /\ UNCHANGED <<role, place, paused, open>>
  /\ IF MayStart(c.of)
     THEN /\ running' = running \cup {c.of}
          /\ cooling' = cooling \cup ({"strike", "raid", "rally"} \cap {c.of})
          /\ Send(<<Says("StateUpdated"), Msg("Answer", c)>>)
     ELSE /\ UNCHANGED <<running, cooling>>
          /\ Send(<<Msg("Error", Nothing), Msg("Answer", c)>>)

HubCancels(c) ==
  /\ UNCHANGED <<role, cooling, place, paused, open>>
  /\ running' = running \ {c.of}
  /\ Send(<<IF c.of \in running THEN Says("StateUpdated") ELSE Msg("Error", Nothing), Msg("Answer", c)>>)

\* RespondToTroopTransfer, JoinFieldBattle and FleeBattle; a battle ends with its answer.
HubAnswers(c) ==
  /\ UNCHANGED <<role, running, cooling, place, paused>>
  /\ open' = open \ {c.of}
  /\ Send( (IF c.of \notin open THEN <<Msg("Error", Nothing)>>
            ELSE IF c.of \in Invites /\ c.op = "answer" THEN <<Says("StateUpdated"), Msg("Resolved", Nothing)>>
            ELSE <<Says("StateUpdated")>>)
           \o <<Msg("Answer", c)>>)

\* ShareBeaconIntel and AttemptIntercept, with or without a result.
HubScans(c) ==
  /\ UNCHANGED hub
  /\ \/ c.op = "scan" /\ Send(<<Says("StateUpdated"), Msg("Answer", c)>>)
     \/ Send(<<Msg("Answer", [c EXCEPT !.op = "share"])>>)

HubHandles ==
  /\ calls # <<>> /\ calls' = Tail(calls)
  /\ LET c == Head(calls)
     IN \/ c.op = "start" /\ HubStarts(c)
        \/ c.op = "cancel" /\ HubCancels(c)
        \/ c.op \in {"answer", "flee"} /\ HubAnswers(c)
        \/ c.op \in {"share", "scan"} /\ HubScans(c)
  /\ UNCHANGED <<shown, ui, panels, notices, connected, bounds>>

\* Everybody gets the state with each tick of the regeneration, which skips
\* a paused room.
RegenerationTick ==
  /\ ~paused /\ connected /\ calls = <<>> /\ wire = <<>>
  /\ UNCHANGED <<hub, shown, ui, panels, notices, connected, calls, bounds>>
  /\ Send(<<Says("StateUpdated")>>)

\* A mission is done or void, a buff is used or over, a battle is fought.
AbilityEnds(a) ==
  /\ Upset
  /\ a \in running
  /\ running' = running \ {a}
  /\ \/ a \in {"sabotage", "demolish", "battle"} /\ cooling' = cooling \cup {a}
     \/ a \notin {"battle"} /\ UNCHANGED cooling
  /\ UNCHANGED <<role, place, paused, open, shown, ui, panels, notices, connected, calls>>
  /\ Send(IF a = "battle" THEN <<Msg("Resolved", Nothing), Says("StateUpdated")>> ELSE <<>>)

CooldownEnds(a) ==
  /\ Upset
  /\ a \in cooling /\ cooling' = cooling \ {a}
  /\ UNCHANGED <<role, running, place, paused, open, shown, ui, panels, notices, link>>

\* PlayersMoved tells where everybody is.
Walk(p) ==
  /\ Upset
  /\ p # place /\ place' = p
  /\ UNCHANGED <<role, running, cooling, paused, open, shown, ui, panels, notices, connected, calls>>
  /\ Send(<<Says("PlayersMoved")>>)

HostPauses ==
  /\ Upset
  /\ paused' = ~paused
  /\ UNCHANGED <<role, running, cooling, place, open, shown, ui, panels, notices, connected, calls>>
  /\ Send(<<Says("StateUpdated")>>)

SomebodyJoins ==
  /\ Upset
  /\ UNCHANGED <<hub, shown, ui, panels, notices, connected, calls>>
  /\ Send(<<Says("PlayerJoined"), Says("StateUpdated")>>)

\* A battle invitation or a troop offer; it is not repeated to one who missed it.
Invited(o) ==
  /\ Upset
  /\ o \notin open /\ open' = open \cup {o}
  /\ UNCHANGED <<role, running, cooling, place, paused, shown, ui, panels, notices, connected, calls>>
  /\ Send(<<Msg("Invited", o)>>)

\* DrainTick, HostMessage, DynamicsChanged, TileLost and TroopTransferResult.
Told ==
  /\ Upset
  /\ UNCHANGED <<hub, shown, ui, panels, notices, connected, calls>>
  /\ Send(<<Msg("Told", Nothing)>>)

----------------------------------------------------------------------------
(* The messages *)

\* deriveAbilityUiFromPlayer: the first of these that the server has.
Derived(s) ==
  LET order == <<"fort", "sabotage", "demolish", "raid", "battle", "beacon", "strike", "rally">>
      first == SelectInSeq(order, LAMBDA a : a \in s.running)
  IN IF first = 0 THEN Nothing ELSE order[first]

SyncAbilityUi(s) ==
  LET a == Derived(s)
  IN ui' = IF a = Nothing THEN Idle
           ELSE Entered(a, RunningMode(a), ui.visible /\ ui.ability = a)

ShouldShowFieldBattle(s) ==
  "battle" \in s.running \/ (s.place = "foes" /\ "battle" \notin s.cooling)

\* The card of a field battle comes and goes with the state.
AutoOpenBattle(s, before) ==
  IF ShouldShowFieldBattle(s)
  THEN IF before.ability = "battle" THEN before ELSE Entered("battle", "active", TRUE)
  ELSE IF before.ability = "battle" THEN Idle ELSE before

\* Mutant: a demolition that is no longer on is left on the card.
ShouldExit_NotDemolish(s, u) ==
  u.mode = "inProgress" /\ u.ability \in {"fort", "sabotage"} \ s.running

ShouldExit(s, u) ==
  \/ u.mode = "inProgress" /\ u.ability \in Missions \ s.running
  \/ u.ability = "raid" /\ role # "Commander" /\ "raid" \notin s.running

\* Mutant: the card of a battle is not opened over another card.
OnStateUpdated_KeepsCard(s) ==
  LET u == IF ui.ability = Nothing THEN AutoOpenBattle(s, ui) ELSE ui
  IN ui' = IF ShouldExit(s, u) THEN Idle ELSE u

OnStateUpdated(s) ==
  LET u == AutoOpenBattle(s, ui) IN ui' = IF ShouldExit(s, u) THEN Idle ELSE u

\* The await of a card or a panel goes on, whatever is on the screen by now.
OnAnswer(c) ==
  /\ ui' = CASE c.op = "start" /\ c.of \in Missions -> [ui EXCEPT !.mode = "inProgress"]
             [] c.op = "start" /\ c.of \in {"strike", "raid", "rally"} -> [ui EXCEPT !.mode = "active"]
             [] c.op \in {"cancel", "scan"} -> Idle
             [] OTHER -> ui
  /\ IF c.op \in {"answer", "flee"} THEN ClosePanel(Kind(c.of)) ELSE UNCHANGED panels

Receive ==
  /\ wire # <<>> /\ wire' = Tail(wire)
  /\ UNCHANGED <<hub, lost, connected, calls, bounds>>
  /\ LET m == Head(wire)
     IN /\ shown' = IF m.type \in {"StateUpdated", "PlayerJoined"} THEN m.state
                    ELSE IF m.type = "PlayersMoved" THEN [shown EXCEPT !.place = m.state.place]
                    ELSE shown
        /\ error' = (m.type = "Error" \/ (error /\ m.type \notin {"StateUpdated", "PlayerJoined"}))
        /\ \/ m.type = "StateUpdated" /\ OnStateUpdated(m.state) /\ UNCHANGED panels
           \/ m.type = "PlayerJoined" /\ SyncAbilityUi(m.state) /\ UNCHANGED panels
           \/ m.type = "Answer" /\ OnAnswer(m.of)
           \/ m.type = "Resolved" /\ ui' = Idle /\ ClosePanel("invite")
           \/ m.type = "Invited" /\ ShowPanel(m.of) /\ UNCHANGED ui
           \/ m.type \in {"PlayersMoved", "Error", "Told"} /\ UNCHANGED <<ui, panels>>
        /\ Bridges(IF m.type \in {"Resolved", "Invited", "Told"} THEN Push(ledge, "toast") ELSE ledge)

----------------------------------------------------------------------------
(* The connection *)

\* The calls without an answer reject.
LoseConnection ==
  /\ Upset
  /\ connected /\ connected' = FALSE
  /\ calls' = <<>> /\ wire' = <<>>
  /\ IF \/ \E k \in DOMAIN calls : calls[k].op = "flee"
        \/ \E k \in DOMAIN wire : wire[k].type = "Answer" /\ wire[k].of.op = "flee"
     THEN FleeFails
     ELSE UNCHANGED <<panels, error>>
  /\ UNCHANGED <<hub, shown, ui, lost>>
  /\ Bridges(ledge)

\* onReconnected, and the hub's answer to its RejoinRoom.
Reconnect ==
  /\ ~connected /\ connected' = TRUE
  /\ error' = FALSE /\ ui' = Idle
  /\ UNCHANGED <<hub, shown, panels, lost, calls, bounds>>
  /\ wire' = <<Says("PlayerJoined"), Says("StateUpdated")>>
  /\ Bridges(ledge)

----------------------------------------------------------------------------

Clicks ==
  \/ \E a \in Abilities : PressAbility(a)
  \/ BackToHud
  \/ ArmStrike \/ LaunchRaid \/ RaiseRally
  \/ StartFort \/ StartSabotage \/ StartDemolish
  \/ AbortFort \/ AbortSabotage \/ AbortDemolish
  \/ LightBeacon \/ ShareIntel \/ Scan \/ Challenge
  \/ \E k \in {"invite", "offer"} : AnswerPanel(k)
  \/ FleePanel \/ Ignore
  \/ \E item \in Lasting \cup {"toast"} : Dismiss(item)

Others ==
  \/ \E a \in Abilities : AbilityEnds(a) \/ CooldownEnds(a)
  \/ \E p \in Grounds : Walk(p)
  \/ HostPauses \/ SomebodyJoins \/ Told
  \/ \E o \in Invites \cup Offers : Invited(o)

Timers == ToastEnds \/ \E o \in Invites \cup Offers : PanelExpires(o)

CardsNext ==
  \/ Clicks \/ Others \/ Timers
  \/ HubHandles \/ RegenerationTick \/ Receive
  \/ LoseConnection \/ Reconnect \/ PositionFails

Fairness ==
  /\ WF_cardVars(HubHandles) /\ WF_cardVars(RegenerationTick) /\ WF_cardVars(Receive) /\ WF_cardVars(Reconnect)
  /\ WF_cardVars(ToastEnds) /\ \A o \in Invites \cup Offers : WF_cardVars(PanelExpires(o))

CardsSpec == CardsInit /\ [][CardsNext]_cardVars /\ Fairness

----------------------------------------------------------------------------
(* Properties *)

\* What lasts is on the ledge as long as its cause, however many notices come
\* by: a pause, an error or a lost position is dropped by the player only.
WarningsStay ==
  LET holds == [location |-> lost, error |-> error, paused |-> shown.paused]
  IN \A w \in Lasting : (w \in Range(ledge)) <=> (holds[w] /\ w \notin waved)

\* An invitation or offer on the screen has its own timer, and no timer of an
\* earlier one is left that would take it away.
TimersMatchPanels == timers = {panel.invite, panel.offer} \ {Nothing}

\* A battle of one's own gets its card, whatever card was open and whatever
\* messages were lost, unless the battle is over first or the game is paused.
BattlesOpenCard == "battle" \in running ~> (ui.ability = "battle" \/ "battle" \notin running \/ paused)

Stale ==
  \/ ui.mode = "inProgress" /\ ui.ability \in Missions \ running
  \/ ui.ability = "battle" /\ ~ShouldShowFieldBattle(State)

\* A mission that was refused, is done or is void does not stay on the card, nor
\* does a field battle that is over or cannot be fought here.
StaleCardsClose == Stale ~> (~Stale \/ paused)

\* Not so: a strike, rally or raid that was refused or is over stays armed.
BuffsEnd ==
  \A a \in Buffs : (ui.ability = a /\ ui.mode = "active" /\ a \notin running)
                     ~> (~(ui.ability = a /\ ui.mode = "active") \/ a \in running \/ paused)

\* Not so: the hidden card of a battle has no button that shows it again.
HiddenCardHasButton == ui.ability # Nothing /\ ~ui.visible => ui.ability \in Buttons(role)
=============================================================================
