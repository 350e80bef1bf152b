----------------------------- MODULE SetupWizard -----------------------------
(***************************************************************************)
(* The setup wizard of a room that waits in the lobby, on the device of    *)
(* its host: the steps, what each of them edits, and what it guesses ahead *)
(* of the hub's answer; with the hub methods it calls and one guest, who   *)
(* picks an alliance and comes and goes.                                   *)
(*                                                                         *)
(* The hub takes a snapshot under the lock of the room and broadcasts it   *)
(* after, so that the broadcasts of two callers may overtake each other.   *)
(* A refused call completes; only a lost connection rejects it.            *)
(***************************************************************************)
EXTENDS Naturals, Sequences, FiniteSets, SequencesExt, FiniteSetsExt

CONSTANTS
  Names,         \* alliance names
  Host, Guest,   \* the players
  Nothing,
  Canvas,        \* the hexes, a line: neighbours differ by one
  PatternCells, TemplateCells,  \* the areas of the one pattern, of the one template
  MinDrawn,      \* MIN_DRAWN_HEX_COUNT
  MinTile, Tiles,  \* tile sizes
  Footprints,    \* values of the largest footprint
  MaxAlliances,
  Starts,        \* rooms in which the host opens the wizard
  MaxActs,       \* bound: clicks of the host
  MaxUpsets      \* bound: what the guest does, and lost connections

ASSUME AreasAreDrawable ==
  /\ Canvas \subseteq Nat /\ PatternCells \subseteq Canvas /\ TemplateCells \subseteq Canvas
  /\ PatternCells # {} /\ TemplateCells # {}
ASSUME CanvasEnds == \E last \in Canvas : \A h \in Canvas : h <= last
ASSUME SizesAreNumbers == Tiles \cup Footprints \cup {MinTile, MinDrawn} \subseteq Nat /\ MinTile > 0
\* A footprint has 100 meters or more, a tile may have 15.
ASSUME TilesFit == \A f \in Footprints : MinTile <= f

Drawings == SUBSET Canvas
Modes == {"Centered", "Pattern", "Drawn"}
Rooms == [phase : {"Lobby", "Playing"}, step : 0..5, located : BOOLEAN,
          names : Seq(Names), member : [{Host, Guest} -> Names \cup {Nothing}], here : BOOLEAN,
          tile : Nat, footprint : Footprints, mode : Modes, area : Drawings,
          roles : BOOLEAN, beacon : BOOLEAN]

\* Invocations of the hub, and what the hub sends: a state, or an error.
Calls ==
  [op : {"Step"}, step : 0..5] \cup [op : {"Location"}, valid : BOOLEAN]
    \cup [op : {"Alliances"}, names : Seq(Names)] \cup [op : {"Pick"}, name : Names]
    \cup [op : {"TileSize"}, meters : Nat, previous : Nat]
    \cup [op : {"Footprint"}, meters : Footprints]
    \cup [op : {"Dynamics"}, roles : BOOLEAN, beacon : BOOLEAN]
    \cup [op : {"Beacon"}, beacon : BOOLEAN] \cup [op : {"Area"}, mode : Modes, cells : Drawings]
    \cup [op : {"Distribute", "Other", "Roles", "Template", "Start"}]
Messages == [room : Rooms \cup {Nothing}, previous : Nat \cup {Nothing}]

ASSUME StartsAreRooms == Starts \subseteq Rooms
ASSUME NothingIsApart == Nothing \notin Rooms /\ Nothing \notin Messages /\ Nothing \notin Nat

VARIABLES
  room,       \* hub: the room, as far as the wizard edits it
  pend,       \* hub: pend[p], the answer to a call of p, ready to be broadcast, or Nothing
  shown,      \* gameState on the host's device
  applied,    \* locationApplied
  retry,      \* a second attempt to get a GPS position is under way
  builder,    \* allianceNames of the HostAllianceBuilder
  mode, draft,             \* areaModeDraft and drawnCellsDraft, or Nothing
  selected, hqAlliance,    \* selectedHex, and hqAllianceId in hqMode, or Nothing
  connected, calls, wire,
  offered,    \* history: the alliances that the guest has been offered
  complete,   \* history: the host's screen once showed complete teams
  ordered,    \* history: the last area the host applied, if no call got lost
  inOrder,    \* history: the last broadcast was the newest state of the room
  acts, upsets

review == <<mode, draft, selected, hqAlliance>>
drafts == <<applied, retry, builder, review>>
link == <<connected, calls, wire>>
history == <<offered, complete, ordered, inOrder>>
bounds == <<acts, upsets>>
wizardVars == <<room, pend, shown, drafts, link, history, bounds>>

WizardTypeOK ==
  /\ room \in Rooms /\ shown \in Rooms
  /\ applied \in BOOLEAN /\ retry \in BOOLEAN /\ builder \in Seq(Names)
  /\ mode \in Modes \cup {"Template", Nothing} /\ draft \in Drawings \cup {Nothing}
  /\ selected \in Canvas \cup {Nothing} /\ hqAlliance \in Names \cup {Nothing}
  /\ connected \in BOOLEAN /\ calls \in Seq(Calls) /\ wire \in Seq(Messages)
  /\ pend \in [{Host, Guest} -> Messages \cup {Nothing}]
  /\ \A p \in {Host, Guest} : pend[p] # Nothing => pend[p].room # Nothing
  /\ offered \subseteq Names /\ complete \in BOOLEAN

Act == acts < MaxActs /\ acts' = acts + 1 /\ UNCHANGED upsets
Upset == upsets < MaxUpsets /\ upsets' = upsets + 1 /\ UNCHANGED acts

----------------------------------------------------------------------------
(* Areas *)

\* isConnectedArea: what is reached from one hex is the whole area.
Connected(cells) ==
  \A part \in SUBSET cells \ {{}, cells} :
    \E a \in part, b \in cells \ part : a + 1 = b \/ b + 1 = a

\* getAreaFootprintMetrics, for tiles of size one.
Extent(cells) == IF cells = {} THEN 0 ELSE Max(cells) - Min(cells) + 1

\* getMaxTileSizeForArea, and GetAllowedTileSizeMeters of the hub.
MaxTileSize(cells, footprint) ==
  IF cells = {} THEN footprint ELSE Max({MinTile, footprint \div Extent(cells)})

AreaOf(m, s) ==
  CASE m = "Centered" -> Canvas
    [] m = "Pattern" -> PatternCells
    [] OTHER -> s.area

----------------------------------------------------------------------------
(* The steps *)

TotalSteps(s) == IF s.roles THEN 6 ELSE 5
ReviewStep == TotalSteps(shown) - 1
EffectiveStep == Min({shown.step, ReviewStep})
At(k) == shown.phase = "Lobby" /\ EffectiveStep = k

TeamsComplete(s) ==
  s.names # <<>> /\ s.here /\ \A p \in {Host, Guest} : s.member[p] # Nothing

CanGoNext ==
  CASE EffectiveStep = 0 -> shown.located \/ applied
    [] EffectiveStep = 1 -> TeamsComplete(shown)
    [] OTHER -> EffectiveStep < ReviewStep

\* A call from the screen; it is refused at once without a connection.
InvokeAll(cs) == IF connected THEN calls' = calls \o cs ELSE UNCHANGED calls
Invoke(c) == InvokeAll(<<c>>)
StepCall(k) == [op |-> "Step", step |-> k]

\* Mutant: the dots lead anywhere.
GoToStep_Anywhere(k) == Invoke(StepCall(k))

GoToStep(k) ==
  /\ k <= EffectiveStep + 1
  /\ k = EffectiveStep + 1 => CanGoNext
  /\ Invoke(StepCall(k))

\* The buttons Back and Next, and the dots.
Navigate(k) ==
  /\ shown.phase = "Lobby" /\ Act
  /\ k \in 0..ReviewStep
  /\ GoToStep(k)
  /\ UNCHANGED <<room, pend, shown, drafts, connected, wire, history>>

\* handleSetMapLocation, from the first step.  Numbers that are no coordinates
\* are sent like any others.
HandleSetMapLocation(valid) ==
  /\ applied' = TRUE
  /\ InvokeAll(<<[op |-> "Location", valid |-> valid], StepCall(1)>>)

ApplyLocation(valid) ==
  /\ At(0) /\ Act
  /\ HandleSetMapLocation(valid)
  /\ UNCHANGED <<room, pend, shown, retry, builder, review, connected, wire, history>>

\* retryGeolocation: the host may go on by hand before the position is there,
\* and it is applied wherever the wizard then stands.
RetryGps ==
  /\ At(0) /\ ~ retry /\ Act
  /\ retry' = TRUE
  /\ UNCHANGED <<room, pend, shown, applied, builder, review, link, history>>

GpsAnswers(found) ==
  /\ retry /\ retry' = FALSE
  /\ IF found THEN HandleSetMapLocation(TRUE) ELSE UNCHANGED <<applied, calls>>
  /\ UNCHANGED <<room, pend, shown, builder, review, connected, wire, history, bounds>>

----------------------------------------------------------------------------
(* Teams *)

SendAlliances(names) ==
  /\ At(1) /\ Act
  /\ builder' = names
  /\ Invoke([op |-> "Alliances", names |-> names])
  /\ UNCHANGED <<room, pend, shown, applied, retry, review, connected, wire, history>>

\* The whole list is sent, as it is on the screen.
AddAlliance(n) ==
  /\ Len(builder) < MaxAlliances /\ n \notin ToSet(builder)
  /\ SendAlliances(Append(builder, n))

RemoveAlliance(i) ==
  i \in DOMAIN builder /\ SendAlliances(RemoveAt(builder, i))

\* A control of the wizard that only makes a call.
Press(c) ==
  /\ Act /\ Invoke(c)
  /\ UNCHANGED <<room, pend, shown, drafts, connected, wire, history>>

DistributePlayers == At(1) /\ Len(builder) >= 2 /\ Press([op |-> "Distribute"])
HostPicks(n) == At(1) /\ n \in ToSet(shown.names) /\ Press([op |-> "Pick", name |-> n])

----------------------------------------------------------------------------
(* Rules and dynamics *)

ShownMaxTile == MaxTileSize(shown.area, shown.footprint)

\* Mutant: the slider is not held below the largest size.
Bounded_NoLimit(meters) == Max({MinTile, meters})

Bounded(meters) == Max({MinTile, Min({ShownMaxTile, meters})})

SizeCall(meters, previous) == [op |-> "TileSize", meters |-> meters, previous |-> previous]

\* handleSetTileSize: the size is shown at once.  It is taken back if the call
\* is rejected, which it is at once without a connection.
SetTileSize(meters) ==
  IF connected
  THEN /\ shown' = [shown EXCEPT !.tile = meters]
       /\ Invoke(SizeCall(meters, shown.tile))
  ELSE UNCHANGED <<shown, calls>>

\* syncTileSize.  The slider itself stays where it was moved to.
Slide(meters) ==
  /\ At(2) /\ Act
  /\ Bounded(meters) # shown.tile
  /\ SetTileSize(Bounded(meters))
  /\ UNCHANGED <<room, pend, drafts, connected, wire, history>>

ApplyMaxFootprint(f) == At(2) /\ Press([op |-> "Footprint", meters |-> f])

\* A value that this module does not keep.
SetOther == Press([op |-> "Other"])

\* The claim mode, the win condition; the host's GPS bypass, the memory of
\* sightings; the host as an observer.
SetRules == At(2) /\ SetOther
SetDynamics == At(3) /\ SetOther
ToggleObserver == shown.phase = "Lobby" /\ SetOther

\* updateDynamics sends all of the dynamics with one of them changed.
TogglePlayerRoles ==
  At(3) /\ Press([op |-> "Dynamics", roles |-> ~ shown.roles, beacon |-> shown.beacon])
ToggleBeacon == At(3) /\ Press([op |-> "Beacon", beacon |-> ~ shown.beacon])

\* AssignPlayerRole and RandomizeRoles.
AssignRoles == At(4) /\ shown.roles /\ Press([op |-> "Roles"])

----------------------------------------------------------------------------
(* Review *)

AreaMode == IF mode = Nothing THEN shown.mode ELSE mode
DrawnCells == IF draft = Nothing THEN shown.area ELSE draft

SelectAreaMode(m) ==
  /\ At(ReviewStep) /\ shown.located /\ Act
  /\ m # AreaMode /\ mode' = m
  /\ UNCHANGED <<room, pend, shown, applied, retry, builder, draft, selected, hqAlliance, link, history>>

\* handleAreaHexClick, in the Drawn mode: a hex more, or a hex less.
DrawHex(h) ==
  /\ hqAlliance = Nothing /\ AreaMode = "Drawn"
  /\ selected' = h
  /\ draft' = SymDiff(DrawnCells, {h})
  /\ UNCHANGED <<hqAlliance, calls>>

SelectHex(h) ==
  /\ hqAlliance = Nothing /\ AreaMode # "Drawn"
  /\ selected' = h
  /\ UNCHANGED <<draft, hqAlliance, calls>>

PlaceHQ(h) ==
  /\ hqAlliance # Nothing
  /\ hqAlliance' = Nothing /\ selected' = Nothing
  /\ Invoke([op |-> "Other"])
  /\ UNCHANGED draft

ClickHex(h) ==
  /\ At(ReviewStep) /\ shown.located /\ Act
  /\ h \in (IF AreaMode = "Drawn" THEN Canvas ELSE AreaOf(AreaMode, shown))
  /\ DrawHex(h) \/ SelectHex(h) \/ PlaceHQ(h)
  /\ UNCHANGED <<room, pend, shown, applied, retry, builder, mode, connected, wire, history>>

\* handleToggleAllianceHqMode
ToggleHQMode(n) ==
  /\ At(ReviewStep) /\ n \in ToSet(shown.names) /\ Act
  /\ IF hqAlliance = n THEN hqAlliance' = Nothing /\ UNCHANGED selected
     ELSE hqAlliance' = n /\ selected' = Nothing
  /\ UNCHANGED <<room, pend, shown, applied, retry, builder, mode, draft, link, history>>

\* The master tile, or a starting tile, goes to the selected hex.
PlaceOnSelected ==
  /\ At(ReviewStep) /\ selected # Nothing /\ AreaMode # "Drawn" /\ Act
  /\ selected' = Nothing
  /\ Invoke([op |-> "Other"])
  /\ UNCHANGED <<room, pend, shown, applied, retry, builder, mode, draft, hqAlliance, connected, wire, history>>

FitsFootprint(cells) == Extent(cells) * shown.tile <= shown.footprint

\* Mutant: scattered hexes may be sent.
CanApplyDrawn_Scattered(cells) == Cardinality(cells) >= MinDrawn /\ FitsFootprint(cells)

CanApplyDrawn(cells) ==
  Connected(cells) /\ Cardinality(cells) >= MinDrawn /\ FitsFootprint(cells)

CanApply(m) ==
  CASE m = "Drawn" -> CanApplyDrawn(DrawnCells)
    [] m = "Pattern" -> FitsFootprint(PatternCells)
    [] m = "Centered" -> TRUE
    [] OTHER -> FALSE

\* The buttons that apply an area: the draft is forgotten before the hub has
\* answered.
ApplyArea ==
  /\ At(ReviewStep) /\ shown.located /\ Act
  /\ CanApply(AreaMode)
  /\ LET cells == IF AreaMode = "Drawn" THEN DrawnCells ELSE AreaOf(AreaMode, shown) IN
       /\ Invoke([op |-> "Area", mode |-> AreaMode, cells |-> cells])
       /\ ordered' = IF connected THEN cells ELSE ordered
  /\ mode' = Nothing /\ draft' = Nothing
  /\ UNCHANGED <<room, pend, shown, applied, retry, builder, selected, hqAlliance, connected, wire,
                 offered, complete, inOrder>>

\* handleLoadTemplate: the draft stays.
LoadTemplate ==
  /\ At(ReviewStep) /\ AreaMode = "Template" /\ Act
  /\ Invoke([op |-> "Template"])
  /\ ordered' = IF connected THEN Nothing ELSE ordered
  /\ UNCHANGED <<room, pend, shown, drafts, connected, wire, offered, complete, inOrder>>

ClearDrawn ==
  /\ At(ReviewStep) /\ AreaMode = "Drawn" /\ Act
  /\ draft' = {}
  /\ UNCHANGED <<room, pend, shown, applied, retry, builder, mode, selected, hqAlliance, link, history>>

ResetDraft ==
  /\ At(ReviewStep) /\ AreaMode = "Drawn" /\ Act
  /\ mode' = Nothing /\ draft' = Nothing /\ selected' = Nothing
  /\ UNCHANGED <<room, pend, shown, applied, retry, builder, hqAlliance, link, history>>

CanStart == shown.located /\ \A p \in {Host, Guest} : shown.member[p] # Nothing
Start == At(ReviewStep) /\ CanStart /\ Press([op |-> "Start"])

----------------------------------------------------------------------------
(* The hub *)

Answer(p, previous) ==
  pend' = [pend EXCEPT ![p] = [room |-> room', previous |-> previous]]

Nobody == [p \in {Host, Guest} |-> Nothing]

\* ApplyGameArea
WithArea(r, m, cells, tile) ==
  [r EXCEPT !.mode = m, !.area = cells,
            !.tile = Max({MinTile, Min({tile, MaxTileSize(cells, r.footprint)})})]

\* SetAlliance: a name that is not there makes an alliance.
WithPick(r, p, n) ==
  [r EXCEPT !.member[p] = n,
            !.names = IF n \in ToSet(@) THEN @ ELSE Append(@, n)]

MayPick(n) == n \in ToSet(room.names) \/ Len(room.names) < MaxAlliances

\* ConfigureAlliances: a new list of alliances, without members.
WithAlliances(r, names) == [r EXCEPT !.names = names, !.member = Nobody]

Allowed(c) ==
  CASE c.op = "Location" -> c.valid
    [] c.op = "Alliances" -> c.names # <<>>
    [] c.op = "Distribute" -> room.names # <<>>
    [] c.op = "Pick" -> MayPick(c.name)
    [] c.op = "TileSize" -> c.meters <= MaxTileSize(room.area, room.footprint)
    [] c.op = "Roles" -> room.roles
    [] c.op = "Area" -> c.mode = "Drawn" => Connected(c.cells) /\ Cardinality(c.cells) >= MinDrawn
    [] c.op = "Start" ->
         /\ room.located /\ Cardinality(room.area) > 2
         /\ \A p \in {Host, Guest} : room.member[p] # Nothing
    [] OTHER -> TRUE

\* What an accepted call makes of the room.
Results(c) ==
  CASE c.op = "Step" -> {[room EXCEPT !.step = c.step]}
    [] c.op = "Location" -> {[room EXCEPT !.located = TRUE, !.step = Max({@, 1})]}
    [] c.op = "Alliances" -> {WithAlliances(room, c.names)}
    [] c.op = "Distribute" ->
         {[room EXCEPT !.member = m] :
            m \in {m \in [{Host, Guest} -> ToSet(room.names)] :
                     Len(room.names) > 1 => m[Host] # m[Guest]}}
    [] c.op = "Pick" -> {WithPick(room, Host, c.name)}
    [] c.op = "TileSize" -> {[room EXCEPT !.tile = Max({MinTile, c.meters})]}
    [] c.op = "Footprint" -> {[room EXCEPT !.footprint = c.meters]}
    [] c.op = "Dynamics" -> {[room EXCEPT !.roles = c.roles, !.beacon = c.beacon]}
    [] c.op = "Beacon" -> {[room EXCEPT !.beacon = c.beacon]}
    [] c.op = "Area" -> {WithArea(room, c.mode, c.cells, room.tile)}
    [] c.op = "Template" -> {WithArea(room, "Drawn", TemplateCells, t) : t \in Tiles}
    [] c.op = "Start" -> {[room EXCEPT !.phase = "Playing"]}
    [] OTHER -> {room}

\* A refusal is an Error message.  Tiles, roles and templates that this module
\* does not keep may be refused for reasons of their own.
MayRefuse(c) == ~ Allowed(c) \/ c.op \in {"Other", "Roles", "Template", "Start"}

Previous(c) == IF c.op = "TileSize" THEN c.previous ELSE Nothing

HubHandles ==
  /\ calls # <<>> /\ pend[Host] = Nothing
  /\ calls' = Tail(calls)
  /\ LET c == Head(calls) IN
       \/ /\ room.phase = "Lobby" /\ Allowed(c)
          /\ room' \in Results(c)
          /\ Answer(Host, Previous(c)) /\ UNCHANGED wire
       \/ /\ room.phase # "Lobby" \/ MayRefuse(c)
          /\ wire' = Append(wire, [room |-> Nothing, previous |-> Previous(c)])
          /\ UNCHANGED <<room, pend>>
  /\ UNCHANGED <<shown, drafts, connected, history, bounds>>

\* The broadcast of p's change, and to p the end of its call.
Broadcast(p) ==
  /\ pend[p] # Nothing
  /\ pend' = [pend EXCEPT ![p] = Nothing]
  /\ wire' = IF connected THEN Append(wire, pend[p]) ELSE wire
  /\ offered' = IF pend[p].room.step = 1 THEN offered \cup ToSet(pend[p].room.names) ELSE offered
  /\ inOrder' = (pend[p].room = room)
  /\ UNCHANGED <<room, shown, drafts, connected, calls, complete, ordered, bounds>>

\* The guest picks what the Teams step of its own screen has offered.
GuestPicks(n) ==
  /\ Upset /\ pend[Guest] = Nothing
  /\ room.phase = "Lobby" /\ room.here /\ n \in offered /\ MayPick(n)
  /\ room' = WithPick(room, Guest, n)
  /\ Answer(Guest, Nothing)
  /\ UNCHANGED <<shown, drafts, link, history>>

GuestComesOrGoes ==
  /\ Upset /\ pend[Guest] = Nothing
  /\ room' = [room EXCEPT !.here = ~ @]
  /\ Answer(Guest, Nothing)
  /\ UNCHANGED <<shown, drafts, link, history>>

----------------------------------------------------------------------------
(* What the host's device receives *)

\* Every state brings alliances of its own, which replace the list on screen.
BuilderAfter(s) == s.names

\* The effect of the Rules step: tiles too large for the area are made smaller.
SizeFor(s) ==
  IF s.phase = "Lobby" /\ Min({s.step, TotalSteps(s) - 1}) = 2
  THEN Min({s.tile, MaxTileSize(s.area, s.footprint)})
  ELSE s.tile

\* Drafts live as long as the step that holds them.
Show(s) ==
  /\ shown' = [s EXCEPT !.tile = SizeFor(s)]
  /\ calls' = IF SizeFor(s) = s.tile THEN calls
              ELSE Append(calls, SizeCall(SizeFor(s), s.tile))
  /\ builder' = BuilderAfter(s)
  /\ IF s.phase = "Lobby" /\ Min({s.step, TotalSteps(s) - 1}) = TotalSteps(s) - 1
     THEN UNCHANGED review
     ELSE mode' = Nothing /\ draft' = Nothing /\ selected' = Nothing /\ hqAlliance' = Nothing
  /\ complete' = (complete \/ TeamsComplete(s))

Receive ==
  /\ wire # <<>>
  /\ wire' = Tail(wire)
  /\ IF Head(wire).room = Nothing
     THEN UNCHANGED <<shown, calls, builder, review, complete>>
     ELSE Show(Head(wire).room)
  /\ UNCHANGED <<room, pend, applied, retry, connected, offered, ordered, inOrder, bounds>>

\* The calls that are not answered are rejected in their order, and each one
\* that set the tile size puts back the size before it.
SizeTakenBack ==
  LET waiting == wire \o calls
      sizes == {i \in DOMAIN waiting :
                  "previous" \in DOMAIN waiting[i] /\ waiting[i].previous # Nothing}
  IN  IF sizes = {} THEN shown.tile ELSE waiting[Max(sizes)].previous

LoseConnection ==
  /\ Upset /\ connected
  /\ connected' = FALSE /\ calls' = <<>> /\ wire' = <<>>
  /\ shown' = [shown EXCEPT !.tile = SizeTakenBack]
  /\ ordered' = Nothing
  /\ UNCHANGED <<room, pend, drafts, offered, complete, inOrder>>

\* onReconnected: RejoinRoom is answered with the state of the room.
Reconnect ==
  /\ ~ connected /\ pend[Host] = Nothing
  /\ connected' = TRUE
  /\ wire' = <<[room |-> room, previous |-> Nothing]>>
  /\ inOrder' = TRUE
  /\ UNCHANGED <<room, pend, shown, drafts, calls, offered, complete, ordered, bounds>>

----------------------------------------------------------------------------

WizardInit ==
  /\ room \in Starts /\ shown = room
  /\ pend = Nobody
  /\ applied = room.located /\ retry = FALSE /\ builder = room.names
  /\ mode = Nothing /\ draft = Nothing /\ selected = Nothing /\ hqAlliance = Nothing
  /\ connected = TRUE /\ calls = <<>> /\ wire = <<>>
  /\ offered = IF room.step = 1 THEN ToSet(room.names) ELSE {}
  /\ complete = (room.step >= 2 \/ TeamsComplete(room)) /\ ordered = Nothing /\ inOrder = TRUE
  /\ acts = 0 /\ upsets = 0

\* What each page of the wizard offers, and what its frame does.
LocationPage == (\E valid \in BOOLEAN : ApplyLocation(valid)) \/ RetryGps
AllianceBuilder ==
  (\E n \in Names : AddAlliance(n)) \/ (\E i \in 1..MaxAlliances : RemoveAlliance(i))
TeamsPage == AllianceBuilder \/ DistributePlayers \/ \E n \in Names : HostPicks(n)
RulesPage == SetRules \/ (\E t \in Tiles : Slide(t)) \/ \E f \in Footprints : ApplyMaxFootprint(f)
DynamicsPage == SetDynamics \/ TogglePlayerRoles \/ ToggleBeacon
RolesPage == AssignRoles
DrawingPanel == ApplyArea \/ ClearDrawn \/ ResetDraft
AreaPanel == (\E m \in Modes \cup {"Template"} : SelectAreaMode(m)) \/ DrawingPanel \/ LoadTemplate
CustomizePanel == PlaceOnSelected \/ \E n \in Names : ToggleHQMode(n)
ReviewPage == AreaPanel \/ CustomizePanel \/ (\E h \in Canvas : ClickHex(h)) \/ Start
Frame == (\E k \in 0..5 : Navigate(k)) \/ ToggleObserver

Clicks ==
  LocationPage \/ TeamsPage \/ RulesPage \/ DynamicsPage \/ RolesPage \/ ReviewPage \/ Frame

WizardNext ==
  \/ Clicks
  \/ \E found \in BOOLEAN : GpsAnswers(found)
  \/ HubHandles \/ (\E p \in {Host, Guest} : Broadcast(p)) \/ Receive
  \/ (\E n \in Names : GuestPicks(n)) \/ GuestComesOrGoes
  \/ LoseConnection \/ Reconnect

WizardSpec == WizardInit /\ [][WizardNext]_wizardVars

----------------------------------------------------------------------------
(* Properties *)

\* Nothing is under way between the device, the hub and the guest.
Quiet == connected /\ calls = <<>> /\ wire = <<>> /\ pend = Nobody

\* Neither double clicks nor Back and Next in a row, the dots, a late position
\* or a lost connection take the wizard past the Teams step before the host
\* has seen every player connected and in an alliance.
GatesWerePassed == room.step >= 2 => complete

\* The screen keeps none of its guesses: once all is quiet, and no broadcast
\* was overtaken, it shows the room, after refusals and lost calls as well.
\* Only the last alliance stays removed from the list when the hub keeps it.
ScreenSettles ==
  Quiet /\ inOrder => shown = room /\ builder \in {room.names, <<>>}

\* The last area that the host applied is the area of the room: what the
\* review lets through is never refused while the lobby is open.
AppliedAreaStands ==
  Quiet /\ ordered # Nothing /\ room.phase = "Lobby" => room.area = ordered

\* Not so: an older snapshot may be broadcast last.
BroadcastsAreInOrder == Quiet => shown = room
=============================================================================
