------------------------------- MODULE GameHud -------------------------------
(***************************************************************************)
(* The screen of a running game on one device: the position that the       *)
(* device reports, the actions it offers on the hex its player stands on,  *)
(* the prompts these open, the calls they make, and the outcome dialogs;   *)
(* with as much of the hub as answers those calls.                         *)
(*                                                                         *)
(* A hub call that is refused completes like any other: the refusal comes  *)
(* as an Error message.  Calls and messages keep their order on a          *)
(* connection and are lost with it.                                        *)
(***************************************************************************)
EXTENDS Naturals, Sequences, FiniteSets, SequencesExt

CONSTANTS
  Hexes, Spots,   \* hexes, and places the device can be at
  HexOf,          \* HexOf[s]: the hex of spot s
  Close,          \* pairs of spots less than five metres apart
  Adjacent,       \* pairs of neighbouring hexes
  Forts,          \* hexes with a fort
  Me, Ally, Foe,  \* the player, one of the same alliance, one of another
  None,
  ClaimMode,      \* PresenceOnly, PresenceWithTroop or AdjacencyRequired
  Starts,         \* where a game is watched from: tiles, troops carried, position
  MaxTroops,      \* bound: all troops there are
  MaxActs,        \* bound: clicks and keys
  MaxUpsets       \* bound: moves of the device, news and lost connections

Owners == {Me, Ally, Foe, None}

ASSUME SpotsAreOnHexes == HexOf \in [Spots -> Hexes]
ASSUME PairsAreSymmetric ==
  /\ Close \subseteq Spots \X Spots /\ \A p \in Close : <<p[2], p[1]>> \in Close
  /\ Adjacent \subseteq Hexes \X Hexes /\ \A p \in Adjacent : <<p[2], p[1]>> \in Adjacent
ASSUME ClaimModeIsKnown == ClaimMode \in {"PresenceOnly", "PresenceWithTroop", "AdjacencyRequired"}
ASSUME NoneIsNobody == Cardinality(Owners) = 4 /\ None \notin Hexes \cup Spots
ASSUME StartsAreBoards ==
  \A start \in Starts :
    /\ start.tile \in [Hexes -> [owner : Owners, troops : 0..MaxTroops]]
    /\ start.carried \in 0..MaxTroops /\ start.fix \in Spots

VARIABLES
  tile,        \* hub: tile[h], its owner and troops
  carried,     \* hub: carriedTroops of the player
  source,      \* hub: CarriedTroopsSourceQ/R, or None
  reported,    \* hub: where the player was last reported to be
  shown,       \* gameState: the tiles and the carried troops
  fix,         \* currentLocation, or None
  pending, lastSent, since, timer,   \* the location refs of useGameActionsGameplay
  selected,    \* selectedHexKey
  pickup,      \* pickupPrompt, or None
  reinforce,   \* reinforcePrompt, or None
  count,       \* pickupCount and reinforceCount
  preview,     \* combatPreview, or None
  combat,      \* combatResult, or None
  claim,       \* neutralClaimResult, or None
  queue,       \* outcomeDialogQueue
  menu,        \* activeModal is open
  connected, calls, wire,
  acts, upsets

room == <<tile, carried, source, reported>>
reports == <<pending, lastSent, since, timer>>
prompts == <<selected, pickup, reinforce, count, preview>>
outcomes == <<combat, claim, queue>>
link == <<connected, calls, wire>>
bounds == <<acts, upsets>>
vars == <<room, shown, fix, reports, prompts, outcomes, menu, link, bounds>>

Troops == 0..MaxTroops
Cells == [owner : Owners, troops : Troops]
Prompts == [hex : Hexes, max : Troops]
Outcomes == [kind : {"combat", "claim"}, hex : Hexes, won : BOOLEAN, mine : BOOLEAN, left : Troops]

TypeOK ==
  /\ tile \in [Hexes -> Cells] /\ carried \in Troops /\ source \in Hexes \cup {None}
  /\ reported \in Spots \cup {None}
  /\ shown \in [tile : [Hexes -> Cells], carried : Troops]
  /\ fix \in Spots \cup {None} /\ pending \in Spots \cup {None} /\ lastSent \in Spots \cup {None}
  /\ since \in {"never", "fresh", "recent", "old"} /\ timer \in {"none", "soon", "beat"}
  /\ selected \in Hexes \cup {None}
  /\ pickup \in Prompts \cup {None} /\ reinforce \in Prompts \cup {None}
  /\ preview \in Prompts \cup {None} /\ count \in Troops
  /\ combat \in Outcomes \cup {None} /\ claim \in Outcomes \cup {None}
  /\ queue \in Seq(Outcomes)
  /\ menu \in BOOLEAN /\ connected \in BOOLEAN

Here == IF fix = None THEN None ELSE HexOf[fix]

Act == acts < MaxActs /\ acts' = acts + 1 /\ UNCHANGED upsets
Upset == upsets < MaxUpsets /\ upsets' = upsets + 1 /\ UNCHANGED acts

\* The game has just begun, and the position is reported at once.
Init ==
  /\ \E start \in Starts :
       /\ tile = start.tile /\ carried = start.carried
       /\ fix = start.fix
  /\ shown = [tile |-> tile, carried |-> carried]
  /\ source = None /\ reported = None
  /\ pending = fix /\ lastSent = None /\ since = "fresh" /\ timer = "none"
  /\ selected = None /\ pickup = None /\ reinforce = None /\ count = 1 /\ preview = None
  /\ combat = None /\ claim = None /\ queue = <<>> /\ menu = FALSE
  /\ connected = TRUE /\ calls = <<[op |-> "Locate", spot |-> fix]>> /\ wire = <<>>
  /\ acts = 0 /\ upsets = 0

----------------------------------------------------------------------------
(* The position and its reports *)

\* Mutant: the answer of a report forgets the heartbeat.
LocationAnswered_NoHeartbeat(s) == lastSent' = s /\ timer' = "none"

\* The answer of a report takes away the timer of a newer position, which then
\* waits for the heartbeat.
LocationAnswered(s) == lastSent' = s /\ timer' = "beat"

\* sendPendingLocation: at most one report in 750 ms, and one in 30 s unless
\* the player has moved five metres.
SendPendingLocation ==
  IF pending' = None
  THEN timer' = "none" /\ UNCHANGED <<since, calls>>
  ELSE IF since = "fresh"
  THEN timer' = "soon" /\ UNCHANGED <<since, calls>>
  ELSE IF since = "recent" /\ lastSent # None /\ <<lastSent, pending'>> \in Close
  THEN timer' = "beat" /\ UNCHANGED <<since, calls>>
  ELSE /\ timer' = "none" /\ since' = "fresh"
       /\ calls' = Append(calls, [op |-> "Locate", spot |-> pending'])

TimerFires ==
  /\ \/ timer = "soon" /\ since # "fresh"
     \/ timer = "beat" /\ since \in {"old", "never"}
  /\ pending' = pending /\ SendPendingLocation
  /\ UNCHANGED <<room, shown, fix, lastSent, prompts, outcomes, menu, connected, wire, bounds>>

TimePasses ==
  /\ since \in {"fresh", "recent"}
  /\ since' = IF since = "fresh" THEN "recent" ELSE "old"
  /\ UNCHANGED <<room, shown, fix, pending, lastSent, timer, prompts, outcomes, menu, link, bounds>>

ClosePrompts == pickup' = None /\ reinforce' = None /\ preview' = None

\* Mutant: an attack is previewed on.
EntersHex_KeepsPreview(h) ==
  IF h = None THEN UNCHANGED prompts
  ELSE /\ selected' = None /\ pickup' = None /\ reinforce' = None
       /\ UNCHANGED <<count, preview>>

\* The effect of another currentHex.
EntersHex(h) ==
  IF h = None THEN UNCHANGED prompts
  ELSE selected' = None /\ ClosePrompts /\ UNCHANGED count

\* The effect of another position: without one, or without a connection, the
\* throttle starts anew.
ReportFix(s) ==
  IF connected /\ s # None
  THEN pending' = s /\ SendPendingLocation /\ UNCHANGED lastSent
  ELSE /\ pending' = None /\ lastSent' = None /\ since' = "never" /\ timer' = "none"
       /\ UNCHANGED calls

\* The device has another position, or none any more.  A hex that is lost and
\* found again is entered again.
Locate(s) ==
  /\ Upset /\ s # fix
  /\ fix' = s
  /\ LET h == IF s = None THEN None ELSE HexOf[s] IN
       IF h = Here THEN UNCHANGED prompts ELSE EntersHex(h)
  /\ ReportFix(s)
  /\ UNCHANGED <<room, shown, outcomes, menu, connected, wire>>

----------------------------------------------------------------------------
(* What may be done on a hex, as the client sees it *)

Relation(cell) ==
  CASE cell.owner = Me -> "own"
    [] cell.owner = Ally -> "team"
    [] cell.owner = None -> "unclaimed"
    [] OTHER -> "enemy"

Friendly(owner) == owner \in {Me, Ally}

IsAdjacentToOwnedTerritory(board, h) == \E n \in Hexes : <<h, n>> \in Adjacent /\ Friendly(board[n].owner)

FortBonus(h) == IF h \in Forts THEN 1 ELSE 0

ClaimEnabled(board, hand, h) ==
  CASE ClaimMode = "PresenceWithTroop" -> hand > 0
    [] ClaimMode = "AdjacencyRequired" -> IsAdjacentToOwnedTerritory(board, h)
    [] OTHER -> TRUE

\* The enabled ones of getTileActions for the hex the player stands on.
TileActions(board, hand, h) ==
  LET relation == Relation(board[h]) IN
    {a \in {"claim", "attack", "reinforce", "pickup"} :
       \/ a = "claim" /\ relation = "unclaimed" /\ ClaimEnabled(board, hand, h)
       \/ a = "attack" /\ relation = "enemy" /\ hand > board[h].troops + FortBonus(h)
       \/ a = "reinforce" /\ relation \in {"own", "team"} /\ hand > 0
       \/ a = "pickup" /\ relation = "own" /\ board[h].troops > 0}

CurrentHexActions == IF Here = None THEN {} ELSE TileActions(shown.tile, shown.carried, Here)

----------------------------------------------------------------------------
(* The outcome dialogs *)

Visible == combat # None \/ claim # None

ShowOutcome(o) ==
  IF Visible THEN queue' = Append(queue, o) /\ UNCHANGED <<combat, claim>>
  ELSE IF o.kind = "combat" THEN combat' = o /\ UNCHANGED <<claim, queue>>
  ELSE claim' = o /\ UNCHANGED <<combat, queue>>

\* setCombatResult(null) and setNeutralClaimResult(null): the next one follows,
\* whichever dialog was open and whatever stood where it goes.
DismissOutcome(kind) ==
  LET next == IF queue = <<>> THEN None ELSE Head(queue)
      closed == [combat |-> IF kind = "combat" THEN None ELSE combat,
                 claim |-> IF kind = "claim" THEN None ELSE claim]
      open == IF next = None THEN closed ELSE [closed EXCEPT ![next.kind] = next]
  IN /\ queue' = IF next = None THEN queue ELSE Tail(queue)
     /\ combat' = open.combat /\ claim' = open.claim

----------------------------------------------------------------------------
(* Clicks and keys *)

\* The preview, the outcome dialogs and the menu lie over the page.
Covered == preview # None \/ Visible \/ menu

\* A call from the screen; it is refused at once without a connection.
Invoke(c) ==
  IF connected THEN calls' = Append(calls, c) ELSE UNCHANGED calls

\* handleHexClick: another hex is looked at, the own one deselects.
HexClick(h) ==
  /\ ~ Covered /\ Act
  /\ selected' = IF h = Here THEN None ELSE h
  /\ ClosePrompts
  /\ UNCHANGED <<room, shown, fix, reports, count, outcomes, menu, link>>

PickUpAction ==
  /\ pickup' = [hex |-> Here, max |-> shown.tile[Here].troops] /\ count' = 1
  /\ reinforce' = None /\ selected' = Here
  /\ UNCHANGED <<preview, outcomes, calls>>

ReinforceAction ==
  /\ reinforce' = [hex |-> Here, max |-> shown.carried] /\ count' = 1
  /\ pickup' = None /\ selected' = Here
  /\ UNCHANGED <<preview, outcomes, calls>>

\* The preview tells the odds of the board shown.
AttackAction ==
  /\ preview' = [hex |-> Here, max |-> shown.tile[Here].troops]
  /\ pickup' = None /\ reinforce' = None /\ selected' = Here
  /\ DismissOutcome("combat")
  /\ UNCHANGED <<count, calls>>

ClaimAction ==
  /\ Invoke([op |-> "Place", hex |-> Here, n |-> None, for |-> "place", at |-> fix])
  /\ UNCHANGED <<prompts, outcomes>>

\* handleCurrentHexAction
CurrentHexAction(a) ==
  /\ a \in CurrentHexActions
  /\ \/ a = "pickup" /\ PickUpAction
     \/ a = "reinforce" /\ ReinforceAction
     \/ a = "attack" /\ AttackAction
     \/ a = "claim" /\ ClaimAction

PressAction(a) ==
  /\ ~ Covered /\ Act
  /\ CurrentHexAction(a)
  /\ UNCHANGED <<room, shown, fix, reports, menu, connected, wire>>

SlideCount(n) ==
  /\ pickup # None \/ reinforce # None
  /\ n \in 1..(IF pickup # None THEN pickup.max ELSE reinforce.max) /\ n # count
  /\ ~ Covered /\ Act
  /\ count' = n
  /\ UNCHANGED <<room, shown, fix, reports, selected, pickup, reinforce, preview, outcomes, menu, link>>

\* The prompts stay open until the call is answered or refused.
ConfirmPickup ==
  /\ pickup # None /\ fix # None
  /\ selected' = pickup.hex
  /\ Invoke([op |-> "PickUp", hex |-> pickup.hex, n |-> count, for |-> "pickup", at |-> fix])
  /\ pickup' = IF connected THEN pickup ELSE None
  /\ UNCHANGED <<reinforce, count, preview, outcomes>>

ConfirmReinforce ==
  /\ reinforce # None /\ fix # None
  /\ selected' = reinforce.hex
  /\ Invoke([op |-> "Place", hex |-> reinforce.hex, n |-> count, for |-> "reinforce", at |-> fix])
  /\ reinforce' = IF connected THEN reinforce ELSE None
  /\ UNCHANGED <<pickup, count, preview, outcomes>>

\* All that is carried now, whatever the preview was made for.
ConfirmAttack ==
  /\ preview # None /\ fix # None
  /\ Invoke([op |-> "Place", hex |-> preview.hex, n |-> shown.carried, for |-> "attack", at |-> fix])
  /\ UNCHANGED <<prompts, outcomes>>

PressConfirm ==
  /\ Act
  /\ \/ ~ Covered /\ (ConfirmPickup \/ ConfirmReinforce)
     \/ ~ Visible /\ ConfirmAttack
  /\ UNCHANGED <<room, shown, fix, reports, menu, connected, wire>>

\* App's keys reach whatever lies under a dialog: the prompt there is, or else
\* an action of the hex.
Enter ==
  /\ Act
  /\ IF pickup # None THEN ConfirmPickup
     ELSE IF reinforce # None THEN ConfirmReinforce
     ELSE IF preview # None THEN ConfirmAttack
     ELSE \E a \in CurrentHexActions :
            /\ a = "pickup" => "reinforce" \notin CurrentHexActions
            /\ CurrentHexAction(a)
  /\ UNCHANGED <<room, shown, fix, reports, menu, connected, wire>>

\* handleDismissTileActions, by Escape or the card of a remote hex.
Escape ==
  /\ Act /\ <<selected, preview>> # <<None, None>>
  /\ selected' = None /\ preview' = None
  /\ UNCHANGED <<room, shown, fix, reports, pickup, reinforce, count, outcomes, menu, link>>

Cancel ==
  /\ ~ Covered /\ Act /\ <<pickup, reinforce>> # <<None, None>>
  /\ pickup' = None /\ reinforce' = None
  /\ UNCHANGED <<room, shown, fix, reports, selected, count, preview, outcomes, menu, link>>

Retreat ==
  /\ preview # None /\ ~ Visible /\ Act
  /\ preview' = None
  /\ UNCHANGED <<room, shown, fix, reports, selected, pickup, reinforce, count, outcomes, menu, link>>

\* setActiveModal: an open menu dismisses the prompts.
SetActiveModal(open) ==
  /\ menu' = open
  /\ IF open THEN pickup' = None /\ reinforce' = None /\ UNCHANGED <<selected, count, preview>>
     ELSE UNCHANGED prompts

Menu ==
  /\ Act /\ preview = None /\ ~ Visible
  /\ SetActiveModal(~ menu)
  /\ UNCHANGED <<room, shown, fix, reports, outcomes, link>>

\* With no troops, or after a lost fight, the dialog just closes.
Deploy(o, n) ==
  IF n = 0
  THEN DismissOutcome(o.kind) /\ UNCHANGED calls
  ELSE /\ fix # None
       /\ Invoke([op |-> "Place", hex |-> o.hex, n |-> n, for |-> o.kind, at |-> fix])
       /\ UNCHANGED outcomes

\* Deploy and continue, in the dialog of either kind.
DeployTroops(o, n) ==
  /\ o # None /\ Act
  /\ n \in 0..o.left /\ Deploy(o, n)
  /\ UNCHANGED <<room, shown, fix, reports, prompts, menu, connected, wire>>

----------------------------------------------------------------------------
(* The hub *)

Board == [tile |-> tile', carried |-> carried']
State(kind) == [kind |-> kind, board |-> Board]
Done(c) == [kind |-> "Done", call |-> c]
Refused(c) == wire' = Append(wire, Done(c)) /\ UNCHANGED <<tile, carried, source>>

HubLocates(c) ==
  /\ reported' = c.spot
  /\ UNCHANGED <<tile, carried, source>>
  /\ wire' = wire \o <<State("PlayersMoved"), Done(c)>>

MayPickUp(c) ==
  /\ HexOf[c.at] = c.hex /\ Friendly(tile[c.hex].owner)
  /\ carried > 0 => source \in {None, c.hex}
  /\ tile[c.hex].troops >= c.n

HubPicksUp(c) ==
  /\ IF MayPickUp(c)
     THEN /\ tile' = [tile EXCEPT ![c.hex].troops = @ - c.n]
          /\ carried' = carried + c.n
          /\ source' = c.hex
          /\ wire' = wire \o <<State("StateUpdated"), Done(c)>>
     ELSE Refused(c)
  /\ UNCHANGED reported

Wanted(c) == IF c.n = None THEN carried ELSE c.n

HubReinforces(c) ==
  /\ Friendly(tile[c.hex].owner)
  /\ IF carried > 0 /\ Wanted(c) \in 1..carried
     THEN /\ tile' = [tile EXCEPT ![c.hex].troops = @ + Wanted(c)]
          /\ carried' = carried - Wanted(c)
          /\ source' = IF carried' = 0 THEN None ELSE source
          /\ wire' = wire \o <<State("StateUpdated"), Done(c)>>
     ELSE Refused(c)

\* The claimer is asked what to leave on the hex.
HubClaims(c) ==
  /\ tile[c.hex].owner = None
  /\ IF ClaimEnabled(tile, carried, c.hex)
     THEN LET paid == IF ClaimMode = "PresenceWithTroop" THEN 1 ELSE 0 IN
          /\ tile' = [tile EXCEPT ![c.hex] = [owner |-> Me, troops |-> paid]]
          /\ carried' = carried - paid
          /\ source' = IF carried' = 0 THEN None ELSE source
          /\ wire' = wire \o <<State("StateUpdated")>>
               \o (IF carried' > 0
                   THEN <<[kind |-> "claim", hex |-> c.hex, won |-> TRUE, mine |-> TRUE, left |-> carried']>>
                   ELSE <<>>)
               \o <<Done(c)>>
     ELSE Refused(c)

\* A fight: its dice are not looked at.  The winner carries what is left.
HubFights(c) ==
  /\ tile[c.hex].owner = Foe
  /\ IF Wanted(c) \in 1..carried
     THEN \E won \in BOOLEAN, left \in 0..Wanted(c), kept \in 0..tile[c.hex].troops :
          /\ won => left > 0 /\ kept = 0
          /\ carried' = carried - Wanted(c) + left
          /\ tile' = [tile EXCEPT ![c.hex] = [owner |-> IF won THEN Me ELSE Foe, troops |-> kept]]
          /\ source' = IF carried' = 0 THEN None ELSE IF won /\ carried' = left THEN c.hex ELSE source
          /\ wire' = wire \o <<State("StateUpdated"),
               [kind |-> "combat", hex |-> c.hex, won |-> won, mine |-> TRUE, left |-> IF won THEN left ELSE 0],
               Done(c)>>
     ELSE Refused(c)

HubPlaces(c) ==
  /\ IF HexOf[c.at] = c.hex
     THEN HubReinforces(c) \/ HubClaims(c) \/ HubFights(c)
     ELSE Refused(c)
  /\ UNCHANGED reported

\* The calls of a connection are handled one after the other.
HubHandles ==
  /\ connected /\ calls # <<>>
  /\ calls' = Tail(calls)
  /\ LET c == Head(calls) IN
       \/ c.op = "Locate" /\ HubLocates(c)
       \/ c.op = "PickUp" /\ HubPicksUp(c)
       \/ c.op = "Place" /\ HubPlaces(c)
  /\ UNCHANGED <<shown, fix, reports, prompts, outcomes, menu, connected, bounds>>

Total(board, hand) == FoldFunction(LAMBDA cell, sum : cell.troops + sum, hand, board)

Broadcast(messages) ==
  /\ UNCHANGED <<carried, source, reported, shown, fix, reports, prompts, outcomes, menu, connected, calls>>
  /\ wire' = IF connected THEN wire \o messages ELSE wire

\* Another player takes a hex of the player's, or changes one otherwise.
FoeTakes(h) ==
  /\ Upset /\ tile[h].owner = Me
  /\ tile' = [tile EXCEPT ![h] = [owner |-> Foe, troops |-> 0]]
  /\ Broadcast(<<State("StateUpdated"),
       [kind |-> "combat", hex |-> h, won |-> FALSE, mine |-> FALSE, left |-> 0]>>)

OthersAct(h) ==
  /\ Upset
  /\ \E cell \in Cells :
       /\ cell # tile[h] /\ (tile[h].owner = Me <=> cell.owner = Me) /\ cell.owner # None
       /\ tile' = [tile EXCEPT ![h] = cell]
       /\ Total(tile', carried) <= MaxTroops
  /\ Broadcast(<<State("StateUpdated")>>)

\* Anybody's RejoinRoom is announced to all.
OthersRejoin ==
  /\ Upset /\ UNCHANGED tile
  /\ Broadcast(<<State("PlayerJoined")>>)

----------------------------------------------------------------------------
(* Messages and answers *)

Cell(h) == shown.tile[h]

\* Mutant: a pick-up goes on from a hex emptied by an ally.
ShouldClearPickupPrompt_OwnerOnly(board) ==
  pickup # None /\ board.tile[pickup.hex].owner # Cell(pickup.hex).owner

ShouldClearPickupPrompt(board) ==
  /\ pickup # None
  /\ \/ board.tile[pickup.hex].troops = 0
     \/ board.tile[pickup.hex].owner # Cell(pickup.hex).owner

ShouldClearReinforcePrompt(board) ==
  reinforce # None /\ board.tile[reinforce.hex].owner # Cell(reinforce.hex).owner

ShouldClearCombatPreview(board) ==
  preview # None /\ board.tile[preview.hex] # Cell(preview.hex)

\* What to close is found out from the change of the board.
OnStateUpdated(m) ==
  /\ m.kind = "StateUpdated"
  /\ shown' = m.board
  /\ pickup' = IF ShouldClearPickupPrompt(m.board) THEN None ELSE pickup
  /\ reinforce' = IF ShouldClearReinforcePrompt(m.board) THEN None ELSE reinforce
  /\ preview' = IF ShouldClearCombatPreview(m.board) THEN None ELSE preview
  /\ UNCHANGED <<selected, count, outcomes, reports>>

\* An attack that is being previewed stays.
OnPlayerJoined(m) ==
  /\ m.kind = "PlayerJoined"
  /\ shown' = m.board
  /\ pickup' = None /\ reinforce' = None
  /\ UNCHANGED <<selected, count, preview, outcomes, reports>>

\* Only the players are taken over.
OnPlayersMoved(m) ==
  /\ m.kind = "PlayersMoved"
  /\ shown' = [shown EXCEPT !.carried = m.board.carried]
  /\ UNCHANGED <<prompts, outcomes, reports>>

OnOutcome(m) ==
  /\ m.kind \in {"combat", "claim"}
  /\ ShowOutcome(m)
  /\ preview' = IF m.kind = "combat" THEN None ELSE preview
  /\ UNCHANGED <<shown, selected, pickup, reinforce, count, reports>>

\* Whatever prompt is open by now is taken for the one that was confirmed.
OnDone(m) ==
  /\ m.kind = "Done"
  /\ LET c == m.call IN
       \/ /\ c.op = "Locate" /\ LocationAnswered(c.spot)
          /\ UNCHANGED <<pending, since, prompts, outcomes>>
       \/ /\ c.op # "Locate" /\ UNCHANGED <<selected, count, reports>>
          /\ pickup' = IF c.for \in {"pickup", "place"} THEN None ELSE pickup
          /\ reinforce' = IF c.for \in {"reinforce", "place"} THEN None ELSE reinforce
          /\ preview' = IF c.for \in {"attack", "place"} THEN None ELSE preview
          /\ IF c.for \in {"combat", "claim"} THEN DismissOutcome(c.for) ELSE UNCHANGED outcomes
  /\ UNCHANGED shown

Receive ==
  /\ connected /\ wire # <<>>
  /\ wire' = Tail(wire)
  /\ LET m == Head(wire) IN
       \/ OnStateUpdated(m) \/ OnPlayerJoined(m) \/ OnPlayersMoved(m)
       \/ OnOutcome(m) \/ OnDone(m)
  /\ UNCHANGED <<room, fix, menu, connected, calls, bounds>>

\* What was under way is rejected: a pick-up and a reinforcement close their
\* prompts, and the reports start anew.
LoseConnection ==
  /\ connected /\ Upset
  /\ connected' = FALSE /\ calls' = <<>> /\ wire' = <<>>
  /\ LET waiting == {c.for : c \in {d \in ToSet(calls) \cup {m.call : m \in {w \in ToSet(wire) : w.kind = "Done"}} :
                                    d.op # "Locate"}} IN
       /\ pickup' = IF "pickup" \in waiting THEN None ELSE pickup
       /\ reinforce' = IF "reinforce" \in waiting THEN None ELSE reinforce
  /\ pending' = None /\ lastSent' = None /\ since' = "never" /\ timer' = "none"
  /\ UNCHANGED <<room, shown, fix, selected, count, preview, outcomes, menu>>

\* RejoinRoom sends the whole state, and the position is reported at once.
Reconnect ==
  /\ ~ connected /\ connected' = TRUE
  /\ UNCHANGED <<tile, carried>>
  /\ wire' = <<State("PlayerJoined")>>
  /\ pending' = fix /\ SendPendingLocation /\ UNCHANGED lastSent
  /\ UNCHANGED <<source, reported, shown, fix, prompts, outcomes, menu, bounds>>

----------------------------------------------------------------------------
Clicks ==
  \/ \E h \in Hexes : HexClick(h)
  \/ \E a \in {"claim", "attack", "reinforce", "pickup"} : PressAction(a)
  \/ \E n \in Troops : SlideCount(n) \/ DeployTroops(combat, n) \/ DeployTroops(claim, n)
  \/ PressConfirm \/ Cancel \/ Retreat \/ Menu

Others == (\E h \in Hexes : FoeTakes(h) \/ OthersAct(h)) \/ OthersRejoin

Next ==
  \/ Clicks \/ Enter \/ Escape \/ Others
  \/ \E s \in Spots \cup {None} : Locate(s)
  \/ TimerFires \/ TimePasses
  \/ HubHandles \/ Receive \/ LoseConnection \/ Reconnect

\* Timers run, a live connection carries calls and answers, a lost one comes back.
Fairness ==
  /\ WF_vars(TimerFires) /\ WF_vars(TimePasses)
  /\ WF_vars(HubHandles) /\ WF_vars(Receive) /\ WF_vars(Reconnect)

Spec == Init /\ [][Next]_vars /\ Fairness

----------------------------------------------------------------------------
(* Properties *)

\* A prompt or preview that is open is for the hex the player stands on,
\* however the position changed, was lost and came back since.
PromptIsForThisHex ==
  Here # None =>
    /\ pickup # None => pickup.hex = Here
    /\ reinforce # None => reinforce.hex = Here
    /\ preview # None => preview.hex = Here

\* A pick-up is offered only from an own hex with troops, troops are offered
\* only to a hex of the alliance: another player's move closes the prompt.
PromptsFitBoard ==
  /\ pickup # None => shown.tile[pickup.hex].owner = Me /\ shown.tile[pickup.hex].troops > 0
  /\ reinforce # None => Friendly(shown.tile[reinforce.hex].owner)

\* An outcome waits in the queue only behind one that is on screen: none is
\* stuck where no click brings it up.
QueueBehindDialog == queue # <<>> => Visible

\* While the connection lives, where the device is becomes known to the hub in
\* the end, whatever the throttle dropped and whatever answer came late.
FixIsReported ==
  (connected /\ fix # reported) ~> (~ connected \/ fix = None \/ fix = reported)
=============================================================================
