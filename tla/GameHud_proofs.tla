---------------------------- MODULE GameHud_proofs ---------------------------
(***************************************************************************)
(* Proofs about GameHud, for every board, every set of places the device   *)
(* can be at and every bound.                                              *)
(*                                                                         *)
(* A click closes prompts or opens one that fits the hex and the board at  *)
(* hand (HudClicked); another hex closes them all, a new board those that  *)
(* it contradicts (HudReceived). Nothing else opens a prompt, so each of   *)
(* the two invariants is inductive together with the types.                *)
(***************************************************************************)
EXTENDS GameHud, TLAPS

\* The elements of a sequence, and what is left of it.
LEMMA ShorterSeq ==
  ASSUME NEW S
  PROVE  /\ <<>> \in Seq(S)
         /\ \A s \in Seq(S) : s # <<>> => Head(s) \in S /\ Tail(s) \in Seq(S)
OBVIOUS

Boards == [Hexes -> [owner : Owners, troops : Nat]]
Views == [tile : Boards, carried : Nat]
HudPrompts == [hex : Hexes, max : Nat]
HudOutcomes == [kind : {"combat", "claim"}, hex : Hexes, won : BOOLEAN, mine : BOOLEAN, left : Nat]
HudCalls ==
  [op : {"Locate"}, spot : Spots \cup {None}]
    \cup [op : {"PickUp"}, hex : Hexes, n : Nat, for : {"pickup"}, at : Spots]
    \cup [op : {"Place"}, hex : Hexes, n : Nat \cup {None},
          for : {"place", "reinforce", "attack", "combat", "claim"}, at : Spots]
HudMessages ==
  [kind : {"StateUpdated", "PlayerJoined", "PlayersMoved"}, board : Views]
    \cup HudOutcomes \cup [kind : {"Done"}, call : HudCalls]

HudRoom == tile \in Boards /\ carried \in Nat
HudDevice ==
  /\ shown \in Views /\ fix \in Spots \cup {None} /\ pending \in Spots \cup {None}
  /\ pickup \in HudPrompts \cup {None} /\ reinforce \in HudPrompts \cup {None}
  /\ preview \in HudPrompts \cup {None} /\ count \in Nat
HudDialogs ==
  /\ combat \in HudOutcomes \cup {None} /\ claim \in HudOutcomes \cup {None}
  /\ queue \in Seq(HudOutcomes)
HudLink == calls \in Seq(HudCalls) /\ wire \in Seq(HudMessages)
HudTypes == HudRoom /\ HudDevice /\ HudDialogs /\ HudLink

\* What the actions of the current hex say of it.
LEMMA HereIsHex ==
  ASSUME HudDevice
  PROVE  /\ Here # None <=> fix # None
         /\ Here # None => Here \in Hexes /\ fix \in Spots
BY SpotsAreOnHexes, NoneIsNobody DEF HudDevice, Here

LEMMA ActionsFit ==
  ASSUME NEW a \in CurrentHexActions
  PROVE  /\ Here # None
         /\ a = "pickup" => shown.tile[Here].owner = Me /\ shown.tile[Here].troops > 0
         /\ a = "reinforce" => Friendly(shown.tile[Here].owner)
<1>1. Here # None /\ a \in TileActions(shown.tile, shown.carried, Here)
  BY DEF CurrentHexActions
<1> DEFINE cell == shown.tile[Here]
<1>2. Relation(cell) = "own" => cell.owner = Me
  BY DEF Relation
<1>3. Relation(cell) = "team" => cell.owner = Ally
  BY DEF Relation
<1>. QED  BY <1>1, <1>2, <1>3 DEF TileActions, Friendly

LEMMA ClaimsArePaid ==
  ASSUME NEW tiles, NEW hand, NEW h, ClaimMode = "PresenceWithTroop", ClaimEnabled(tiles, hand, h)
  PROVE  hand > 0
BY DEF ClaimEnabled

(* Types: the hub and its messages *)

LEMMA HudStateTyped ==
  ASSUME HudRoom', NEW kind \in {"StateUpdated", "PlayerJoined", "PlayersMoved"}
  PROVE  State(kind) \in HudMessages
BY DEF HudRoom, State, Board, HudMessages, Views

LEMMA HudDoneTyped == \A c \in HudCalls : Done(c) \in HudMessages
BY DEF Done, HudMessages

LEMMA HudWireTyped ==
  ASSUME HudLink, NEW l \in HudMessages, NEW m \in HudMessages, NEW n \in HudMessages,
         \/ wire' = wire \/ wire' = Append(wire, l) \/ wire' = wire \o <<l>> \/ wire' = wire \o <<l, m>>
         \/ wire' = wire \o <<l>> \o <<m>> \o <<n>> \/ wire' = wire \o <<l>> \o <<>> \o <<n>>
         \/ wire' = wire \o <<l, m, n>>
  PROVE  wire' \in Seq(HudMessages)
<1>1. /\ <<>> \in Seq(HudMessages) /\ <<l>> \in Seq(HudMessages) /\ <<l, m>> \in Seq(HudMessages)
      /\ <<l, m, n>> \in Seq(HudMessages) /\ <<m>> \in Seq(HudMessages) /\ <<n>> \in Seq(HudMessages)
  OBVIOUS
<1>2. \A s, t \in Seq(HudMessages) : s \o t \in Seq(HudMessages)
  OBVIOUS
<1>3. wire \in Seq(HudMessages) /\ Append(wire, l) \in Seq(HudMessages)
  BY DEF HudLink
<1>4. /\ wire \o <<l>> \in Seq(HudMessages) /\ wire \o <<l, m>> \in Seq(HudMessages)
      /\ wire \o <<l, m, n>> \in Seq(HudMessages)
  BY <1>1, <1>2, <1>3
<1>5. wire \o <<l>> \o <<m>> \in Seq(HudMessages) /\ wire \o <<l>> \o <<>> \in Seq(HudMessages)
  BY <1>1, <1>2, <1>4
<1>6. /\ wire \o <<l>> \o <<m>> \o <<n>> \in Seq(HudMessages)
      /\ wire \o <<l>> \o <<>> \o <<n>> \in Seq(HudMessages)
  BY <1>1, <1>2, <1>5
<1>. QED  BY <1>3, <1>4, <1>6, Zenon

LEMMA HubPicksUpTypes ==
  ASSUME HudRoom, HudLink, NEW c \in HudCalls, c.op = "PickUp", HubPicksUp(c)
  PROVE  HudRoom' /\ wire' \in Seq(HudMessages)
<1>1. c.hex \in Hexes /\ c.n \in Nat
  BY DEF HudCalls
<1>2. CASE MayPickUp(c)
  <2>1. tile[c.hex].troops - c.n \in Nat /\ carried + c.n \in Nat
    BY <1>1, <1>2 DEF MayPickUp, HudRoom, Boards
  <2>2. HudRoom'
    BY <1>1, <1>2, <2>1 DEF HubPicksUp, HudRoom, Boards
  <2>3. wire' = wire \o <<State("StateUpdated"), Done(c)>>
    BY <1>2 DEF HubPicksUp
  <2>. QED  BY <2>2, <2>3, HudStateTyped, HudDoneTyped, HudWireTyped
<1>3. CASE ~ MayPickUp(c)
  <2>1. wire' = Append(wire, Done(c)) /\ UNCHANGED <<tile, carried>>
    BY <1>3 DEF HubPicksUp, Refused
  <2>. QED  BY <2>1, HudDoneTyped, HudWireTyped DEF HudRoom
<1>. QED  BY <1>2, <1>3

LEMMA HubRefuses ==
  ASSUME HudRoom, HudLink, NEW c \in HudCalls, Refused(c)
  PROVE  HudRoom' /\ wire' \in Seq(HudMessages)
<1>1. wire' = Append(wire, Done(c)) /\ UNCHANGED <<tile, carried>>
  BY DEF Refused
<1>. QED  BY <1>1, HudDoneTyped, HudWireTyped DEF HudRoom

LEMMA HubPlacesTypes ==
  ASSUME HudRoom, HudLink, NEW c \in HudCalls, c.op = "Place", HubPlaces(c)
  PROVE  HudRoom' /\ wire' \in Seq(HudMessages)
<1>1. c.hex \in Hexes /\ c.n \in Nat \cup {None}
  BY DEF HudCalls
<1>2. Wanted(c) \in Nat
  BY <1>1 DEF Wanted, HudRoom
<1>3. Done(c) \in HudMessages
  BY HudDoneTyped
<1>4. CASE Refused(c)
  BY <1>4, HubRefuses
<1>5. CASE ~ Refused(c) /\ HubReinforces(c)
  <2>1. /\ Wanted(c) \in 1..carried
        /\ tile' = [tile EXCEPT ![c.hex].troops = @ + Wanted(c)]
        /\ carried' = carried - Wanted(c)
        /\ wire' = wire \o <<State("StateUpdated"), Done(c)>>
    BY <1>5 DEF HubReinforces
  <2>2. carried' \in Nat /\ tile[c.hex].troops + Wanted(c) \in Nat
    BY <1>1, <1>2, <2>1 DEF HudRoom, Boards
  <2>3. HudRoom'
    BY <1>1, <2>1, <2>2 DEF HudRoom, Boards
  <2>. QED  BY <1>3, <2>1, <2>3, HudStateTyped, HudWireTyped
<1>6. CASE ~ Refused(c) /\ HubClaims(c)
  <2>1. PICK paid \in {0, 1} :
          /\ paid = 1 => ClaimMode = "PresenceWithTroop"
          /\ ClaimEnabled(tile, carried, c.hex)
          /\ tile' = [tile EXCEPT ![c.hex] = [owner |-> Me, troops |-> paid]]
          /\ carried' = carried - paid
          /\ wire' = wire \o <<State("StateUpdated")>>
               \o (IF carried' > 0
                   THEN <<[kind |-> "claim", hex |-> c.hex, won |-> TRUE, mine |-> TRUE, left |-> carried']>>
                   ELSE <<>>)
               \o <<Done(c)>>
    <3> DEFINE pay == IF ClaimMode = "PresenceWithTroop" THEN 1 ELSE 0
    <3>1. ClaimEnabled(tile, carried, c.hex)
      BY <1>6, Zenon DEF HubClaims
    <3>2. /\ tile' = [tile EXCEPT ![c.hex] = [owner |-> Me, troops |-> pay]]
          /\ carried' = carried - pay
          /\ wire' = wire \o <<State("StateUpdated")>>
               \o (IF carried' > 0
                   THEN <<[kind |-> "claim", hex |-> c.hex, won |-> TRUE, mine |-> TRUE, left |-> carried']>>
                   ELSE <<>>)
               \o <<Done(c)>>
      BY <1>6, <3>1, Zenon DEF HubClaims
    <3>3. pay \in {0, 1} /\ (pay = 1 => ClaimMode = "PresenceWithTroop")
      OBVIOUS
    <3> HIDE DEF pay
    <3>. QED  BY <3>1, <3>2, <3>3, Zenon
  <2>2. carried' \in Nat
    BY <2>1, ClaimsArePaid DEF HudRoom
  <2>3. HudRoom'
    BY <1>1, <2>1, <2>2 DEF HudRoom, Boards, Owners
  <2>4. State("StateUpdated") \in HudMessages
    BY <2>3, HudStateTyped
  <2>5. [kind |-> "claim", hex |-> c.hex, won |-> TRUE, mine |-> TRUE, left |-> carried'] \in HudMessages
    BY <1>1, <2>2 DEF HudMessages, HudOutcomes
  <2>6. wire' \in Seq(HudMessages)
    BY <1>3, <2>1, <2>4, <2>5, HudWireTyped
  <2>. QED  BY <2>3, <2>6
<1>7. CASE ~ Refused(c) /\ HubFights(c)
  <2>1. PICK won \in BOOLEAN, left \in 0..Wanted(c), kept \in 0..tile[c.hex].troops :
          /\ Wanted(c) \in 1..carried
          /\ carried' = carried - Wanted(c) + left
          /\ tile' = [tile EXCEPT ![c.hex] = [owner |-> IF won THEN Me ELSE Foe, troops |-> kept]]
          /\ wire' = wire \o <<State("StateUpdated"),
               [kind |-> "combat", hex |-> c.hex, won |-> won, mine |-> TRUE, left |-> IF won THEN left ELSE 0],
               Done(c)>>
    BY <1>7 DEF HubFights
  <2>2. kept \in Nat /\ left \in Nat /\ carried' \in Nat
    BY <1>1, <1>2, <2>1 DEF HudRoom, Boards
  <2>3. HudRoom'
    BY <1>1, <2>1, <2>2 DEF HudRoom, Boards, Owners
  <2>4. State("StateUpdated") \in HudMessages
    BY <2>3, HudStateTyped
  <2>5. [kind |-> "combat", hex |-> c.hex, won |-> won, mine |-> TRUE, left |-> IF won THEN left ELSE 0]
          \in HudMessages
    BY <1>1, <2>2 DEF HudMessages, HudOutcomes
  <2>6. wire' \in Seq(HudMessages)
    BY <1>3, <2>1, <2>4, <2>5, HudWireTyped
  <2>. QED  BY <2>3, <2>6
<1>. QED  BY <1>4, <1>5, <1>6, <1>7 DEF HubPlaces

LEMMA HubTypes ==
  ASSUME HudRoom, HudLink, HubHandles
  PROVE  HudRoom' /\ HudLink'
<1> DEFINE c == Head(calls)
<1>1. c \in HudCalls /\ calls' \in Seq(HudCalls)
  BY DEF HudLink, HubHandles
<1>2. \/ c.op = "Locate" /\ HubLocates(c)
      \/ c.op = "PickUp" /\ HubPicksUp(c)
      \/ c.op = "Place" /\ HubPlaces(c)
  BY DEF HubHandles
<1> HIDE DEF c
<1>3. CASE HubLocates(c)
  <2>1. UNCHANGED <<tile, carried>> /\ wire' = wire \o <<State("PlayersMoved"), Done(c)>>
    BY <1>3 DEF HubLocates
  <2>2. HudRoom'
    BY <2>1 DEF HudRoom
  <2>3. wire' \in Seq(HudMessages)
    BY <1>1, <2>1, <2>2, HudStateTyped, HudDoneTyped, HudWireTyped
  <2>. QED  BY <1>1, <2>2, <2>3 DEF HudLink
<1>. QED  BY <1>1, <1>2, <1>3, HubPicksUpTypes, HubPlacesTypes DEF HudLink

LEMMA OthersTypes ==
  ASSUME HudRoom, HudLink, Others
  PROVE  HudRoom' /\ HudLink'
<1>1. HudRoom'
  <2>1. CASE \E h \in Hexes : FoeTakes(h)
    BY <2>1 DEF FoeTakes, Broadcast, HudRoom, Boards, Owners
  <2>2. CASE \E h \in Hexes : OthersAct(h)
    <3>1. PICK h \in Hexes, cell \in Cells : tile' = [tile EXCEPT ![h] = cell] /\ carried' = carried
      BY <2>2 DEF OthersAct, Broadcast
    <3>2. cell \in [owner : Owners, troops : Nat]
      BY DEF Cells, Troops
    <3>. QED  BY <3>1, <3>2 DEF HudRoom, Boards
  <2>3. CASE OthersRejoin
    BY <2>3 DEF OthersRejoin, Broadcast, HudRoom
  <2>. QED  BY <2>1, <2>2, <2>3 DEF Others
<1>2. \A kind \in {"StateUpdated", "PlayerJoined"} : State(kind) \in HudMessages
  BY <1>1, HudStateTyped
<1>3. \A h \in Hexes : [kind |-> "combat", hex |-> h, won |-> FALSE, mine |-> FALSE, left |-> 0] \in HudMessages
  BY DEF HudMessages, HudOutcomes
<1>4. /\ calls' = calls
      /\ \/ wire' = wire
         \/ wire' = wire \o <<State("StateUpdated")>> \/ wire' = wire \o <<State("PlayerJoined")>>
         \/ \E h \in Hexes : wire' = wire \o <<State("StateUpdated"),
             [kind |-> "combat", hex |-> h, won |-> FALSE, mine |-> FALSE, left |-> 0]>>
  BY DEF Others, FoeTakes, OthersAct, OthersRejoin, Broadcast
<1>5. wire' \in Seq(HudMessages)
  BY <1>2, <1>3, <1>4, HudWireTyped
<1>. QED  BY <1>1, <1>4, <1>5 DEF HudLink

(* What a click does: a call, another dialog, prompts that close or one that opens *)

PromptsShrink ==
  pickup' \in {pickup, None} /\ reinforce' \in {reinforce, None} /\ preview' \in {preview, None}

PromptOpens ==
  LET actions == CurrentHexActions
      here == Here
      found == [hex |-> here, max |-> shown.tile[here].troops] IN
  \/ "pickup" \in actions /\ pickup' = found /\ reinforce' = None /\ preview' = preview
  \/ "reinforce" \in actions /\ pickup' = None /\ preview' = preview
       /\ reinforce' = [hex |-> here, max |-> shown.carried]
  \/ "attack" \in actions /\ pickup' = None /\ reinforce' = None /\ preview' = found

HudCallMade == calls' = calls \/ \E c \in HudCalls : calls' = Append(calls, c)
DialogsMove == UNCHANGED <<combat, claim, queue>> \/ \E kind \in {"combat", "claim"} : DismissOutcome(kind)

HudClicked ==
  /\ UNCHANGED <<tile, carried, shown, fix, pending, wire>>
  /\ HudCallMade /\ DialogsMove /\ count' \in Nat
  /\ PromptsShrink \/ PromptOpens

LEMMA HexActionClicks ==
  ASSUME HudTypes, NEW a, CurrentHexAction(a),
         UNCHANGED <<tile, carried, shown, fix, pending, wire>>
  PROVE  HudClicked
<1> USE DEF HudTypes, HudDevice
<1>1. a \in CurrentHexActions /\ Here # None
  BY ActionsFit DEF CurrentHexAction
<1>2. Here \in Hexes /\ fix \in Spots
  BY <1>1, HereIsHex
<1>3. CASE a = "pickup" /\ PickUpAction
  BY <1>1, <1>3 DEF PickUpAction, HudClicked, HudCallMade, DialogsMove, PromptOpens, outcomes
<1>4. CASE a = "reinforce" /\ ReinforceAction
  BY <1>1, <1>4 DEF ReinforceAction, HudClicked, HudCallMade, DialogsMove, PromptOpens, outcomes
<1>5. CASE a = "attack" /\ AttackAction
  BY <1>1, <1>5 DEF AttackAction, HudClicked, HudCallMade, DialogsMove, PromptOpens
<1>6. CASE a = "claim" /\ ClaimAction
  <2>1. [op |-> "Place", hex |-> Here, n |-> None, for |-> "place", at |-> fix] \in HudCalls
    BY <1>2 DEF HudCalls
  <2>. QED  BY <1>6, <2>1 DEF ClaimAction, Invoke, HudClicked, HudCallMade, DialogsMove, PromptsShrink,
              outcomes, prompts
<1>. QED  BY <1>3, <1>4, <1>5, <1>6 DEF CurrentHexAction

LEMMA ConfirmClicks ==
  ASSUME HudTypes, ConfirmPickup \/ ConfirmReinforce \/ ConfirmAttack,
         UNCHANGED <<tile, carried, shown, fix, pending, wire>>
  PROVE  HudClicked
<1> USE DEF HudTypes, HudDevice, HudClicked, HudCallMade, DialogsMove, PromptsShrink, Invoke, outcomes, prompts
<1>1. CASE ConfirmPickup
  <2>1. [op |-> "PickUp", hex |-> pickup.hex, n |-> count, for |-> "pickup", at |-> fix] \in HudCalls
    BY <1>1 DEF ConfirmPickup, HudCalls, HudPrompts
  <2>. QED  BY <1>1, <2>1 DEF ConfirmPickup
<1>2. CASE ConfirmReinforce
  <2>1. [op |-> "Place", hex |-> reinforce.hex, n |-> count, for |-> "reinforce", at |-> fix] \in HudCalls
    BY <1>2 DEF ConfirmReinforce, HudCalls, HudPrompts
  <2>. QED  BY <1>2, <2>1 DEF ConfirmReinforce
<1>3. CASE ConfirmAttack
  <2>1. [op |-> "Place", hex |-> preview.hex, n |-> shown.carried, for |-> "attack", at |-> fix] \in HudCalls
    BY <1>3 DEF ConfirmAttack, HudCalls, HudPrompts, Views
  <2>. QED  BY <1>3, <2>1 DEF ConfirmAttack
<1>. QED  BY <1>1, <1>2, <1>3

LEMMA DeployClicks ==
  ASSUME HudTypes, NEW o \in HudOutcomes, NEW n \in Nat, Deploy(o, n),
         UNCHANGED <<tile, carried, shown, fix, pending, wire>>, UNCHANGED prompts
  PROVE  HudClicked
<1> USE DEF HudTypes, HudDevice, HudClicked, PromptsShrink, prompts
<1>1. CASE n = 0
  <2>1. o.kind \in {"combat", "claim"} /\ DismissOutcome(o.kind) /\ calls' = calls
    BY <1>1 DEF Deploy, HudOutcomes
  <2>. QED  BY <2>1 DEF HudCallMade, DialogsMove
<1>2. CASE n # 0
  <2>1. [op |-> "Place", hex |-> o.hex, n |-> n, for |-> o.kind, at |-> fix] \in HudCalls
    BY <1>2 DEF Deploy, HudCalls, HudOutcomes
  <2>2. HudCallMade /\ UNCHANGED outcomes
    BY <1>2, <2>1 DEF Deploy, Invoke, HudCallMade
  <2>. QED  BY <2>2 DEF DialogsMove, outcomes
<1>. QED  BY <1>1, <1>2

LEMMA ClicksAreSimple ==
  ASSUME HudTypes, Clicks \/ Enter \/ Escape
  PROVE  HudClicked
<1> USE DEF room, reports, link
<1>1. CASE (\E h \in Hexes : HexClick(h)) \/ Cancel \/ Retreat \/ Menu \/ Escape
           \/ \E n \in Troops : SlideCount(n)
  <2> USE DEF HudClicked, HudCallMade, DialogsMove, PromptsShrink, outcomes, prompts, HudTypes, HudDevice
  <2>1. CASE \E h \in Hexes : HexClick(h)
    BY <2>1 DEF HexClick, ClosePrompts
  <2>2. CASE Cancel \/ Retreat \/ Escape
    BY <2>2 DEF Cancel, Retreat, Escape
  <2>3. CASE Menu
    BY <2>3 DEF Menu, SetActiveModal
  <2>4. CASE \E n \in Troops : SlideCount(n)
    BY <2>4 DEF SlideCount, Troops
  <2>. QED  BY <1>1, <2>1, <2>2, <2>3, <2>4
<1>2. CASE \E a \in {"claim", "attack", "reinforce", "pickup"} : PressAction(a)
  BY <1>2, HexActionClicks DEF PressAction
<1>3. CASE PressConfirm
  BY <1>3, ConfirmClicks DEF PressConfirm
<1>4. CASE Enter
  <2>1. /\ UNCHANGED <<tile, carried, shown, fix, pending, wire>>
        /\ \/ ConfirmPickup \/ ConfirmReinforce \/ ConfirmAttack
           \/ \E a \in CurrentHexActions : CurrentHexAction(a)
    BY <1>4 DEF Enter
  <2>. QED  BY <2>1, ConfirmClicks, HexActionClicks
<1>5. CASE \E n \in Troops : DeployTroops(combat, n) \/ DeployTroops(claim, n)
  <2>1. PICK n \in Troops, o \in {combat, claim} : DeployTroops(o, n)
    BY <1>5
  <2>2. n \in Nat /\ o \in HudOutcomes /\ Deploy(o, n)
    BY <2>1 DEF DeployTroops, Troops, HudTypes, HudDialogs
  <2>3. UNCHANGED <<tile, carried, shown, fix, pending, wire>> /\ UNCHANGED prompts
    BY <2>1 DEF DeployTroops
  <2>. QED  BY <2>2, <2>3, DeployClicks
<1>. QED  BY <1>1, <1>2, <1>3, <1>4, <1>5 DEF Clicks

(* Types: the device *)

LEMMA DismissTypes ==
  ASSUME HudDialogs, NEW kind \in {"combat", "claim"}, DismissOutcome(kind)
  PROVE  HudDialogs'
<1> USE DEF HudDialogs
<1>1. CASE queue = <<>>
  BY <1>1 DEF DismissOutcome
<1>2. CASE queue # <<>>
  <2> DEFINE next == Head(queue)
  <2>1. next \in HudOutcomes /\ Tail(queue) \in Seq(HudOutcomes) /\ next.kind \in {"combat", "claim"}
    <3>1. next \in HudOutcomes /\ Tail(queue) \in Seq(HudOutcomes)
      BY <1>2, ShorterSeq
    <3> HIDE DEF next
    <3>. QED  BY <3>1 DEF HudOutcomes
  <2>2. queue' \in Seq(HudOutcomes)
    BY <1>2, <2>1 DEF DismissOutcome
  <2>3. combat' \in {combat, next, None} /\ claim' \in {claim, next, None}
    <3> HIDE DEF next
    <3>1. CASE next = None
      BY <1>2, <3>1 DEF DismissOutcome, next
    <3>2. CASE next # None
      BY <1>2, <2>1, <3>2 DEF DismissOutcome, next
    <3>. QED  BY <3>1, <3>2
  <2>. QED  BY <2>1, <2>2, <2>3
<1>. QED  BY <1>1, <1>2

LEMMA ShowTypes ==
  ASSUME HudDialogs, NEW o \in HudOutcomes, ShowOutcome(o)
  PROVE  HudDialogs'
BY DEF HudDialogs, ShowOutcome

LEMMA ShrunkAreTyped ==
  ASSUME HudDevice, PromptsShrink
  PROVE  /\ pickup' \in HudPrompts \cup {None} /\ reinforce' \in HudPrompts \cup {None}
         /\ preview' \in HudPrompts \cup {None}
BY DEF HudDevice, PromptsShrink

LEMMA OpenedAreTyped ==
  ASSUME HudDevice, PromptOpens
  PROVE  /\ pickup' \in HudPrompts \cup {None} /\ reinforce' \in HudPrompts \cup {None}
         /\ preview' \in HudPrompts \cup {None}
<1>1. Here \in Hexes
  BY ActionsFit, HereIsHex DEF PromptOpens
<1>2. shown.tile[Here].troops \in Nat /\ shown.carried \in Nat
  BY <1>1 DEF HudDevice, Views, Boards
<1>. QED  BY <1>1, <1>2 DEF PromptOpens, HudDevice, HudPrompts

LEMMA CallMadeTyped ==
  ASSUME HudLink, HudCallMade, wire' = wire PROVE HudLink'
BY DEF HudLink, HudCallMade

LEMMA ClickTypes ==
  ASSUME HudTypes, HudClicked
  PROVE  HudTypes'
<1> USE DEF HudTypes
<1>1. HudLink' /\ HudRoom'
  BY CallMadeTyped DEF HudClicked, HudRoom
<1>2. HudDialogs'
  BY DismissTypes DEF HudClicked, DialogsMove, HudDialogs
<1>3. HudDevice'
  BY ShrunkAreTyped, OpenedAreTyped DEF HudClicked, HudDevice
<1>. QED  BY <1>1, <1>2, <1>3

LEMMA SendPendingCalls ==
  ASSUME pending' \in Spots \cup {None}, SendPendingLocation
  PROVE  HudCallMade
<1>1. [op |-> "Locate", spot |-> pending'] \in HudCalls
  BY DEF HudCalls
<1>2. calls' = calls \/ calls' = Append(calls, [op |-> "Locate", spot |-> pending'])
  BY DEF SendPendingLocation
<1>. QED  BY <1>1, <1>2 DEF HudCallMade

LEMMA ReportTypes ==
  ASSUME HudTypes, \/ TimerFires \/ TimePasses \/ \E s \in Spots \cup {None} : Locate(s)
  PROVE  HudTypes'
<1> USE DEF HudTypes
<1>1. UNCHANGED <<tile, carried, shown, count, combat, claim, queue, wire>> /\ PromptsShrink
  BY DEF TimerFires, TimePasses, Locate, EntersHex, ClosePrompts, PromptsShrink,
      room, prompts, outcomes, link
<1>2. pending' \in Spots \cup {None} /\ fix' \in Spots \cup {None} /\ HudCallMade
  <2>1. CASE TimerFires
    BY <2>1, SendPendingCalls DEF TimerFires, HudDevice
  <2>2. CASE TimePasses
    BY <2>2 DEF TimePasses, HudDevice, HudCallMade, link
  <2>3. CASE \E s \in Spots \cup {None} : Locate(s)
    <3>1. PICK s \in Spots \cup {None} : fix' = s /\ ReportFix(s)
      BY <2>3 DEF Locate
    <3>2. CASE connected /\ s # None
      BY <3>1, <3>2, SendPendingCalls DEF ReportFix
    <3>3. CASE ~ (connected /\ s # None)
      BY <3>1, <3>3 DEF ReportFix, HudCallMade
    <3>. QED  BY <3>2, <3>3
  <2>. QED  BY <2>1, <2>2, <2>3
<1>3. HudLink'
  BY <1>1, <1>2, CallMadeTyped
<1>. QED  BY <1>1, <1>2, <1>3, ShrunkAreTyped DEF HudRoom, HudDevice, HudDialogs

LEMMA LinkTypes ==
  ASSUME HudTypes, LoseConnection \/ Reconnect
  PROVE  HudTypes'
<1> USE DEF HudTypes
<1>1. UNCHANGED <<tile, carried, shown, fix, count, combat, claim, queue>> /\ PromptsShrink
  BY DEF LoseConnection, Reconnect, PromptsShrink, room, prompts, outcomes
<1>2. pending' \in Spots \cup {None}
  BY DEF LoseConnection, Reconnect, HudDevice
<1>3. HudRoom'
  BY <1>1 DEF HudRoom
<1>4. HudLink'
  <2>1. CASE LoseConnection
    BY <2>1, ShorterSeq DEF LoseConnection, HudLink
  <2>2. CASE Reconnect
    <3>1. HudCallMade
      BY <1>2, <2>2, SendPendingCalls DEF Reconnect
    <3>2. wire' = <<State("PlayerJoined")>> /\ State("PlayerJoined") \in HudMessages
      BY <1>3, <2>2, HudStateTyped DEF Reconnect
    <3>. QED  BY <3>1, <3>2 DEF HudLink, HudCallMade
  <2>. QED  BY <2>1, <2>2
<1>. QED  BY <1>1, <1>2, <1>3, <1>4, ShrunkAreTyped DEF HudDevice, HudDialogs

\* What a message does to prompts, board and dialogs.
HudReceived(m) ==
  /\ m \in HudMessages /\ UNCHANGED fix /\ PromptsShrink
  /\ \/ shown'.tile = shown.tile /\ shown' \in Views
     \/ OnStateUpdated(m)
     \/ m.kind = "PlayerJoined" /\ shown' = m.board /\ pickup' = None /\ reinforce' = None

LEMMA ReceiveEffect ==
  ASSUME HudTypes, Receive
  PROVE  HudReceived(Head(wire)) /\ HudTypes'
<1> USE DEF HudTypes
<1> DEFINE m == Head(wire)
<1>1. m \in HudMessages /\ wire' \in Seq(HudMessages)
  BY DEF Receive, HudLink
<1>2. /\ UNCHANGED <<tile, carried, fix, calls>>
      /\ OnStateUpdated(m) \/ OnPlayerJoined(m) \/ OnPlayersMoved(m) \/ OnOutcome(m) \/ OnDone(m)
  BY DEF Receive, room
<1> HIDE DEF m
<1>3. m.kind \in {"StateUpdated", "PlayerJoined", "PlayersMoved"} => m.board \in Views
  BY <1>1 DEF HudMessages, HudOutcomes
<1>4. m.kind \in {"combat", "claim"} => m \in HudOutcomes
  BY <1>1 DEF HudMessages
<1>5. UNCHANGED <<count, pending>> /\ PromptsShrink
  BY <1>2 DEF OnStateUpdated, OnPlayerJoined, OnPlayersMoved, OnOutcome, OnDone,
      PromptsShrink, prompts, reports
<1>6. /\ HudDialogs'
      /\ \/ shown'.tile = shown.tile /\ shown' \in Views
         \/ OnStateUpdated(m)
         \/ m.kind = "PlayerJoined" /\ shown' = m.board /\ pickup' = None /\ reinforce' = None
  <2>1. CASE OnStateUpdated(m) \/ OnPlayerJoined(m)
    BY <2>1 DEF OnStateUpdated, OnPlayerJoined, outcomes, HudDialogs
  <2>2. CASE OnPlayersMoved(m)
    BY <1>3, <2>2 DEF OnPlayersMoved, outcomes, HudDialogs, HudDevice, Views
  <2>3. CASE OnOutcome(m)
    BY <1>4, <2>3, ShowTypes DEF OnOutcome, HudDevice
  <2>4. CASE OnDone(m)
    <3>1. UNCHANGED <<combat, claim, queue>> \/ \E kind \in {"combat", "claim"} : DismissOutcome(kind)
      BY <2>4 DEF OnDone, outcomes
    <3>2. HudDialogs'
      BY <3>1, DismissTypes DEF HudDialogs
    <3>. QED  BY <2>4, <3>2 DEF OnDone, HudDevice
  <2>. QED  BY <1>2, <2>1, <2>2, <2>3, <2>4
<1>7. shown' \in Views
  BY <1>3, <1>6 DEF OnStateUpdated
<1>8. HudDevice'
  BY <1>2, <1>5, <1>7, ShrunkAreTyped DEF HudDevice
<1>. QED  BY <1>1, <1>2, <1>5, <1>6, <1>8 DEF HudReceived, HudRoom, HudLink, m

LEMMA HudTypesStart == Init => HudTypes
<1> SUFFICES ASSUME Init PROVE HudTypes
  OBVIOUS
<1> USE DEF Init
<1>1. PICK start \in Starts : tile = start.tile /\ carried = start.carried /\ fix = start.fix
  OBVIOUS
<1>2. /\ start.tile \in [Hexes -> [owner : Owners, troops : 0..MaxTroops]]
      /\ start.carried \in 0..MaxTroops /\ start.fix \in Spots
  BY <1>1, StartsAreBoards
<1>3. HudRoom /\ fix \in Spots
  BY <1>1, <1>2 DEF HudRoom, Boards
<1>4. HudDevice
  BY <1>3 DEF HudRoom, HudDevice, Views
<1>5. HudDialogs
  BY ShorterSeq DEF HudDialogs
<1>6. HudLink
  <2>1. [op |-> "Locate", spot |-> fix] \in HudCalls
    BY <1>3 DEF HudCalls
  <2>. QED  BY <2>1, ShorterSeq DEF HudLink
<1>. QED  BY <1>3, <1>4, <1>5, <1>6 DEF HudTypes

\* What a step does to the prompts, and to what they are about.
HudStep ==
  \/ HudClicked
  \/ \E s \in Spots \cup {None} : Locate(s)
  \/ \E m : HudReceived(m)
  \/ UNCHANGED <<fix, shown>> /\ PromptsShrink

LEMMA HudTypesStep ==
  ASSUME HudTypes, [Next]_vars
  PROVE  HudTypes' /\ HudStep
<1> USE DEF HudTypes
<1>1. CASE Clicks \/ Enter \/ Escape
  BY <1>1, ClicksAreSimple, ClickTypes DEF HudStep
<1>2. CASE Others \/ HubHandles
  <2>1. HudRoom' /\ HudLink'
    BY <1>2, OthersTypes, HubTypes
  <2>2. UNCHANGED <<shown, fix, pending, count, combat, claim, queue, pickup, reinforce, preview>>
    BY <1>2 DEF Others, FoeTakes, OthersAct, OthersRejoin, Broadcast, HubHandles,
        reports, prompts, outcomes
  <2>. QED  BY <2>1, <2>2 DEF HudDevice, HudDialogs, HudStep, PromptsShrink
<1>3. CASE \E s \in Spots \cup {None} : Locate(s)
  BY <1>3, ReportTypes DEF HudStep
<1>4. CASE TimerFires \/ TimePasses
  <2>1. UNCHANGED <<fix, shown>> /\ PromptsShrink
    BY <1>4 DEF TimerFires, TimePasses, prompts, PromptsShrink
  <2>. QED  BY <1>4, <2>1, ReportTypes DEF HudStep
<1>5. CASE LoseConnection \/ Reconnect
  <2>1. UNCHANGED <<fix, shown>> /\ PromptsShrink
    BY <1>5 DEF LoseConnection, Reconnect, prompts, PromptsShrink
  <2>. QED  BY <1>5, <2>1, LinkTypes DEF HudStep
<1>6. CASE Receive
  BY <1>6, ReceiveEffect DEF HudStep
<1>7. CASE UNCHANGED vars
  <2>1. UNCHANGED <<tile, carried, shown, fix, pending, count, combat, claim, queue, pickup, reinforce, preview,
                    calls, wire>>
    BY <1>7 DEF vars, room, reports, prompts, outcomes, link
  <2>. QED  BY <2>1 DEF HudRoom, HudDevice, HudDialogs, HudLink, HudStep, PromptsShrink
<1>. QED  BY <1>1, <1>2, <1>3, <1>4, <1>5, <1>6, <1>7 DEF Next

(* The two invariants *)

\* Kept while the position stays: prompts close, or one opens at the hex.
LEMMA HereKept ==
  ASSUME PromptIsForThisHex, UNCHANGED fix, PromptsShrink \/ PromptOpens
  PROVE  PromptIsForThisHex'
<1>1. Here' = Here
  BY DEF Here
<1>2. CASE PromptsShrink
  BY <1>1, <1>2 DEF PromptsShrink, PromptIsForThisHex
<1>3. CASE PromptOpens
  BY <1>1, <1>3 DEF PromptOpens, PromptIsForThisHex
<1>. QED  BY <1>2, <1>3

LEMMA PromptIsForThisHexStep ==
  ASSUME HudStep, PromptIsForThisHex
  PROVE  PromptIsForThisHex'
<1>1. CASE \E s \in Spots \cup {None} : Locate(s)
  <2>1. PICK s \in Spots \cup {None} : Locate(s)
    BY <1>1
  <2> DEFINE h == IF s = None THEN None ELSE HexOf[s]
  <2>2. Here' = h /\ IF h = Here THEN UNCHANGED prompts ELSE EntersHex(h)
    BY <2>1 DEF Locate, Here
  <2> HIDE DEF h
  <2>3. CASE h = Here
    BY <2>2, <2>3 DEF PromptIsForThisHex, prompts
  <2>4. CASE h # Here
    BY <2>2, <2>4 DEF EntersHex, ClosePrompts, PromptIsForThisHex
  <2>. QED  BY <2>3, <2>4
<1>. QED  BY <1>1, HereKept DEF HudStep, HudClicked, HudReceived

\* Kept while the board shown stays: only a prompt that fits it opens.
LEMMA BoardKept ==
  ASSUME HudDevice, PromptsFitBoard, shown'.tile = shown.tile, PromptsShrink \/ PromptOpens
  PROVE  PromptsFitBoard'
<1>1. CASE PromptsShrink
  BY <1>1 DEF PromptsShrink, PromptsFitBoard, Friendly
<1>2. CASE PromptOpens
  <2>1. pickup' # None => pickup'.hex = Here /\ "pickup" \in CurrentHexActions
    BY <1>2 DEF PromptOpens
  <2>2. reinforce' # None => reinforce'.hex = Here /\ "reinforce" \in CurrentHexActions
    BY <1>2 DEF PromptOpens
  <2>3. pickup' # None => shown.tile[pickup'.hex].owner = Me /\ shown.tile[pickup'.hex].troops > 0
    BY <2>1, ActionsFit
  <2>4. reinforce' # None => Friendly(shown.tile[reinforce'.hex].owner)
    BY <2>2, ActionsFit
  <2>. QED  BY <2>3, <2>4 DEF PromptsFitBoard, Friendly
<1>. QED  BY <1>1, <1>2

\* A state that arrives closes what it contradicts: what stays open had the
\* same owner before, and a pick-up has troops still.
LEMMA StateKept ==
  ASSUME HudDevice, HudDevice', NEW m \in HudMessages, OnStateUpdated(m), PromptsFitBoard
  PROVE  PromptsFitBoard'
<1>1. m.board \in Views /\ shown' = m.board
  BY DEF OnStateUpdated, HudMessages, HudOutcomes
<1>2. pickup' # None => shown'.tile[pickup'.hex].owner = Me /\ shown'.tile[pickup'.hex].troops > 0
  <2> SUFFICES ASSUME pickup' # None
               PROVE  shown'.tile[pickup'.hex].owner = Me /\ shown'.tile[pickup'.hex].troops > 0
    OBVIOUS
  <2>1. pickup' = pickup /\ ~ ShouldClearPickupPrompt(m.board)
    BY DEF OnStateUpdated
  <2>2. /\ m.board.tile[pickup.hex].troops # 0
        /\ m.board.tile[pickup.hex].owner = shown.tile[pickup.hex].owner
    BY <2>1 DEF ShouldClearPickupPrompt, Cell
  <2>3. m.board.tile[pickup.hex].troops \in Nat
    BY <1>1, <2>1 DEF HudDevice, HudPrompts, Views, Boards
  <2>. QED  BY <1>1, <2>1, <2>2, <2>3 DEF PromptsFitBoard
<1>3. reinforce' # None => Friendly(shown'.tile[reinforce'.hex].owner)
  BY <1>1 DEF OnStateUpdated, ShouldClearReinforcePrompt, Cell, PromptsFitBoard
<1>. QED  BY <1>2, <1>3 DEF PromptsFitBoard, Friendly

LEMMA PromptsFitBoardStep ==
  ASSUME HudTypes, HudTypes', HudStep, PromptsFitBoard
  PROVE  PromptsFitBoard'
<1> USE DEF HudTypes
<1>1. CASE HudClicked
  BY <1>1, BoardKept DEF HudClicked
<1>2. CASE \E s \in Spots \cup {None} : Locate(s)
  <2>1. shown' = shown /\ PromptsShrink
    BY <1>2 DEF Locate, EntersHex, ClosePrompts, prompts, PromptsShrink
  <2>. QED  BY <2>1, BoardKept
<1>3. CASE \E m : HudReceived(m)
  <2>1. PICK m : HudReceived(m)
    BY <1>3
  <2>2. CASE shown'.tile = shown.tile
    BY <2>1, <2>2, BoardKept DEF HudReceived
  <2>3. CASE OnStateUpdated(m)
    BY <2>1, <2>3, StateKept DEF HudReceived
  <2>4. CASE pickup' = None /\ reinforce' = None
    BY <2>4 DEF PromptsFitBoard
  <2>. QED  BY <2>1, <2>2, <2>3, <2>4 DEF HudReceived
<1>4. CASE UNCHANGED <<fix, shown>> /\ PromptsShrink
  BY <1>4, BoardKept
<1>. QED  BY <1>1, <1>2, <1>3, <1>4 DEF HudStep

\* Whatever prompt or preview is open is for the hex the player stands on.
THEOREM PromptIsForThisHexHolds == Spec => []PromptIsForThisHex
<1> DEFINE IInv == HudTypes /\ PromptIsForThisHex
<1>1. Init => IInv
  BY HudTypesStart DEF Init, PromptIsForThisHex
<1>2. IInv /\ [Next]_vars => IInv'
  BY HudTypesStep, PromptIsForThisHexStep
<1>3. IInv => PromptIsForThisHex
  OBVIOUS
<1>. QED  BY <1>1, <1>2, <1>3, PTL DEF Spec

\* A pick-up is offered from an own hex with troops only, a reinforcement to a
\* hex of the alliance only, on the board as it is shown.
THEOREM PromptsFitBoardHolds == Spec => []PromptsFitBoard
<1> DEFINE IInv == HudTypes /\ PromptsFitBoard
<1>1. Init => IInv
  BY HudTypesStart DEF Init, PromptsFitBoard
<1>2. IInv /\ [Next]_vars => IInv'
  BY HudTypesStep, PromptsFitBoardStep
<1>3. IInv => PromptsFitBoard
  OBVIOUS
<1>. QED  BY <1>1, <1>2, <1>3, PTL DEF Spec
==============================================================================
