------------------------------ MODULE BoardView ------------------------------
(***************************************************************************)
(* The board as one player sees it.  The hub shows every viewer only what  *)
(* his alliance sees, or has seen not long ago (VisibilityService), in two *)
(* kinds of messages: the whole state and the players alone.  The client   *)
(* lays them over what it had, adds what it can tell from its own players' *)
(* positions, and draws tiles, a card, a tooltip, markers and arrows.      *)
(*                                                                         *)
(* A handler changes the room under its lock and broadcasts a snapshot     *)
(* afterwards, so the broadcasts of two handlers may be sent in any order. *)
(* One enemy alliance with one player; the viewer is Me, an ally plays     *)
(* along.  Neutral and own hexes are never hidden.                         *)
(***************************************************************************)
EXTENDS Naturals, Sequences, FiniteSets, SequencesExt

CONSTANTS
  Nothing, Me, Ally, Foe, \* nothing, and the three players
  Us, Them,              \* the two alliances
  Hexes, Neighbours,     \* the board; the neighbours of each hex
  Sector,                \* the hexes a beacon lights from each hex
  Start,                 \* the owner of each hex at first
  Home, Camp,            \* where we and the enemy start
  Memory,                \* EnemySightingMemorySeconds, in steps of the clock
  MaxTroops,             \* bound: troops of a hex
  MaxPending, MaxWire,   \* bounds: broadcasts not yet sent, messages on their way
  MaxWalks, MaxEvents    \* bounds: moves to another hex; what else players do and what happens to them

Team == {Me, Ally}
Players == Team \cup {Foe}
SideOf(p) == IF p = Foe THEN Them ELSE Us
Around(h) == {h} \cup Neighbours[h]
Ages == 0..Memory + 1        \* the last one: expired

\* Cells and snapshots of the room; what is remembered; what the client is sent.
Cells == [side : {Us, Them, Nothing}, troops : 0..MaxTroops, fort : BOOLEAN]
Snapshots == [kind : {"state", "players", "tick"}, grid : [Hexes -> Cells],
              at : [Players -> Hexes], beacons : SUBSET Team]
Entries == [cell : Cells, age : Ages]
Sightings == [hex : Hexes, age : Ages]
ShownCells ==
  {c \in [side : {Us, Them, Nothing}, troops : 0..MaxTroops, fort : BOOLEAN,
          tier : {"Visible", "Remembered", "Hidden"}, last : Cells \cup {Nothing}] :
     c.tier = "Remembered" <=> c.last # Nothing}
Rosters == [at : [Players -> Hexes \cup {Nothing}], beacon : BOOLEAN, projected : BOOLEAN]
StateMessages == [kind : {"state"}, projected : BOOLEAN, cells : [Hexes -> ShownCells],
                  at : [Players -> Hexes \cup {Nothing}], beacon : BOOLEAN]
PlayersMessages == [kind : {"players"}, projected : BOOLEAN, cells : {Nothing},
                    at : [Players -> Hexes \cup {Nothing}], beacon : BOOLEAN]
Messages == StateMessages \cup PlayersMessages

ASSUME BoardIsAMap ==
  /\ Neighbours \in [Hexes -> SUBSET Hexes] /\ Sector \in [Hexes -> SUBSET Hexes]
  /\ \A h \in Hexes : \A n \in Neighbours[h] : h \in Neighbours[n]
  /\ Start \in [Hexes -> {Us, Them, Nothing}] /\ {Home, Camp} \subseteq Hexes
ASSUME MemoryLasts == Memory \in Nat \ {0}
ASSUME TroopsFit == MaxTroops \in Nat \ {0}
ASSUME NothingIsApart ==
  /\ Nothing \notin Hexes /\ Nothing \notin Nat
  /\ Nothing \notin Cells /\ Nothing \notin Entries /\ Nothing \notin Sightings

VARIABLES
  grid, at, beacons,   \* the room: cells, positions, players whose beacon is on
  online,              \* ConnectionMap: which of us
  memory,              \* VisibilityMemory: remembered hexes of each of us
  sightings,           \* VisibilityMemory: where each of us has seen the enemy
  pending,             \* snapshots that a handler has taken and not sent yet
  wire,                \* messages to Me
  board,               \* gameState.grid
  roster,              \* players, and whether the message was made for this viewer
  glimpses,            \* localVisibility: hexes that left view, with the time since
  arrows,              \* effectsStore.troopMovements
  witnessed, spotted,  \* history: time since one of us saw the hex, the enemy there
  known,               \* history: hexes of the enemy we have ever seen
  walks, events

room == <<grid, at, beacons, online>>
recall == <<memory, sightings, witnessed, spotted, known>>
screen == <<board, roster, glimpses, arrows>>
bounds == <<walks, events>>
viewVars == <<room, recall, pending, wire, screen, bounds>>

Hostile(cells, h) == cells[h].side = Them
Owned(cells) == {h \in Hexes : cells[h].side = Us}
Borders(cells) == {h \in Hexes : Hostile(cells, h) /\ Neighbours[h] \cap Owned(cells) # {}}

-----------------------------------------------------------------------------
(* VisibilityService.  A snapshot s has the grid, the positions and the beacons. *)

BeaconSector(s, v) == IF v \in s.beacons THEN Sector[s.at[v]] ELSE {}

\* Around all of us, connected or not; the viewer's own beacon; our land and what borders it.
VisibleTo(s, v) ==
  UNION {Around(s.at[p]) : p \in Team} \cup BeaconSector(s, v) \cup Owned(s.grid) \cup Borders(s.grid)

\* A mistake to catch: every viewer remembers only what he sees himself.
SharedBy_Own(s, v, u) == {h \in VisibleTo(s, v) : Hostile(s.grid, h) /\ u = v}

\* What viewer v adds to the memory of u: hexes in v's own beacon are v's alone.
SharedBy(s, v, u) ==
  {h \in VisibleTo(s, v) : Hostile(s.grid, h) /\ (u = v \/ h \notin BeaconSector(s, v))}

RememberedHexes(s, viewers, u) ==
  LET shared == UNION {SharedBy(s, v, u) : v \in viewers} IN
  [h \in Hexes |-> IF h \in shared THEN [cell |-> s.grid[h], age |-> 0] ELSE memory[u][h]]

\* UpdateMemory, for each of the viewers.
UpdateMemory(s, viewers) ==
  LET foeSeen == \E v \in viewers : s.at[Foe] \in VisibleTo(s, v)
      watched == UNION {VisibleTo(s, v) \ BeaconSector(s, v) : v \in viewers} IN
  /\ memory' = [u \in Team |-> RememberedHexes(s, viewers, u)]
  /\ sightings' = IF foeSeen THEN [u \in Team |-> [hex |-> s.at[Foe], age |-> 0]] ELSE sightings
  /\ spotted' = IF foeSeen THEN [spotted EXCEPT ![s.at[Foe]] = 0] ELSE spotted
  /\ witnessed' = [h \in Hexes |-> IF h \in watched /\ Hostile(s.grid, h) THEN 0 ELSE witnessed[h]]
  /\ known' = known \cup UNION {SharedBy(s, v, v) : v \in viewers}

Fresh(entry) == entry # Nothing /\ entry.age <= Memory

\* BuildStateForViewer: owner and troops of hidden cells are sent too, under their tier.
ProjectedCell(s, seen, h) ==
  LET cell == s.grid[h]
      shown(tier, last) == [side |-> cell.side, troops |-> cell.troops, fort |-> cell.fort,
                            tier |-> tier, last |-> last] IN
  IF ~Hostile(s.grid, h) \/ h \in seen THEN shown("Visible", Nothing)
  ELSE IF Fresh(memory'[Me][h]) THEN shown("Remembered", memory'[Me][h].cell)
  ELSE shown("Hidden", Nothing)

\* A mistake to catch: a sighting is shown however long ago it was.
HostilePosition_EverSeen(s) ==
  IF s.at[Foe] \in VisibleTo(s, Me) THEN s.at[Foe]
  ELSE IF sightings'[Me] # Nothing THEN sightings'[Me].hex ELSE Nothing

HostilePosition(s) ==
  IF s.at[Foe] \in VisibleTo(s, Me) THEN s.at[Foe]
  ELSE IF Fresh(sightings'[Me]) THEN sightings'[Me].hex ELSE Nothing

StateMessage(s) ==
  LET seen == VisibleTo(s, Me) IN
  [kind |-> "state", projected |-> TRUE, cells |-> [h \in Hexes |-> ProjectedCell(s, seen, h)],
   at |-> [s.at EXCEPT ![Foe] = HostilePosition(s)], beacon |-> Me \in s.beacons]

\* CreatePlayersForViewer: enemies out of sight are not in the list.
PlayersMessage(s) ==
  [kind |-> "players", projected |-> TRUE, cells |-> Nothing,
   at |-> [s.at EXCEPT ![Foe] = IF s.at[Foe] \in VisibleTo(s, Me) THEN s.at[Foe] ELSE Nothing],
   beacon |-> Me \in s.beacons]

\* The state as it is: the default tier of a cell is Visible.
RawMessage(s) ==
  [kind |-> "state", projected |-> FALSE, at |-> s.at, beacon |-> Me \in s.beacons,
   cells |-> [h \in Hexes |-> [side |-> s.grid[h].side, troops |-> s.grid[h].troops,
                               fort |-> s.grid[h].fort, tier |-> "Visible", last |-> Nothing]]]

-----------------------------------------------------------------------------
(* Handlers change the room, and leave a broadcast behind. *)

Leaves(kind) ==
  /\ Len(pending) < MaxPending
  /\ pending' = Append(pending, [kind |-> kind, grid |-> grid', at |-> at', beacons |-> beacons'])

Event == events < MaxEvents /\ events' = events + 1 /\ UNCHANGED walks
Playing(p) == p \in online \cup {Foe}

\* UpdatePlayerLocation: into another hex, the whole state; within the hex, the players.
Walk(p, h) ==
  /\ Playing(p) /\ h \in Neighbours[at[p]]
  /\ walks < MaxWalks /\ walks' = walks + 1 /\ UNCHANGED events
  /\ at' = [at EXCEPT ![p] = h]
  /\ UNCHANGED <<grid, beacons, online>>
  /\ Leaves("state")
  /\ UNCHANGED <<recall, wire, screen>>

Report(p) ==
  /\ Playing(p) /\ Event
  /\ UNCHANGED room
  /\ Leaves("players")
  /\ UNCHANGED <<recall, wire, screen>>

\* Place, reinforce, claim, fight, pick up, regenerate, build or demolish a fort.
CellChanges(h, cell) ==
  /\ Event
  /\ grid' = [grid EXCEPT ![h] = cell]
  /\ UNCHANGED <<at, beacons, online>>
  /\ Leaves("state")
  /\ UNCHANGED <<recall, wire, screen>>

TroopsChange(h) ==
  \E n \in 1..MaxTroops : /\ grid[h].side # Nothing /\ n \in {grid[h].troops - 1, grid[h].troops + 1}
                          /\ CellChanges(h, [grid[h] EXCEPT !.troops = n])

Conquest(p) ==
  /\ Playing(p) /\ grid[at[p]].side # SideOf(p)
  /\ CellChanges(at[p], [grid[at[p]] EXCEPT !.side = SideOf(p), !.troops = 1])

\* An enemy's fort is built or demolished (ours are always in sight).
FortChanges(h) == grid[h].side = Them /\ CellChanges(h, [grid[h] EXCEPT !.fort = ~@])

\* ActivateBeacon, DeactivateBeacon: the beacon moves with its player.
SwitchBeacon(p) ==
  /\ p \in online /\ Event
  /\ beacons' = IF p \in beacons THEN beacons \ {p} ELSE beacons \cup {p}
  /\ UNCHANGED <<grid, at, online>>
  /\ Leaves("state")
  /\ UNCHANGED <<recall, wire, screen>>

\* ShareBeaconIntel: every member remembers every cell in the sector.
ShareBeaconIntel(p) ==
  LET lit == Sector[at[p]] IN
  /\ p \in online \cap beacons /\ Event
  /\ memory' = [u \in Team |-> [h \in Hexes |->
       IF h \in lit THEN [cell |-> grid[h], age |-> 0] ELSE memory[u][h]]]
  /\ known' = known \cup {h \in lit : Hostile(grid, h)}
  /\ UNCHANGED <<room, sightings, witnessed, spotted>>
  /\ Leaves("state")
  /\ UNCHANGED <<wire, screen>>

\* The regeneration service; its loop waits for its own broadcast.
RegenerationTick ==
  /\ \A i \in DOMAIN pending : pending[i].kind # "tick"
  /\ UNCHANGED <<room, bounds>>
  /\ Leaves("tick")
  /\ UNCHANGED <<recall, wire, screen>>

\* A field battle is resolved somewhere, maybe between alliances further away: the state
\* goes to the whole group at once.
BattleEvent ==
  /\ Event /\ Me \in online /\ Len(wire) < MaxWire
  /\ wire' = Append(wire, RawMessage([grid |-> grid, at |-> at, beacons |-> beacons]))
  /\ UNCHANGED <<room, recall, pending, screen>>

Disconnect(p) ==
  /\ p \in online /\ Event
  /\ online' = online \ {p}
  /\ wire' = IF p = Me THEN <<>> ELSE wire
  /\ UNCHANGED <<grid, at, beacons>>
  /\ Leaves("state")
  /\ UNCHANGED <<recall, screen>>

RejoinRoom(p) ==
  /\ p \in Team \ online
  /\ online' = online \cup {p}
  /\ UNCHANGED <<grid, at, beacons, bounds>>
  /\ Leaves("state")
  /\ UNCHANGED <<recall, wire, screen>>

\* BroadcastPerViewer, BroadcastPlayersPerViewer: all memories first, then the messages.
\* (An expired entry is removed on the way: nothing reads it any more.)
Broadcast(i) ==
  LET s == pending[i] IN
  /\ i \in DOMAIN pending
  /\ Me \in online => Len(wire) < MaxWire
  /\ pending' = RemoveAt(pending, i)
  /\ UNCHANGED <<room, screen, bounds>>
  /\ UpdateMemory(s, online)
  /\ wire' = IF Me \notin online THEN wire
             ELSE Append(wire, IF s.kind = "players" THEN PlayersMessage(s) ELSE StateMessage(s))

Older(age) == IF age < Memory + 1 THEN age + 1 ELSE age
OlderEntry(entry) == IF entry = Nothing THEN Nothing ELSE [entry EXCEPT !.age = Older(@)]
OlderAge(age) == IF age = Nothing THEN Nothing ELSE Older(age)

TimePasses ==
  /\ memory' = [u \in Team |-> [h \in Hexes |-> OlderEntry(memory[u][h])]]
  /\ sightings' = [u \in Team |-> OlderEntry(sightings[u])]
  /\ witnessed' = [h \in Hexes |-> OlderAge(witnessed[h])]
  /\ spotted' = [h \in Hexes |-> OlderAge(spotted[h])]
  /\ glimpses' = [h \in Hexes |-> OlderAge(glimpses[h])]
  /\ UNCHANGED <<room, known, pending, wire, board, roster, arrows, bounds>>

-----------------------------------------------------------------------------
(* The client. *)

\* computeBeaconCone, around the player's own hex.
Cone(players) == IF players.beacon THEN Sector[players.at[Me]] \ {players.at[Me]} ELSE {}
NearUs(players) == UNION {Around(players.at[p]) : p \in Team}

\* isLocallyVisible, with or without a beacon cone and the cells that border our land.
LocallyVisible(players, bordering) == NearUs(players) \cup Owned(board) \cup bordering

\* A mistake to catch: how well a cell is seen is not compared.
HexChanged_NotTier(old, new) ==
  <<old.side, old.troops, old.fort>> # <<new.side, new.troops, new.fort>>

\* hasHexChanged: when a fort was last known there, and when it was seen, is not compared.
HexChanged(old, new) ==
  \/ <<old.side, old.troops, old.fort, old.tier>> # <<new.side, new.troops, new.fort, new.tier>>
  \/ (old.last = Nothing) # (new.last = Nothing)
  \/ old.last # Nothing /\ new.last # Nothing
     /\ <<old.last.side, old.last.troops>> # <<new.last.side, new.last.troops>>

\* normalizeGrid: a cell that has not changed is kept.
Normalized(cells) == [h \in Hexes |-> IF HexChanged(board[h], cells[h]) THEN cells[h] ELSE board[h]]

\* detectTroopMovements: a neighbour of the same owner has lost troops.
Moved(old, new, n, h) ==
  /\ n \in Neighbours[h] /\ new[h].side # Nothing
  /\ old[h].side # Nothing
  /\ old[h].side = new[h].side => new[h].troops > old[h].troops
  /\ old[n].side = new[h].side /\ new[n].side = new[h].side
  /\ old[n].troops > new[n].troops

TroopMovements(old, new) == {way \in Hexes \X Hexes : Moved(old, new, way[1], way[2])}

RosterOf(m) == [at |-> m.at, beacon |-> m.beacon, projected |-> m.projected]

\* onStateUpdated, onPlayerJoined: setGameState and dispatchStateToLayers.
OnStateUpdated(m) ==
  /\ board' = Normalized(m.cells)
  /\ roster' = RosterOf(m)
  /\ arrows' = arrows \cup TroopMovements(board, m.cells)
  /\ UNCHANGED glimpses

\* onPlayersMoved: hexes that go out of view are noted; then the players are replaced.
OnPlayersMoved(m) ==
  /\ glimpses' = [h \in Hexes |->
       IF /\ Hostile(board, h)
          /\ h \in LocallyVisible(roster, Borders(board))
          /\ h \notin LocallyVisible(m, Borders(board))
       THEN 0 ELSE glimpses[h]]
  /\ roster' = RosterOf(m)
  /\ UNCHANGED <<board, arrows>>

Receive ==
  /\ wire # <<>>
  /\ wire' = Tail(wire)
  /\ UNCHANGED <<room, recall, pending, bounds>>
  /\ IF Head(wire).kind = "state" THEN OnStateUpdated(Head(wire)) ELSE OnPlayersMoved(Head(wire))

\* TROOP_MOVEMENT_CLEAR_DELAY_MS after the last ones.
ArrowsFade ==
  /\ arrows # {}
  /\ arrows' = {}
  /\ UNCHANGED <<room, recall, pending, wire, board, roster, glimpses, bounds>>

-----------------------------------------------------------------------------
(* What is drawn of a hex. *)

\* deriveTileState: an own glimpse makes a hidden hex a remembered one.
Tier(h, bordering) ==
  IF h \in LocallyVisible(roster, bordering) \cup Cone(roster) THEN "Visible"
  ELSE IF board[h].tier = "Hidden" /\ glimpses[h] # Nothing /\ glimpses[h] < Memory THEN "Remembered"
  ELSE board[h].tier

HiddenTile == [side |-> Nothing, troops |-> 0, fort |-> FALSE]

VisibleTile(h) == [side |-> board[h].side, troops |-> board[h].troops, fort |-> board[h].fort]
RememberedTile(h) == IF board[h].last = Nothing THEN HiddenTile ELSE board[h].last

Drawn(h, tier) ==
  CASE tier = "Visible" -> VisibleTile(h) [] tier = "Remembered" -> RememberedTile(h) [] OTHER -> HiddenTile

\* The tile is derived without the grid around it, the card of a chosen hex with it;
\* the tooltip takes the tier as the hub sent it.
TileTier(h) == Tier(h, {})
CardTier(h) == Tier(h, Borders(board))
Tile(h) == Drawn(h, TileTier(h))
Card(h) == Drawn(h, CardTier(h))
Tooltip(h) == Drawn(h, board[h].tier)

\* The marker of the enemy; in a hex that is not visible it is drawn as stale.
Marker == [hex |-> roster.at[Foe],
           stale |-> roster.at[Foe] # Nothing /\ board[roster.at[Foe]].tier # "Visible"]

-----------------------------------------------------------------------------

Now == [grid |-> grid, at |-> at, beacons |-> beacons]

StartCell(h) == [side |-> Start[h], troops |-> IF Start[h] = Nothing THEN 0 ELSE MaxTroops, fort |-> FALSE]

\* The game has just started: memories are empty, and everyone has the board.
ViewInit ==
  /\ grid = [h \in Hexes |-> StartCell(h)]
  /\ at = [p \in Players |-> IF p = Foe THEN Camp ELSE Home]
  /\ beacons = {} /\ online = Team
  /\ memory = [u \in Team |-> [h \in Hexes |-> Nothing]]
  /\ sightings = [u \in Team |-> Nothing]
  /\ witnessed = [h \in Hexes |-> Nothing] /\ spotted = [h \in Hexes |-> Nothing] /\ known = {}
  /\ pending = <<[kind |-> "state", grid |-> grid, at |-> at, beacons |-> beacons]>>
  /\ wire = <<>>
  /\ board = [h \in Hexes |-> [side |-> Nothing, troops |-> 0, fort |-> FALSE, tier |-> "Visible", last |-> Nothing]]
  /\ roster = [at |-> [at EXCEPT ![Foe] = Nothing], beacon |-> FALSE, projected |-> TRUE]
  /\ glimpses = [h \in Hexes |-> Nothing] /\ arrows = {}
  /\ walks = 0 /\ events = 0

RoomChanges ==
  \/ \E p \in Players : \E h \in Hexes : Walk(p, h)
  \/ \E p \in Players : Report(p) \/ Conquest(p)
  \/ \E h \in Hexes : TroopsChange(h) \/ FortChanges(h)
  \/ \E p \in Team : SwitchBeacon(p) \/ ShareBeaconIntel(p) \/ Disconnect(p) \/ RejoinRoom(p)
  \/ BattleEvent

ViewNext ==
  \/ RoomChanges \/ RegenerationTick \/ \E i \in 1..MaxPending : Broadcast(i)
  \/ Receive \/ ArrowsFade \/ TimePasses

\* The tick comes every 30 seconds, every handler ends with its broadcast, a client that is gone rejoins, and
\* its event loop runs its handlers.
Fairness ==
  /\ WF_viewVars(RegenerationTick) /\ WF_viewVars(Broadcast(1)) /\ WF_viewVars(RejoinRoom(Me))
  /\ WF_viewVars(Receive)

ViewSpec == ViewInit /\ [][ViewNext]_viewVars /\ Fairness

-----------------------------------------------------------------------------
(* Properties *)

ViewTypeOK ==
  /\ grid \in [Hexes -> Cells] /\ at \in [Players -> Hexes]
  /\ beacons \subseteq Team /\ online \subseteq Team
  /\ memory \in [Team -> [Hexes -> Entries \cup {Nothing}]]
  /\ sightings \in [Team -> Sightings \cup {Nothing}]
  /\ pending \in Seq(Snapshots) /\ wire \in Seq(Messages)
  /\ board \in [Hexes -> ShownCells] /\ roster \in Rosters
  /\ witnessed \in [Hexes -> Ages \cup {Nothing}] /\ spotted \in [Hexes -> Ages \cup {Nothing}]

\* What one of us has seen with his own eyes, or from our land, all of us remember for as
\* long as it is worth anything, also those who were away when it was seen
\* (UpdateMemory shares with the members of the alliance, connected or not).
TeamRemembers ==
  \A u \in Team : \A h \in Hexes :
    witnessed[h] # Nothing /\ witnessed[h] <= Memory =>
      memory[u][h] # Nothing /\ memory[u][h].age <= witnessed[h]

\* An enemy that a message places somewhere was seen there by one of us not too long ago
\* (BuildStateForViewer, CreatePlayersForViewer); battle messages are not made for a viewer.
MarkersAreRecent ==
  [][Len(wire') > Len(wire) /\ Last(wire').projected /\ Last(wire').at[Foe] # Nothing =>
       spotted'[Last(wire').at[Foe]] # Nothing /\ spotted'[Last(wire').at[Foe]] <= Memory]_viewVars

\* Everything drawn of hex h is what this player may know of it now.
TruthShown(h) ==
  LET real == grid[h]
      draws == {Tile(h), Card(h), Tooltip(h)} IN
  IF ~Hostile(grid, h) \/ h \in VisibleTo(Now, Me) THEN draws = {real}
  ELSE IF Fresh(memory[Me][h]) /\ memory[Me][h].cell.side # Nothing
       THEN \A d \in draws : d.side = Them /\ d.troops = memory[Me][h].cell.troops
       ELSE draws = {HiddenTile}

\* An ally's beacon renews a sighting at every tick: in between it may expire and come back.
MarkerIsRight ==
  IF at[Foe] \in VisibleTo(Now, Me) THEN Marker.hex = at[Foe]
  ELSE Marker.hex # Nothing => sightings[Me] # Nothing /\ Marker.hex = sightings[Me].hex

\* However broadcasts overtake each other and messages are lost, once the players rest the
\* board, the card, the tooltip and the markers show what the alliance sees and remembers.
BoardCatchesUp == <>[](Me \in online /\ MarkerIsRight /\ \A h \in Hexes : TruthShown(h))

\* Not so: VisibilityBroadcastHelper promises that broadcasts during play respect the fog
\* of war; the states that battles send do not pass through it.
FogIsKept == \A h \in Hexes : Tile(h).side = Them => h \in known \cup VisibleTo(Now, Me)

\* Not so: what is remembered of a hex includes whether there was a fort.
FortsAreRemembered ==
  wire = <<>> /\ pending = <<>> =>
    \A h \in Hexes : board[h].tier = "Remembered" => board[h].last = memory[Me][h].cell
=============================================================================
