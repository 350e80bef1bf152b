----------------------------- MODULE LobbySetup -----------------------------
(***************************************************************************)
(* A room in the lobby, from its creation to the start of the game: who    *)
(* has joined, the alliances and their members, the game area, the master  *)
(* tile, the starting tiles and the headquarters, as the host's wizard and *)
(* the players change them in any order.                                   *)
(*                                                                         *)
(* Every operation runs under the room's lock and is one step, except      *)
(* LoadMapTemplate, which reads the database between two locked sections.  *)
(* Names, colours, distances and the order of lists are left out: "the     *)
(* first" of several is any of them.  Refused calls change nothing and are *)
(* left out, but for those that do change something.                       *)
(***************************************************************************)
EXTENDS Naturals, FiniteSets

CONSTANTS
  Users,
  HostUser,      \* the player who made the room
  Ids,           \* ids of alliances; one that nothing refers to is a new Guid
  AllianceLimit, \* how many alliances players can make by joining them
  Hexes,
  Areas,         \* the game areas the host can choose
  FirstArea,     \* the one a new room has
  None

ASSUME HostIsUser == HostUser \in Users
ASSUME AreasAreHexes == Areas \subseteq SUBSET Hexes /\ FirstArea \in Areas
ASSUME NoneIsNothing == None \notin Users \cup Ids \cup Hexes \cup Areas

VARIABLES
  phase,      \* State.Phase
  located,    \* HasMapLocation
  hqMode,     \* HQEnabled and HQAutoAssign
  joined,     \* State.Players
  alliance,   \* alliance[u]: the AllianceId of u, or None
  alliances,  \* the ids in State.Alliances
  members,    \* members[a]: MemberIds
  hq,         \* hq[a]: HQHexQ and HQHexR, or None
  grid,       \* the hexes of State.Grid
  owner,      \* owner[h]: OwnerId, or None
  ally,       \* ally[h]: OwnerAllianceId, or None
  master,     \* MasterTileQ and MasterTileR, or None
  flagged,    \* the hexes with IsMasterTile
  armed,      \* the players who carry the starting troops
  at,         \* at[u]: the current hex of u, or None
  template    \* the area that LoadMapTemplate has read, or None

teams == <<alliance, alliances, members>>
tiles == <<owner, ally>>
centre == <<master, flagged>>
board == <<grid, tiles, centre, armed>>
settings == <<located, hqMode>>
vars == <<phase, settings, joined, teams, hq, board, at, template>>

TypeOK ==
  /\ phase \in {"Lobby", "Playing"}
  /\ located \in BOOLEAN
  /\ hqMode \in {"off", "manual", "auto"}
  /\ joined \subseteq Users
  /\ alliance \in [Users -> Ids \cup {None}]
  /\ alliances \subseteq Ids
  /\ members \in [Ids -> SUBSET Users]
  /\ hq \in [Ids -> Hexes \cup {None}]
  /\ grid \in Areas
  /\ owner \in [Hexes -> Users \cup {None}]
  /\ ally \in [Hexes -> Ids \cup {None}]
  /\ master \in Hexes \cup {None}
  /\ flagged \subseteq Hexes
  /\ armed \subseteq Users
  /\ at \in [Users -> Hexes \cup {None}]
  /\ template \in Areas \cup {None}

Init ==
  /\ phase = "Lobby"
  /\ located = FALSE
  /\ hqMode = "off"
  /\ joined = {HostUser}
  /\ alliance = [u \in Users |-> None]
  /\ alliances = {}
  /\ members = [a \in Ids |-> {}]
  /\ hq = [a \in Ids |-> None]
  /\ grid = FirstArea
  /\ owner = [h \in Hexes |-> None]
  /\ ally = owner
  /\ master = None
  /\ flagged = {}
  /\ armed = {}
  /\ at = alliance
  /\ template = None

InLobby == phase = "Lobby"

Unowned == {h \in grid : owner[h] = None}
TilesOf(u) == {h \in grid : owner[h] = u}
Territory(a) == {h \in grid : ally[h] = a}

\* Ids that no alliance has and no tile remembers.
NewIds == Ids \ (alliances \cup {ally[h] : h \in Hexes})

----------------------------------------------------------------------------
(* Players and alliances *)

MayJoin(a) ==
  \/ a \in alliances
  \/ a \in NewIds /\ Cardinality(alliances) < AllianceLimit

JoinRoom(u) ==
  /\ InLobby
  /\ u \notin joined
  /\ joined' = joined \cup {u}
  /\ UNCHANGED <<phase, settings, teams, hq, board, at, template>>

\* Mutant: the player stays a member of the alliance left.
SetAlliance_StaysMember(u, a) ==
  /\ InLobby
  /\ u \in joined
  /\ MayJoin(a)
  /\ alliances' = alliances \cup {a}
  /\ members' = [members EXCEPT ![a] = @ \cup {u}]
  /\ alliance' = [alliance EXCEPT ![u] = a]
  /\ ally' = [h \in Hexes |-> IF h \in TilesOf(u) THEN a ELSE ally[h]]
  /\ UNCHANGED <<phase, settings, joined, hq, grid, owner, centre, armed, at, template>>

\* u names an alliance, which is made if there is none of that name; the tiles
\* of u follow.
SetAlliance(u, a) ==
  /\ InLobby
  /\ u \in joined
  /\ MayJoin(a)
  /\ alliances' = alliances \cup {a}
  /\ members' = [b \in Ids |-> IF b = a THEN members[b] \cup {u} ELSE members[b] \ {u}]
  /\ alliance' = [alliance EXCEPT ![u] = a]
  /\ ally' = [h \in Hexes |-> IF h \in TilesOf(u) THEN a ELSE ally[h]]
  /\ UNCHANGED <<phase, settings, joined, hq, grid, owner, centre, armed, at, template>>

\* New alliances replace all there were.  Tiles keep the ids they have.
ConfigureAlliances ==
  /\ InLobby
  /\ \E new \in SUBSET NewIds \ {{}} : alliances' = new
  /\ members' = [a \in Ids |-> {}]
  /\ hq' = [a \in Ids |-> None]
  /\ alliance' = [u \in Users |-> None]
  /\ UNCHANGED <<phase, settings, joined, board, at, template>>

\* Tiles stay with the alliance their owner had.
DistributePlayersRandomly ==
  /\ InLobby
  /\ \E team \in [joined -> alliances] :
       LET Team(a) == {u \in joined : team[u] = a} IN
       /\ \A a, b \in alliances : Cardinality(Team(a)) <= Cardinality(Team(b)) + 1
       /\ alliance' = [u \in Users |-> IF u \in joined THEN team[u] ELSE alliance[u]]
       /\ members' = [a \in Ids |-> IF a \in alliances THEN Team(a) ELSE members[a]]
  /\ UNCHANGED <<phase, settings, joined, alliances, hq, board, at, template>>

----------------------------------------------------------------------------
(* The game area and its tiles *)

SetMapLocation ==
  /\ InLobby
  /\ located' = TRUE
  /\ UNCHANGED <<phase, hqMode, joined, teams, hq, board, at, template>>

SetGameDynamics ==
  /\ InLobby
  /\ hqMode' \in {"off", "manual", "auto"}
  /\ UNCHANGED <<phase, located, joined, teams, hq, board, at, template>>

\* No tile of the new area is owned and nobody carries troops; headquarters
\* stay where they were.
ResetBoardStateForAreaChange ==
  /\ owner' = [h \in Hexes |-> None]
  /\ ally' = owner'
  /\ master' = None
  /\ flagged' = {}
  /\ armed' = {}

ApplyGameArea ==
  /\ InLobby
  /\ grid' \in Areas
  /\ ResetBoardStateForAreaChange
  /\ UNCHANGED <<phase, settings, joined, teams, hq, at, template>>

\* The host asks for a template in the lobby ...
LoadMapTemplate ==
  /\ InLobby
  /\ template = None
  /\ template' \in Areas
  /\ UNCHANGED <<phase, settings, joined, teams, hq, board, at>>

\* Mutant: the phase is not read again.
ApplyTemplate_Unchecked ==
  /\ template # None
  /\ template' = None
  /\ grid' = template
  /\ ResetBoardStateForAreaChange
  /\ UNCHANGED <<phase, settings, joined, teams, hq, at>>

\* ... and it arrives, perhaps after the start of the game.
ApplyTemplate ==
  /\ template # None
  /\ template' = None
  /\ \/ InLobby /\ grid' = template /\ ResetBoardStateForAreaChange
     \/ ~ InLobby /\ UNCHANGED board
  /\ UNCHANGED <<phase, settings, joined, teams, hq, at>>

SetMasterTileByHex(h) ==
  /\ InLobby
  /\ h \in Unowned
  /\ master' = h
  /\ flagged' = (flagged \ {master}) \cup {h}
  /\ UNCHANGED <<phase, settings, joined, teams, hq, grid, tiles, armed, at, template>>

\* By its place on the map: a map without a location gets this one, even if the
\* hex there cannot be the master tile.
SetMasterTile(h) ==
  /\ InLobby
  /\ located' = TRUE
  /\ \/ h \in Unowned /\ master' = h /\ flagged' = (flagged \ {master}) \cup {h}
     \/ h \notin Unowned /\ UNCHANGED centre
  /\ UNCHANGED <<phase, hqMode, joined, teams, hq, grid, tiles, armed, at, template>>

Assignable(h) == master # None /\ h \in Unowned \ flagged

\* A tile for a player, who may have no alliance yet.
AssignStartingTile(h, u) ==
  /\ InLobby
  /\ Assignable(h)
  /\ u \in joined
  /\ owner' = [owner EXCEPT ![h] = u]
  /\ ally' = [ally EXCEPT ![h] = alliance[u]]
  /\ UNCHANGED <<phase, settings, joined, teams, hq, grid, centre, armed, at, template>>

\* A tile for an alliance is owned by its first member.
AssignAllianceStartingTile(h, a) ==
  /\ InLobby
  /\ Assignable(h)
  /\ a \in alliances
  /\ \E u \in joined : alliance[u] = a /\ owner' = [owner EXCEPT ![h] = u]
  /\ ally' = [ally EXCEPT ![h] = a]
  /\ UNCHANGED <<phase, settings, joined, teams, hq, grid, centre, armed, at, template>>

SetAllianceHQ(a, h) ==
  /\ InLobby
  /\ hqMode # "off"
  /\ a \in alliances
  /\ h \in Territory(a)
  /\ hq' = [hq EXCEPT ![a] = h]
  /\ UNCHANGED <<phase, settings, joined, teams, board, at, template>>

----------------------------------------------------------------------------
(* The start of the game *)

MayStart ==
  /\ InLobby
  /\ located
  /\ Cardinality(joined) >= 2
  /\ \A u \in joined : alliance[u] # None
  /\ Cardinality(grid) >= Cardinality(joined) + 1
  /\ hqMode = "manual" => \A a \in alliances : members[a] # {} => hq[a] # None

\* Without a master tile, the free hex nearest to the centre is made one.
AutoAssignMasterTile ==
  \/ /\ master = None
     /\ \E h \in Unowned : master' = h /\ flagged' = flagged \cup {h}
  \/ /\ master # None \/ Unowned = {}
     /\ UNCHANGED centre

\* Alliances with members and no tile get one each, as far as hexes are free.
\* There are alliances, since every player has one: AutoAssignPlayerStartingTiles
\* is never called.
AutoAssignAllianceStartingTiles ==
  LET free == Unowned \ flagged'
      needing == {a \in alliances : members[a] # {} /\ Territory(a) = {}}
  IN \E given \in SUBSET free : \E first \in [given -> joined] :
       LET teamsGiven == {alliance[first[h]] : h \in given} IN
       /\ teamsGiven \subseteq needing
       /\ \A h, k \in given : alliance[first[h]] = alliance[first[k]] => h = k
       /\ given = free \/ teamsGiven = needing
       /\ owner' = [h \in Hexes |-> IF h \in given THEN first[h] ELSE owner[h]]
       /\ ally' = [h \in Hexes |-> IF h \in given THEN alliance[first[h]] ELSE ally[h]]

HasTerritory(u) ==
  \/ TilesOf(u) # {}
  \/ alliance[u] \in alliances /\ Territory(alliance[u]) # {}

GrantStartingTroops == armed' = {u \in joined : HasTerritory(u)'}

WantsHQ(a) == hqMode = "auto" /\ a \in alliances /\ members[a] # {} /\ hq[a] = None

\* An alliance keeps the headquarters it has, wherever that is by now.
AutoAssignAllianceHQs ==
  /\ hq' \in [Ids -> Hexes \cup {None}]
  /\ \A a \in Ids : hq'[a] \in IF WantsHQ(a) /\ Territory(a)' # {} THEN Territory(a)' ELSE {hq[a]}

\* ResolveSpawnCell: an own tile, else one of the alliance, else the master tile.
SpawnCells(u) ==
  CASE TilesOf(u) # {} -> TilesOf(u)
    [] TilesOf(u) = {} /\ Territory(alliance[u]) # {} -> Territory(alliance[u])
    [] OTHER -> {master}

\* Mutant: only the master tile is required.
ReadyToPlay_Unvalidated == master # None

ReadyToPlay == master # None /\ \A u \in joined : u \in armed \/ HasTerritory(u)

\* What StartGame has assigned stays assigned when it then refuses to start.
StartGame ==
  /\ MayStart
  /\ UNCHANGED <<settings, joined, teams, grid, template>>
  /\ AutoAssignMasterTile
  /\ AutoAssignAllianceStartingTiles
  /\ GrantStartingTroops
  /\ AutoAssignAllianceHQs
  /\ \/ /\ ReadyToPlay'
        /\ phase' = "Playing"
        /\ at' \in [Users -> Hexes \cup {None}]
        /\ \A u \in Users : at'[u] \in IF u \in joined THEN SpawnCells(u)' ELSE {None}
     \/ ~ ReadyToPlay' /\ UNCHANGED <<phase, at>>

----------------------------------------------------------------------------
Next ==
  \/ \E u \in Users : JoinRoom(u)
  \/ \E u \in Users, a \in Ids : SetAlliance(u, a)
  \/ ConfigureAlliances \/ DistributePlayersRandomly
  \/ SetMapLocation \/ SetGameDynamics
  \/ ApplyGameArea \/ LoadMapTemplate \/ ApplyTemplate
  \/ \E h \in Hexes : SetMasterTileByHex(h) \/ SetMasterTile(h)
  \/ \E h \in Hexes, u \in Users : AssignStartingTile(h, u)
  \/ \E h \in Hexes, a \in Ids : AssignAllianceStartingTile(h, a) \/ SetAllianceHQ(a, h)
  \/ StartGame

Spec == Init /\ [][Next]_vars

----------------------------------------------------------------------------
\* The coordinates of the master tile and the flags of the hexes agree, and
\* however tiles, areas and templates are changed, nobody owns the master tile.
MasterTileIsNeutral ==
  /\ flagged = {master} \ {None}
  /\ master # None => master \in grid /\ owner[master] = None /\ ally[master] = None

\* The two records of who is in an alliance agree, and nobody is in one that was
\* replaced: MemberIds decides who gets a tile and a headquarters, AllianceId
\* who owns it.
MembershipAgrees ==
  /\ \A a \in alliances : members[a] = {u \in joined : alliance[u] = a}
  /\ \A u \in Users : alliance[u] \in alliances \cup {None}

\* When the game runs every player carries troops and stands on a tile that the
\* player or the player's alliance owns; a template that arrives late, or a
\* start that was refused before, makes no difference.
EverybodyCanPlay ==
  ~ InLobby => \A u \in joined :
    /\ u \in armed
    /\ at[u] \in TilesOf(u) \cup Territory(alliance[u])

\* Nothing that the setup does touches a game that has started.
RunningBoardIsFixed == [][~ InLobby => UNCHANGED <<board, hq, teams>>]_vars

----------------------------------------------------------------------------
(* What the program says of itself, and does not do *)

\* The wizard: "HQ tiles will be placed automatically on each alliance's
\* starting area."
AutoHQIsOnStartingArea ==
  ~ InLobby /\ hqMode = "auto" =>
    \A a \in alliances : members[a] # {} => hq[a] \in Territory(a) \cup {None}
=============================================================================
