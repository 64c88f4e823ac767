---------------------------- MODULE MCAlgorithms ----------------------------
(***************************************************************************)
(* The algorithms that run within one call, checked over all small inputs: *)
(* yang-pcg's floor plan, terrain repair and spawn points, and yang-base's *)
(* dependency sort.  They share no state, so a behaviour is one of one of  *)
(* them: it is chosen in the initial state and the others are not started. *)
(***************************************************************************)
EXTENDS FloorPlan, TLC

CONSTANTS
    Columns, Rows, MaxDoors,                                    \* TerrainRepair
    Spacings, MaxCount, Entrance, MaxObstacles,                 \* SpawnPoints
    Node                                                        \* PluginOrder

VARIABLES
    algorithm,
    tiles, waiting, marked, repairPc,                           \* TerrainRepair
    room, config, wanted, items, enemies, spawnPc,              \* SpawnPoints
    strict, plugins, deps, degree, queue, sorted, sortPc        \* PluginOrder

terrainVars == <<tiles, waiting, marked, repairPc>>
spawnVars == <<room, config, wanted, items, enemies, spawnPc>>
sortVars == <<strict, plugins, deps, degree, queue, sorted, sortPc>>

(* A request names no exclusion zone or one that covers part of the room. *)
Zones == {[low |-> <<2, 1>>, high |-> <<4, 2>>]}

Terrain == INSTANCE TerrainRepair WITH pc <- repairPc
Spawns == INSTANCE SpawnPoints WITH pc <- spawnPc
Sort == INSTANCE PluginOrder WITH pc <- sortPc

ASSUME AlgorithmsAssumption ==
    Terrain!GridAssumption /\ Spawns!SpawnAssumption /\ Sort!NodeAssumption

NoTerrain == tiles = << >> /\ waiting = {} /\ marked = {} /\ repairPc = "off"
NoSpawns ==
    /\ room = << >> /\ config = << >> /\ wanted = 0
    /\ items = {} /\ enemies = {} /\ spawnPc = "off"
NoSort ==
    /\ strict = FALSE /\ plugins = {} /\ deps = << >> /\ degree = << >>
    /\ queue = << >> /\ sorted = << >> /\ sortPc = "off"

MCInit ==
    /\ Init
    /\ \/ algorithm = "floor" /\ NoTerrain /\ NoSpawns /\ NoSort
       \/ algorithm = "terrain" /\ Terrain!Init /\ NoSpawns /\ NoSort
       \/ algorithm = "spawns" /\ NoTerrain /\ Spawns!Init /\ NoSort
       \/ algorithm = "sort" /\ NoTerrain /\ NoSpawns /\ Sort!Init

MCNext ==
    \/ algorithm = "floor" /\ Next /\ UNCHANGED <<algorithm, terrainVars, spawnVars, sortVars>>
    \/ algorithm = "terrain" /\ Terrain!Next /\ UNCHANGED <<algorithm, vars, spawnVars, sortVars>>
    \/ algorithm = "spawns" /\ Spawns!Next /\ UNCHANGED <<algorithm, vars, terrainVars, sortVars>>
    \/ algorithm = "sort" /\ Sort!Next /\ UNCHANGED <<algorithm, vars, terrainVars, spawnVars>>

MCSpec == MCInit /\ [][MCNext]_<<algorithm, vars, terrainVars, spawnVars, sortVars>>

Symmetric == Permutations(Node)

-----------------------------------------------------------------------------
(* The properties are stated in the algorithms' modules.                   *)

(* connect_all_doorways: a repaired room's doors reach each other. *)
DoorsConnected == Terrain!DoorsConnected
(* generate_spawns: what it samples passes validate_spawn_spacing. *)
SampledIsValid == Spawns!SampledIsValid
(* Both plugin sorts: a sortable plugin comes after all of its             *)
(* dependencies, and none is forgotten unless a cycle is refused.          *)
SortsOrRefuses == Sort!DependenciesFirst /\ Sort!ListedUnlessCyclic
=============================================================================
