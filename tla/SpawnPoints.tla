----------------------------- MODULE SpawnPoints -----------------------------
(***************************************************************************)
(* yang-pcg's spawn points of one room: items are sampled first, enemies   *)
(* then keep clear of them, points in an exclusion zone are dropped, and   *)
(* the result is validated.  Sampling measures Euclidean distances,        *)
(* validation Manhattan ones.  A sampler takes shuffled candidates one by  *)
(* one and keeps those that are far enough from the ones it has kept: the  *)
(* next point kept is any candidate that still is.                         *)
(***************************************************************************)
EXTENDS Integers, FiniteSets

CONSTANTS
    Columns, Rows,
    Spacings,       \* of items and of enemies
    MaxCount,       \* points of a kind a room asks for at most
    Entrance,       \* enemy_spawns.min_distance_from_entrance
    MaxObstacles,   \* bound on the interior tiles that are not floor
    Zones           \* the exclusion zones a request may name, as [low, high]

SpawnAssumption ==
    /\ Columns \in Nat /\ Rows \in Nat /\ Columns >= 4 /\ Rows >= 4
    /\ Spacings \subseteq Nat \ {0}
    /\ MaxCount \in Nat /\ MaxObstacles \in Nat
    /\ Entrance \in Nat /\ Entrance >= 2

VARIABLES
    room,       \* [floor, doors, boss]
    config,     \* [items, enemies, zones]: both minimal spacings and the exclusion zones
    wanted,     \* the desired count of the sampler at work
    items, enemies,
    pc          \* "items", "enemies", "exclude", "done"

vars == <<room, config, wanted, items, enemies, pc>>

Point == (0 .. Columns - 1) \X (0 .. Rows - 1)
Interior == (1 .. Columns - 2) \X (1 .. Rows - 2)
Corner == {0, Columns - 1} \X {0, Rows - 1}

Abs(a) == IF a < 0 THEN -a ELSE a
Smaller(a, b) == IF a < b THEN a ELSE b
DistanceSq(p, q) == (p[1] - q[1]) * (p[1] - q[1]) + (p[2] - q[2]) * (p[2] - q[2])
Manhattan(p, q) == Abs(p[1] - q[1]) + Abs(p[2] - q[2])

Init ==
    /\ \E blocked \in SUBSET Interior, doors \in SUBSET (Point \ (Interior \cup Corner)), boss \in BOOLEAN :
          /\ Cardinality(blocked) <= MaxObstacles
          /\ Cardinality(doors) <= 1
          /\ room = [floor |-> Interior \ blocked, doors |-> doors, boss |-> boss]
    /\ config \in [items : Spacings, enemies : Spacings, zones : SUBSET Zones]
    /\ wanted \in 0 .. MaxCount
    /\ items = {} /\ enemies = {}
    /\ pc = "items"

-----------------------------------------------------------------------------
(* min_cross_type_spacing *)
CrossSpacing == Smaller(config.items, config.enemies)

Clear(p, S, spacing) == \A q \in S : DistanceSq(p, q) >= spacing * spacing

(* A boss room has no items. *)
ItemCandidates ==
    {p \in room.floor : ~room.boss /\ Clear(p, items, config.items)}

(* Variant of the next definition: items are not looked at. *)
EnemiesOverItems ==
    {p \in room.floor :
        /\ \A d \in room.doors : Manhattan(d, p) >= Entrance
        /\ Clear(p, enemies, config.enemies)}

(* Enemies keep away from doorways and from the items. *)
EnemyCandidates ==
    {p \in room.floor :
        /\ \A d \in room.doors : Manhattan(d, p) >= Entrance
        /\ Clear(p, enemies, config.enemies)
        /\ Clear(p, items, CrossSpacing)}

PlaceItem ==
    /\ pc = "items"
    /\ Cardinality(items) < wanted
    /\ \E p \in ItemCandidates : items' = items \cup {p}
    /\ UNCHANGED <<room, config, wanted, enemies, pc>>

(* The items are complete: the enemies of the room are counted out. *)
StartEnemies ==
    /\ pc = "items"
    /\ Cardinality(items) = wanted \/ ItemCandidates = {}
    /\ wanted' \in 0 .. MaxCount
    /\ pc' = "enemies"
    /\ UNCHANGED <<room, config, items, enemies>>

PlaceEnemy ==
    /\ pc = "enemies"
    /\ ~room.boss
    /\ Cardinality(enemies) < wanted
    /\ \E p \in EnemyCandidates : enemies' = enemies \cup {p}
    /\ UNCHANGED <<room, config, wanted, items, pc>>

(* The boss stands in the middle, whatever is there. *)
PlaceBoss ==
    /\ pc = "enemies"
    /\ room.boss
    /\ enemies' = {<<Columns \div 2, Rows \div 2>>}
    /\ pc' = "exclude"
    /\ UNCHANGED <<room, config, wanted, items>>

EnemiesComplete ==
    /\ pc = "enemies"
    /\ ~room.boss
    /\ Cardinality(enemies) = wanted \/ EnemyCandidates = {}
    /\ pc' = "exclude"
    /\ UNCHANGED <<room, config, wanted, items, enemies>>

(* The upper bounds of a zone are outside it. *)
Within(p, zone) ==
    /\ zone.low[1] <= p[1] /\ p[1] < zone.high[1]
    /\ zone.low[2] <= p[2] /\ p[2] < zone.high[2]
Excluded(p) == \E zone \in config.zones : Within(p, zone)

Exclude ==
    /\ pc = "exclude"
    /\ items' = {p \in items : ~Excluded(p)}
    /\ enemies' = {p \in enemies : ~Excluded(p)}
    /\ pc' = "done"
    /\ UNCHANGED <<room, config, wanted>>

Next ==
    \/ PlaceItem \/ StartEnemies \/ PlaceEnemy \/ PlaceBoss \/ EnemiesComplete \/ Exclude

Spec == Init /\ [][Next]_vars

-----------------------------------------------------------------------------
(* validate_spawn_spacing: each pair of the room's spawns, an item and an  *)
(* enemy on the same tile included, and the exclusion zones.               *)
Valid(spacing) ==
    /\ \A kind \in {items, enemies} : \A p, q \in kind : p # q => Manhattan(p, q) >= spacing
    /\ \A p \in items, q \in enemies : Manhattan(p, q) >= spacing
    /\ \A p \in items \cup enemies : ~Excluded(p)

DefaultMinSpacing == 2

(* "保证「生成时满足 ⟹ 校验通过」" (spawn/mod.rs): no request is refused   *)
(* for the spawns the generator itself has sampled.                        *)
SampledIsValid == pc = "done" => Valid(CrossSpacing)

(* "校验期的统一阈值" (spawn/mod.rs): the report that run_full_validation  *)
(* adds in debug mode finds nothing wrong with a floor that was accepted.  *)
ReportAgrees ==
    pc = "done" => (Valid(CrossSpacing) => Valid(DefaultMinSpacing))
=============================================================================
