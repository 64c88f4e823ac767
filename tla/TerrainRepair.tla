---------------------------- MODULE TerrainRepair ----------------------------
(***************************************************************************)
(* yang-pcg's connectivity repair, which every terrain goes through after  *)
(* its strategy: connect_all_doorways floods from the first doorway and    *)
(* carves an L-shaped path for every doorway the flood has not marked.     *)
(* The marks are extended after each path, never computed anew.  What a    *)
(* strategy leaves in the interior is arbitrary.                           *)
(***************************************************************************)
EXTENDS Integers, FiniteSets

CONSTANTS Columns, Rows, MaxDoors

GridAssumption == Columns \in Nat /\ Rows \in Nat /\ Columns >= 4 /\ Rows >= 4 /\ MaxDoors \in Nat

VARIABLES
    tiles,      \* point -> "wall", "floor", "obstacle", "door"
    waiting,    \* doorways the loop has not come to
    marked,     \* reachable: the tiles some flood has visited
    pc          \* "start", "repair", "done"

vars == <<tiles, waiting, marked, pc>>

Point == (0 .. Columns - 1) \X (0 .. Rows - 1)
Interior == (1 .. Columns - 2) \X (1 .. Rows - 2)
Corner == {0, Columns - 1} \X {0, Rows - 1}

Doors == {p \in Point : tiles[p] = "door"}

(* collect_doorways lists them row by row. *)
Before(p, q) == p[2] < q[2] \/ (p[2] = q[2] /\ p[1] < q[1])
FirstOf(S) == CHOOSE p \in S : \A q \in S \ {p} : Before(p, q)

(* init_room_grid walls the room in, mark_doorways opens doors in the      *)
(* wall, the strategy fills the interior.                                  *)
Init ==
    /\ \E opened \in SUBSET (Point \ (Interior \cup Corner)), floor \in SUBSET Interior :
          /\ Cardinality(opened) <= MaxDoors
          /\ tiles = [p \in Point |-> CASE p \in opened -> "door"
                                        [] p \in floor -> "floor"
                                        [] p \in Interior \ floor -> "obstacle"
                                        [] OTHER -> "wall"]
    /\ waiting = Doors
    /\ marked = {}
    /\ pc = "start"

-----------------------------------------------------------------------------
Walkable(grid) == {p \in Point : grid[p] \in {"floor", "door"}}

Neighbors(p) ==
    {<<p[1] + 1, p[2]>>, <<p[1] - 1, p[2]>>, <<p[1], p[2] + 1>>, <<p[1], p[2] - 1>>} \cap Point

(* What can be reached from the given tiles over tiles of S: n steps take  *)
(* the search n tiles far, and no tile is farther than there are tiles.    *)
Closure(found, S) ==
    LET within[n \in 0 .. Columns * Rows] ==
            IF n = 0 THEN found
            ELSE LET nearer == within[n - 1]
                 IN  nearer \cup (S \cap UNION {Neighbors(p) : p \in nearer})
    IN  within[Columns * Rows]

(* flood_fill: visited tiles are not entered again, so that the flood does *)
(* not come out on the other side of them.                                 *)
Flooded(p, grid, visited) ==
    IF p \in visited THEN visited ELSE visited \cup Closure({p}, Walkable(grid) \ visited)

(* The interior tile behind a doorway. *)
Inward(door) ==
    CASE door[1] = 0 -> <<1, door[2]>>
      [] door[1] = Columns - 1 -> <<Columns - 2, door[2]>>
      [] door[1] \in 1 .. Columns - 2 /\ door[2] = 0 -> <<door[1], 1>>
      [] door[1] \in 1 .. Columns - 2 /\ door[2] = Rows - 1 -> <<door[1], Rows - 2>>
      [] OTHER -> door

Carved(grid, S) ==
    [p \in Point |-> IF p \in S /\ p \in Interior /\ grid[p] # "door" THEN "floor" ELSE grid[p]]

Between(a, b) == IF a <= b THEN a .. b ELSE b .. a

(* Variant of the next definition: the second leg starts a tile too late. *)
PathPastCorner(from, to) ==
    ((Between(from[1], to[1]) \ {to[1]}) \X {from[2]})
        \cup ({to[1]} \X (Between(from[2], to[2]) \ {from[2]})) \cup {to}

(* First along the row, then along the column, the corner included. *)
PathTo(from, to) ==
    (Between(from[1], to[1]) \X {from[2]}) \cup ({to[1]} \X Between(from[2], to[2]))

-----------------------------------------------------------------------------
(* A single doorway has nothing to be connected with. *)
NothingToDo ==
    /\ pc = "start"
    /\ Cardinality(Doors) <= 1
    /\ pc' = "done"
    /\ UNCHANGED <<tiles, waiting, marked>>

FloodFirst ==
    LET first == FirstOf(Doors) IN
    /\ pc = "start"
    /\ Cardinality(Doors) > 1
    /\ tiles' = Carved(tiles, {Inward(first)})
    /\ marked' = Flooded(first, tiles', {})
    /\ waiting' = Doors \ {first}
    /\ pc' = "repair"

Skip ==
    /\ pc = "repair"
    /\ waiting # {}
    /\ FirstOf(waiting) \in marked
    /\ waiting' = waiting \ {FirstOf(waiting)}
    /\ UNCHANGED <<tiles, marked, pc>>

Connect ==
    LET entry == Inward(FirstOf(waiting)) IN
    /\ pc = "repair"
    /\ waiting # {}
    /\ FirstOf(waiting) \notin marked
    /\ tiles' = Carved(tiles, {entry} \cup PathTo(entry, Inward(FirstOf(Doors))))
    /\ marked' = Flooded(entry, tiles', marked)
    /\ waiting' = waiting \ {FirstOf(waiting)}
    /\ UNCHANGED pc

Return ==
    /\ pc = "repair"
    /\ waiting = {}
    /\ pc' = "done"
    /\ UNCHANGED <<tiles, waiting, marked>>

Next == NothingToDo \/ FloodFirst \/ Skip \/ Connect \/ Return

Spec == Init /\ [][Next]_vars

-----------------------------------------------------------------------------
(* bfs_walkable *)
ReachableFrom(p) == Closure({p}, Walkable(tiles))

(* "保证「所有 Doorway 瓦片互相可达」这一硬不变量" (connectivity.rs): the  *)
(* validation of a repaired room finds its doors connected, whatever the   *)
(* strategy left, and although the marks are only ever extended: on the    *)
(* way they never claim a tile that cannot be reached from the first door. *)
DoorsConnected ==
    /\ pc = "repair" => marked \subseteq ReachableFrom(FirstOf(Doors))
    /\ pc = "done" /\ Doors # {} => Doors \subseteq ReachableFrom(FirstOf(Doors))
=============================================================================
