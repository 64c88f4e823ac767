------------------------------ MODULE FloorPlan ------------------------------
(***************************************************************************)
(* yang-pcg's floor generator up to the geometry: the topology (a critical *)
(* path with branches), the placement of the rooms one after the other,    *)
(* and the doors of every edge.  Rooms are numbered from 0 in the order in *)
(* which the planner creates them; the layout solver places them in that   *)
(* order.  What the code draws from its generator is chosen with \E.       *)
(***************************************************************************)
EXTENDS Integers, Sequences

CONSTANTS
    RoomCount, CriticalLength, BranchCount,   \* the values the configured ranges allow
    Width, Height,                            \* of a room
    MaxHeight,                                \* room_size.max_height
    Corridor                                  \* corridor.width

(* GenerationConfig::normalize *)
ASSUME ConfigAssumption ==
    /\ RoomCount \subseteq Nat \ {0, 1}
    /\ CriticalLength \subseteq Nat \ {0, 1}
    /\ BranchCount \subseteq Nat
    /\ Width \subseteq {w \in Nat : w >= 4}
    /\ MaxHeight \in Nat
    /\ Height \subseteq {h \in Nat : 4 <= h /\ h <= MaxHeight}
    /\ Corridor \in Nat \ {0}

VARIABLES
    graph,      \* [rooms, critical, branches], a branch being [parent, first, last]
    placed,     \* the bounds of rooms 0, 1, ..., from index 1 on
    cursor,     \* critical_cursor_x, then branch_cursor_x
    candidate,  \* the bounds nudge_clear is moving
    tries,      \* iterations of its loop
    doors,      \* the anchors of all edges
    pc          \* "plan", "critical", "branch", "nudge", "done"

vars == <<graph, placed, cursor, candidate, tries, doors, pc>>

Smaller(a, b) == IF a < b THEN a ELSE b
Larger(a, b) == IF a > b THEN a ELSE b
Abs(a) == IF a < 0 THEN -a ELSE a

(* Integer division by two, towards zero. *)
Half(a) == IF a < 0 THEN -((-a) \div 2) ELSE a \div 2

Box(left, low, width, height) ==
    [left |-> left, low |-> low, right |-> left + width, high |-> low + height]
Raised(box, dy) ==
    [left |-> box.left, low |-> box.low + dy, right |-> box.right, high |-> box.high + dy]
CenterX(box) == Half(box.left + box.right)
CenterY(box) == Half(box.low + box.high)

NoBox == Box(0, 0, 0, 0)
NoGraph == [rooms |-> 0, critical |-> 0, branches |-> << >>]

Init ==
    /\ graph = NoGraph
    /\ placed = << >>
    /\ cursor = 0
    /\ candidate = NoBox
    /\ tries = 0
    /\ doors = {}
    /\ pc = "plan"

-----------------------------------------------------------------------------
(* Topology *)

Branches(rooms, critical, requested) ==
    IF rooms = critical THEN 0 ELSE Smaller(Larger(requested, 1), rooms - critical)

(* Variant of the next definition: an equal share of all branches, what    *)
(* the division leaves over being lost.                                    *)
ShareOfAll(left, waiting, branches) == Larger(left \div branches, 1)

(* The rooms of a branch: an equal share of what is left for the branches  *)
(* that still wait for theirs.                                             *)
Share(left, waiting, branches) == Larger(left \div waiting, 1)

(* Where branch b hangs: on the critical rooms between start and boss in   *)
(* turn, on the start when there are none.                                 *)
Parent(critical, b) == IF critical > 2 THEN 1 + ((b - 1) % (critical - 2)) ELSE 0

(* The first room of every branch, and the room after the last branch. *)
FirstRooms(rooms, critical, many) ==
    LET first[b \in 1 .. many + 1] ==
            IF b = 1 THEN critical
            ELSE first[b - 1] + Share(rooms - first[b - 1], many - b + 2, many)
    IN  first

PlanOf(rooms, critical, requested) ==
    LET many == Branches(rooms, critical, requested)
        first == FirstRooms(rooms, critical, many)
    IN  [rooms |-> rooms, critical |-> critical,
         branches |-> [b \in 1 .. many |->
            [parent |-> Parent(critical, b), first |-> first[b], last |-> first[b + 1] - 1]]]

Plan ==
    /\ pc = "plan"
    /\ \E rooms \in RoomCount, length \in CriticalLength, requested \in BranchCount :
          graph' = PlanOf(rooms, Smaller(Larger(length, 2), rooms), requested)
    /\ pc' = "critical"
    /\ UNCHANGED <<placed, cursor, candidate, tries, doors>>

BranchesOf(room) ==
    {b \in DOMAIN graph.branches : graph.branches[b].first <= room /\ room <= graph.branches[b].last}
BranchOf(room) == CHOOSE b \in BranchesOf(room) : TRUE

ParentOf(room) ==
    IF room >= graph.critical /\ graph.branches[BranchOf(room)].first = room
    THEN graph.branches[BranchOf(room)].parent
    ELSE room - 1

DepthOf(room) ==
    IF room < graph.critical THEN room
    ELSE LET branch == graph.branches[BranchOf(room)]
         IN  branch.parent + (room - branch.first) + 1

-----------------------------------------------------------------------------
(* Layout *)

Room == Len(placed)         \* the room to be placed next
BoundsOf(room) == placed[room + 1]
RowSpacing == MaxHeight + Corridor + 8

PlaceCritical ==
    /\ pc = "critical"
    /\ Room < graph.critical
    /\ \E w \in Width, h \in Height :
          /\ placed' = Append(placed, Box(cursor, -(h \div 2), w, h))
          /\ cursor' = cursor + w + Corridor + 6
    /\ UNCHANGED <<graph, candidate, tries, doors, pc>>

StartBranches ==
    /\ pc = "critical"
    /\ Room = graph.critical
    /\ pc' = "branch"
    /\ UNCHANGED <<graph, placed, cursor, candidate, tries, doors>>

(* Odd branches grow upwards, even ones downwards. *)
Direction(b) == IF b % 2 = 1 THEN 1 ELSE -1

(* Where a branch room is tried first: a row away from the parent, beside  *)
(* the branch's previous room.                                             *)
FirstTry(w, h) ==
    LET b == BranchOf(Room)
        parent == BoundsOf(graph.branches[b].parent)
        x == IF graph.branches[b].first = Room THEN CenterX(parent) ELSE cursor
    IN  IF Direction(b) > 0
        THEN Box(x, parent.high + RowSpacing, w, h)
        ELSE Box(x, parent.low - RowSpacing - h, w, h)

DrawBranchRoom ==
    /\ pc = "branch"
    /\ BranchesOf(Room) # {}
    /\ \E w \in Width, h \in Height : candidate' = FirstTry(w, h)
    /\ tries' = 0
    /\ pc' = "nudge"
    /\ UNCHANGED <<graph, placed, cursor, doors>>

Intersects(a, b) ==
    a.left < b.right /\ a.right > b.left /\ a.low < b.high /\ a.high > b.low

Inflated(a) ==
    [left |-> a.left - 1, low |-> a.low - 1, right |-> a.right + 1, high |-> a.high + 1]

(* Variant of the next definition: only the room before is looked at. *)
OverlapsLast(a) == Intersects(Inflated(a), placed[Len(placed)])

OverlapsAny(a) == \E i \in DOMAIN placed : Intersects(Inflated(a), placed[i])

MaxTries == Len(placed) + 4

Nudge ==
    /\ pc = "nudge"
    /\ tries < MaxTries
    /\ OverlapsAny(candidate)
    /\ candidate' = Raised(candidate, Direction(BranchOf(Room)) * RowSpacing)
    /\ tries' = tries + 1
    /\ UNCHANGED <<graph, placed, cursor, doors, pc>>

Ceiling == CHOOSE y \in {placed[i].high : i \in DOMAIN placed} :
               \A i \in DOMAIN placed : placed[i].high <= y
Floor == CHOOSE y \in {placed[i].low : i \in DOMAIN placed} :
             \A i \in DOMAIN placed : y <= placed[i].low

(* Past everything that is placed, should the tries be spent. *)
Beyond(a) ==
    IF Direction(BranchOf(Room)) > 0
    THEN Raised(a, Ceiling + 2 - a.low)
    ELSE Raised(a, Floor - 2 - a.high)

Settle ==
    LET box == IF OverlapsAny(candidate) THEN Beyond(candidate) ELSE candidate IN
    /\ pc = "nudge"
    /\ tries = MaxTries \/ ~OverlapsAny(candidate)
    /\ placed' = Append(placed, box)
    /\ cursor' = box.right + Corridor + 4
    /\ pc' = "branch"
    /\ UNCHANGED <<graph, candidate, tries, doors>>

-----------------------------------------------------------------------------
(* Doors *)

(* Variant of the next definition: at the end of the wall. *)
DoorAtEnd(box, facing) ==
    CASE facing = "east" -> [x |-> box.right - 1, y |-> box.low]
      [] facing = "west" -> [x |-> box.left, y |-> box.low]
      [] facing = "north" -> [x |-> box.left, y |-> box.high - 1]
      [] facing = "south" -> [x |-> box.left, y |-> box.low]

(* A door is a tile of the wall it faces through, in the middle. *)
DoorAt(box, facing) ==
    CASE facing = "east" -> [x |-> box.right - 1, y |-> CenterY(box)]
      [] facing = "west" -> [x |-> box.left, y |-> CenterY(box)]
      [] facing = "north" -> [x |-> CenterX(box), y |-> box.high - 1]
      [] facing = "south" -> [x |-> CenterX(box), y |-> box.low]

(* The side of a on which b lies, going by the larger distance of the centres. *)
Side(a, b) ==
    LET dx == CenterX(b) - CenterX(a)
        dy == CenterY(b) - CenterY(a)
    IN  IF Abs(dx) >= Abs(dy)
        THEN IF dx >= 0 THEN "east" ELSE "west"
        ELSE IF dy >= 0 THEN "north" ELSE "south"

Opposite(side) ==
    CASE side = "east" -> "west" [] side = "west" -> "east"
      [] side = "north" -> "south" [] side = "south" -> "north"

DoorsOf(edge) ==      \* the edge that leads to a room is named by that room
    LET from == ParentOf(edge)
        facing == Side(BoundsOf(from), BoundsOf(edge))
    IN  {[room |-> from, edge |-> edge, facing |-> facing, at |-> DoorAt(BoundsOf(from), facing)],
         [room |-> edge, edge |-> edge, facing |-> Opposite(facing),
          at |-> DoorAt(BoundsOf(edge), Opposite(facing))]}

OpenDoors ==
    /\ pc = "branch"
    /\ BranchesOf(Room) = {}
    /\ doors' = UNION {DoorsOf(edge) : edge \in 1 .. Len(placed) - 1}
    /\ pc' = "done"
    /\ UNCHANGED <<graph, placed, cursor, candidate, tries>>

Next ==
    \/ Plan \/ PlaceCritical \/ StartBranches \/ DrawBranchRoom
    \/ Nudge \/ Settle \/ OpenDoors

Spec == Init /\ [][Next]_vars

-----------------------------------------------------------------------------
(* Room bounds at least four tiles wide and high. *)
Boxes ==
    {a \in [left : Int, low : Int, right : Int, high : Int] :
        a.left + 4 <= a.right /\ a.low + 4 <= a.high}

(* Every placed room has a size the configuration allows, the branches     *)
(* hang on rooms of the critical path, and the path is placed before them. *)
TypeOK ==
    /\ pc \in {"plan", "critical", "branch", "nudge", "done"}
    /\ graph.critical \in Nat
    /\ \A b \in DOMAIN graph.branches : graph.branches[b].parent \in 0 .. graph.critical - 1
    /\ placed \in Seq(Boxes)
    /\ pc = "nudge" => candidate \in Boxes
    /\ cursor \in Int /\ tries \in Nat
    /\ pc \in {"branch", "nudge", "done"} => 0 < graph.critical /\ graph.critical <= Len(placed)

(* Boxes that keep one tile free between them. *)
Apart(a, b) ==
    \/ a.right < b.left \/ b.right < a.left
    \/ a.high < b.low \/ b.high < a.low

(* "房间不仅不重叠还不贴边" (solver.rs): no two rooms overlap or touch,    *)
(* whatever was drawn, and however branches of one side crowd.             *)
RoomsApart ==
    \A i, j \in DOMAIN placed : i # j => Apart(placed[i], placed[j])

(* The planner's arithmetic adds up: the finished floor has the number of  *)
(* rooms that was drawn, every room after the path in exactly one branch,  *)
(* no branch is empty, and a room's depth is one more than that of the     *)
(* room it hangs on -- a tree, rooted in the one start room.               *)
EveryRoomPlaced ==
    pc = "done" =>
        /\ Len(placed) = graph.rooms
        /\ \A b \in DOMAIN graph.branches : graph.branches[b].first <= graph.branches[b].last
        /\ \A room \in 1 .. graph.rooms - 1 :
              /\ ParentOf(room) \in 0 .. room - 1
              /\ DepthOf(room) = DepthOf(ParentOf(room)) + 1
              /\ room >= graph.critical =>
                    \A b, c \in BranchesOf(room) : b = c

(* A door is on the border of its room, on the side it faces, and never in *)
(* a corner: the terrain's repair enters the room through the tile behind. *)
DoorsOffCorners ==
    \A d \in doors :
        LET box == BoundsOf(d.room)
            inX == box.left < d.at.x /\ d.at.x < box.right - 1
            inY == box.low < d.at.y /\ d.at.y < box.high - 1
        IN  CASE d.facing = "east" -> d.at.x = box.right - 1 /\ inY
              [] d.facing = "west" -> d.at.x = box.left /\ inY
              [] d.facing = "north" -> inX /\ d.at.y = box.high - 1
              [] d.facing = "south" -> inX /\ d.at.y = box.low
=============================================================================
