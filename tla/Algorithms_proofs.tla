-------------------------- MODULE Algorithms_proofs --------------------------
(***************************************************************************)
(* The algorithms that run within one call, for inputs of every size.      *)
(*                                                                         *)
(* The floor plan: no two rooms overlap or touch, and no door is in a      *)
(* corner.  The invariant says beside the claim itself that the critical   *)
(* path stays left of its cursor, and that the placed rooms have a highest *)
(* and a lowest edge, the ones nudge_clear's fallback goes past.  The plan *)
(* is a tree: the branches share out the rooms beyond the path without a   *)
(* gap, each has at least one, and every room hangs on one with a smaller  *)
(* number.                                                                 *)
(*                                                                         *)
(* The terrain repair connects all doors, the spawn points that are        *)
(* sampled pass the validation, and both plugin sorts put dependencies     *)
(* first and forget nobody.  The repair's flood is a recursive function.   *)
(* What it computes is first shown to be the least set of tiles that has   *)
(* the given ones and is closed under stepping onto a walkable neighbour;  *)
(* only that is used of it afterwards.                                     *)
(***************************************************************************)
EXTENDS MCAlgorithms, WellFoundedInduction, FiniteSetTheorems, FunctionTheorems,
    SequenceTheorems, TLAPS

(* The critical path is placed from left to right. *)
PathLeftOfCursor ==
    pc \in {"plan", "critical"} => \A i \in DOMAIN placed : placed[i].right < cursor

HasCeiling == placed # << >> =>
    \E i \in DOMAIN placed : \A j \in DOMAIN placed : placed[j].high <= placed[i].high
HasFloor == placed # << >> =>
    \E i \in DOMAIN placed : \A j \in DOMAIN placed : placed[i].low <= placed[j].low

(* A placed room beyond the path belongs to a branch. *)
Housed ==
    /\ \A chamber \in graph.critical .. Len(placed) - 1 : BranchesOf(chamber) # {}
    /\ pc = "nudge" => BranchesOf(Len(placed)) # {}

Blank ==
    /\ pc = "plan" => placed = << >>
    /\ pc = "critical" => Len(placed) <= graph.critical /\ 0 < graph.critical

IInv ==
    /\ TypeOK /\ PathLeftOfCursor /\ HasCeiling /\ HasFloor /\ Housed /\ Blank
    /\ RoomsApart

-----------------------------------------------------------------------------
LEMMA BoxType ==
    ASSUME NEW left \in Int, NEW low \in Int, NEW w \in Width, NEW h \in Height
    PROVE  Box(left, low, w, h) \in Boxes
BY ConfigAssumption DEF Box, Boxes

LEMMA RaisedType ==
    ASSUME NEW a \in Boxes, NEW dy \in Int
    PROVE  /\ Raised(a, dy) \in Boxes
           /\ Raised(a, dy).left = a.left /\ Raised(a, dy).right = a.right
           /\ Raised(a, dy).low = a.low + dy /\ Raised(a, dy).high = a.high + dy
<1>1. a \in [left : Int, low : Int, right : Int, high : Int]
      /\ a.left + 4 <= a.right /\ a.low + 4 <= a.high
  BY DEF Boxes
<1>3. /\ Raised(a, dy) \in [left : Int, low : Int, right : Int, high : Int]
      /\ Raised(a, dy).left = a.left /\ Raised(a, dy).right = a.right
      /\ Raised(a, dy).low = a.low + dy /\ Raised(a, dy).high = a.high + dy
  BY <1>1 DEF Raised
<1>4. a.low \in Int /\ a.high \in Int
  BY <1>1
<1>5. Raised(a, dy).left + 4 <= Raised(a, dy).right /\ Raised(a, dy).low + 4 <= Raised(a, dy).high
  BY <1>1, <1>3, <1>4
<1> QED BY <1>3, <1>5 DEF Boxes

LEMMA HalfType == ASSUME NEW a \in Int PROVE Half(a) \in Int
BY DEF Half

LEMMA CenterType == ASSUME NEW a \in Boxes PROVE CenterX(a) \in Int /\ CenterY(a) \in Int
<1>1. a.left + a.right \in Int /\ a.low + a.high \in Int
  BY DEF Boxes
<1> QED BY <1>1, HalfType DEF CenterX, CenterY

(* A box that does not intersect another once inflated keeps apart from it. *)
LEMMA ClearIsApart ==
    ASSUME NEW a \in Boxes, NEW b \in Boxes, ~Intersects(Inflated(a), b)
    PROVE  Apart(a, b)
BY DEF Boxes, Intersects, Inflated, Apart

LEMMA ApartSymmetric ==
    ASSUME NEW a, NEW b, Apart(a, b) PROVE Apart(b, a)
BY DEF Apart

(* Appending a box that is apart from all others keeps all apart, and the  *)
(* list of boxes still has extremes.                                       *)
LEMMA AppendApart ==
    ASSUME placed \in Seq(Boxes), RoomsApart, HasCeiling, HasFloor,
           NEW box \in Boxes, \A i \in DOMAIN placed : Apart(box, placed[i]),
           placed' = Append(placed, box)
    PROVE  /\ placed' \in Seq(Boxes) /\ Len(placed') = Len(placed) + 1
           /\ RoomsApart' /\ HasCeiling' /\ HasFloor'
<1>1. /\ placed' \in Seq(Boxes) /\ Len(placed') = Len(placed) + 1
      /\ DOMAIN placed' = DOMAIN placed \cup {Len(placed) + 1}
      /\ DOMAIN placed = 1 .. Len(placed) /\ Len(placed) \in Nat
      /\ placed'[Len(placed) + 1] = box
      /\ \A i \in DOMAIN placed : placed'[i] = placed[i] /\ placed[i] \in Boxes /\ i # Len(placed) + 1
  OBVIOUS
<1>2. RoomsApart'
  <2> SUFFICES ASSUME NEW i \in DOMAIN placed', NEW j \in DOMAIN placed', i # j
               PROVE  Apart(placed'[i], placed'[j])
    BY DEF RoomsApart
  <2>1. CASE i = Len(placed) + 1
    BY <1>1, <2>1
  <2>2. CASE j = Len(placed) + 1
    BY <1>1, <2>2, ApartSymmetric
  <2>3. CASE i \in DOMAIN placed /\ j \in DOMAIN placed
    BY <1>1, <2>3 DEF RoomsApart
  <2> QED BY <1>1, <2>1, <2>2, <2>3
<1>3. HasCeiling'
  <2>1. CASE placed = << >>
    <3>1. DOMAIN placed = {}
      BY <2>1
    <3>2. \A j \in DOMAIN placed' : placed'[j].high <= placed'[Len(placed) + 1].high
      BY <1>1, <3>1 DEF Boxes
    <3> QED BY <1>1, <3>2 DEF HasCeiling
  <2>2. CASE placed # << >>
    <3>1. PICK i \in DOMAIN placed : \A j \in DOMAIN placed : placed[j].high <= placed[i].high
      BY <2>2 DEF HasCeiling
    <3>2. CASE box.high <= placed[i].high
      <4>1. \A j \in DOMAIN placed' : placed'[j].high <= placed'[i].high
        BY <1>1, <3>1, <3>2
      <4> QED BY <1>1, <4>1 DEF HasCeiling
    <3>3. CASE ~(box.high <= placed[i].high)
      <4>1. box.high \in Int /\ \A j \in DOMAIN placed : placed[j].high \in Int
        BY <1>1 DEF Boxes
      <4>2. \A j \in DOMAIN placed : placed[j].high <= box.high
        BY <3>1, <3>3, <4>1
      <4>3. \A j \in DOMAIN placed' : placed'[j].high <= placed'[Len(placed) + 1].high
        BY <1>1, <4>1, <4>2
      <4> QED BY <1>1, <4>3 DEF HasCeiling
    <3> QED BY <3>2, <3>3
  <2> QED BY <2>1, <2>2
<1>4. HasFloor'
  <2>1. CASE placed = << >>
    <3>1. DOMAIN placed = {}
      BY <2>1
    <3>2. \A j \in DOMAIN placed' : placed'[Len(placed) + 1].low <= placed'[j].low
      BY <1>1, <3>1 DEF Boxes
    <3> QED BY <1>1, <3>2 DEF HasFloor
  <2>2. CASE placed # << >>
    <3>1. PICK i \in DOMAIN placed : \A j \in DOMAIN placed : placed[i].low <= placed[j].low
      BY <2>2 DEF HasFloor
    <3>2. CASE placed[i].low <= box.low
      <4>1. \A j \in DOMAIN placed' : placed'[i].low <= placed'[j].low
        BY <1>1, <3>1, <3>2
      <4> QED BY <1>1, <4>1 DEF HasFloor
    <3>3. CASE ~(placed[i].low <= box.low)
      <4>1. box.low \in Int /\ \A j \in DOMAIN placed : placed[j].low \in Int
        BY <1>1 DEF Boxes
      <4>2. \A j \in DOMAIN placed : box.low <= placed[j].low
        BY <3>1, <3>3, <4>1
      <4>3. \A j \in DOMAIN placed' : placed'[Len(placed) + 1].low <= placed'[j].low
        BY <1>1, <4>1, <4>2
      <4> QED BY <1>1, <4>3 DEF HasFloor
    <3> QED BY <3>2, <3>3
  <2> QED BY <2>1, <2>2
<1> QED BY <1>1, <1>2, <1>3, <1>4

(* nudge_clear's fallback is clear of everything placed. *)
LEMMA BeyondIsApart ==
    ASSUME placed \in Seq(Boxes), placed # << >>, HasCeiling, HasFloor, NEW a \in Boxes
    PROVE  Beyond(a) \in Boxes /\ \A i \in DOMAIN placed : Apart(Beyond(a), placed[i])
<1>1. \A i \in DOMAIN placed : placed[i] \in Boxes
  OBVIOUS
<1>2. CASE Direction(BranchOf(Room)) > 0
  <2> DEFINE Edges == {placed[i].high : i \in DOMAIN placed}
             Extreme(y) == \A i \in DOMAIN placed : placed[i].high <= y
  <2>1. \E y \in Edges : Extreme(y)
    BY DEF HasCeiling
  <2>2. Ceiling = CHOOSE y \in Edges : Extreme(y)
    BY DEF Ceiling
  <2> HIDE DEF Extreme
  <2>3. Ceiling \in Edges /\ Extreme(Ceiling)
    BY <2>1, <2>2
  <2>4. /\ Ceiling \in {placed[i].high : i \in DOMAIN placed}
        /\ \A i \in DOMAIN placed : placed[i].high <= Ceiling
    BY <2>3 DEF Extreme
  <2>5. a.low \in Int /\ \A i \in DOMAIN placed : placed[i].high \in Int
    BY <1>1 DEF Boxes
  <2>6. PICK k \in DOMAIN placed : Ceiling = placed[k].high
    BY <2>3
  <2>7. Ceiling \in Int /\ Ceiling + 2 - a.low \in Int
    BY <2>5, <2>6
  <2>8. Beyond(a) = Raised(a, Ceiling + 2 - a.low)
    BY <1>2 DEF Beyond
  <2>9. Beyond(a) \in Boxes /\ Beyond(a).low = a.low + (Ceiling + 2 - a.low)
    BY <2>7, <2>8, RaisedType
  <2>10. Beyond(a).low = Ceiling + 2
    BY <2>7, <2>5, <2>9
  <2>11. \A i \in DOMAIN placed : placed[i].high < Beyond(a).low
    BY <2>4, <2>7, <2>10, <2>5
  <2> QED BY <2>9, <2>11 DEF Apart
<1>3. CASE ~(Direction(BranchOf(Room)) > 0)
  <2> DEFINE Edges == {placed[i].low : i \in DOMAIN placed}
             Extreme(y) == \A i \in DOMAIN placed : y <= placed[i].low
  <2>1. \E y \in Edges : Extreme(y)
    BY DEF HasFloor
  <2>2. Floor = CHOOSE y \in Edges : Extreme(y)
    BY DEF Floor
  <2> HIDE DEF Extreme
  <2>3. Floor \in Edges /\ Extreme(Floor)
    BY <2>1, <2>2
  <2>4. /\ Floor \in {placed[i].low : i \in DOMAIN placed}
        /\ \A i \in DOMAIN placed : Floor <= placed[i].low
    BY <2>3 DEF Extreme
  <2>5. a.high \in Int /\ \A i \in DOMAIN placed : placed[i].low \in Int
    BY <1>1 DEF Boxes
  <2>6. PICK k \in DOMAIN placed : Floor = placed[k].low
    BY <2>3
  <2>7. Floor \in Int /\ Floor - 2 - a.high \in Int
    BY <2>5, <2>6
  <2>8. Beyond(a) = Raised(a, Floor - 2 - a.high)
    BY <1>3 DEF Beyond
  <2>9. Beyond(a) \in Boxes /\ Beyond(a).high = a.high + (Floor - 2 - a.high)
    BY <2>7, <2>8, RaisedType
  <2>10. Beyond(a).high = Floor - 2
    BY <2>7, <2>5, <2>9
  <2>11. \A i \in DOMAIN placed : Beyond(a).high < placed[i].low
    BY <2>4, <2>7, <2>10, <2>5
  <2> QED BY <2>9, <2>11 DEF Apart
<1> QED BY <1>2, <1>3

-----------------------------------------------------------------------------
LEMMA InitInv == Init => IInv
<1> SUFFICES ASSUME Init PROVE IInv
  OBVIOUS
<1>1. placed = << >> /\ pc = "plan" /\ graph.critical = 0 /\ graph.branches = << >>
  BY DEF Init, NoGraph
<1>2. DOMAIN placed = {} /\ DOMAIN graph.branches = {} /\ Len(placed) = 0 /\ placed \in Seq(Boxes)
  BY <1>1
<1>3. TypeOK
  BY <1>1, <1>2 DEF Init, TypeOK
<1>4. Housed
  BY <1>1, <1>2 DEF Housed
<1> QED BY <1>1, <1>2, <1>3, <1>4 DEF IInv, PathLeftOfCursor, HasCeiling, HasFloor, Blank, RoomsApart

LEMMA PlanInv == ASSUME IInv, Plan PROVE IInv'
<1>1. PICK rooms \in RoomCount, length \in CriticalLength, requested \in BranchCount :
         graph' = PlanOf(rooms, Smaller(Larger(length, 2), rooms), requested)
  BY DEF Plan
<1> DEFINE critical == Smaller(Larger(length, 2), rooms)
           many == Branches(rooms, critical, requested)
<1>2. rooms \in Nat /\ rooms >= 2 /\ requested \in Nat /\ critical \in Nat /\ critical >= 2
  BY ConfigAssumption DEF Smaller, Larger
<1>3. many \in Nat
  BY <1>2 DEF Branches, Smaller, Larger
<1>4. /\ graph'.critical = critical
      /\ DOMAIN graph'.branches = 1 .. many
      /\ \A b \in 1 .. many : graph'.branches[b].parent = Parent(critical, b)
  BY <1>1 DEF PlanOf
<1>5. \A b \in 1 .. many : Parent(critical, b) \in 0 .. critical - 1
  <2> SUFFICES ASSUME NEW b \in 1 .. many PROVE Parent(critical, b) \in 0 .. critical - 1
    OBVIOUS
  <2>1. CASE critical > 2
    <3>1. b - 1 \in Int /\ critical - 2 \in Nat /\ critical - 2 > 0
      BY <1>2, <1>3, <2>1
    <3>2. (b - 1) % (critical - 2) \in 0 .. critical - 3
      BY <1>2, <3>1
    <3> QED BY <1>2, <2>1, <3>2 DEF Parent
  <2>2. CASE ~(critical > 2)
    BY <1>2, <2>2 DEF Parent
  <2> QED BY <2>1, <2>2
<1>6. /\ pc' = "critical" /\ placed' = placed /\ placed = << >> /\ cursor' = cursor /\ tries' = tries
  BY DEF Plan, IInv, Blank
<1>7. DOMAIN placed = {} /\ Len(placed) = 0
  BY <1>6
<1> HIDE DEF critical, many
<1>8. TypeOK'
  BY <1>2, <1>4, <1>5, <1>6 DEF TypeOK, IInv
<1>9. Housed'
  BY <1>2, <1>4, <1>6, <1>7 DEF Housed
<1> QED BY <1>2, <1>4, <1>6, <1>7, <1>8, <1>9
        DEF IInv, PathLeftOfCursor, HasCeiling, HasFloor, Blank, RoomsApart

LEMMA PlaceCriticalInv == ASSUME IInv, PlaceCritical PROVE IInv'
<1>1. PICK w \in Width, h \in Height :
         /\ placed' = Append(placed, Box(cursor, -(h \div 2), w, h))
         /\ cursor' = cursor + w + Corridor + 6
  BY DEF PlaceCritical
<1> DEFINE box == Box(cursor, -(h \div 2), w, h)
<1>2. w \in Nat /\ h \in Nat /\ -(h \div 2) \in Int /\ Corridor \in Nat /\ cursor \in Int
  BY ConfigAssumption DEF IInv, TypeOK
<1>3. box \in Boxes /\ box.left = cursor /\ box.right = cursor + w
  BY <1>2, BoxType DEF Box
<1> HIDE DEF box
<1>4. placed \in Seq(Boxes) /\ \A i \in DOMAIN placed : placed[i] \in Boxes /\ placed[i].right < cursor
  BY DEF IInv, TypeOK, PathLeftOfCursor, PlaceCritical
<1>5. \A i \in DOMAIN placed : Apart(box, placed[i])
  BY <1>3, <1>4 DEF Apart
<1>6. placed' = Append(placed, box)
  BY <1>1 DEF box
<1>7. /\ placed' \in Seq(Boxes) /\ Len(placed') = Len(placed) + 1
      /\ RoomsApart' /\ HasCeiling' /\ HasFloor'
  BY <1>3, <1>4, <1>5, <1>6, AppendApart DEF IInv
<1>8. pc = "critical" /\ pc' = pc /\ graph' = graph /\ tries' = tries /\ Len(placed) < graph.critical
  BY DEF PlaceCritical, Room
<1>9. TypeOK'
  BY <1>1, <1>2, <1>7, <1>8 DEF TypeOK, IInv
<1>10. PathLeftOfCursor'
  <2>1. \A i \in DOMAIN placed' : placed'[i] = box \/ (i \in DOMAIN placed /\ placed'[i] = placed[i])
    BY <1>4, <1>6
  <2>2. Corridor \in Nat /\ box.right \in Int /\ \A i \in DOMAIN placed : placed[i].right \in Int
    BY <1>2, <1>3, <1>4 DEF Boxes
  <2>3. cursor' = cursor + w + Corridor + 6
    BY <1>1
  <2>4. \A i \in DOMAIN placed : placed[i].right < cursor'
    BY <1>2, <1>4, <2>2, <2>3
  <2>5. box.right < cursor'
    BY <1>2, <1>3, <2>3
  <2> QED BY <2>1, <2>4, <2>5 DEF PathLeftOfCursor
<1>11. Housed'
  BY <1>4, <1>7, <1>8 DEF Housed, IInv, TypeOK
<1>12. Blank'
  BY <1>4, <1>7, <1>8 DEF Blank, IInv, TypeOK
<1> QED BY <1>7, <1>9, <1>10, <1>11, <1>12 DEF IInv

LEMMA StartBranchesInv == ASSUME IInv, StartBranches PROVE IInv'
<1>1. /\ pc = "critical" /\ pc' = "branch" /\ Len(placed) = graph.critical
      /\ UNCHANGED <<graph, placed, cursor, candidate, tries>>
  BY DEF StartBranches, Room
<1>2. TypeOK'
  BY <1>1 DEF IInv, TypeOK, Blank
<1>3. Housed'
  BY <1>1 DEF IInv, Housed, BranchesOf
<1> QED BY <1>1, <1>2, <1>3 DEF IInv, PathLeftOfCursor, HasCeiling, HasFloor, Blank, RoomsApart

LEMMA DrawBranchRoomInv == ASSUME IInv, DrawBranchRoom PROVE IInv'
<1>1. PICK w \in Width, h \in Height : candidate' = FirstTry(w, h)
  BY DEF DrawBranchRoom
<1>2. /\ pc = "branch" /\ pc' = "nudge" /\ tries' = 0 /\ BranchesOf(Len(placed)) # {}
      /\ UNCHANGED <<graph, placed, cursor>>
  BY DEF DrawBranchRoom, Room
<1> DEFINE b == BranchOf(Room)
           parent == BoundsOf(graph.branches[b].parent)
<1>3. b \in DOMAIN graph.branches
  BY <1>2 DEF BranchOf, BranchesOf, Room
<1>4. graph.branches[b].parent \in 0 .. graph.critical - 1 /\ graph.critical \in Nat
      /\ graph.critical <= Len(placed) /\ placed \in Seq(Boxes) /\ Len(placed) \in Nat
  BY <1>2, <1>3 DEF IInv, TypeOK
<1>5. parent \in Boxes
  BY <1>4 DEF BoundsOf
<1>6. w \in Nat /\ h \in Nat /\ MaxHeight \in Nat /\ Corridor \in Nat /\ RowSpacing \in Int
  BY ConfigAssumption DEF RowSpacing
<1>7. CenterX(parent) \in Int /\ cursor \in Int
  BY <1>5, CenterType DEF IInv, TypeOK
<1> DEFINE x == IF graph.branches[b].first = Room THEN CenterX(parent) ELSE cursor
<1>8. x \in Int /\ parent.high + RowSpacing \in Int /\ parent.low - RowSpacing - h \in Int
  BY <1>5, <1>6, <1>7 DEF Boxes
<1>9. candidate' = IF Direction(b) > 0
                   THEN Box(x, parent.high + RowSpacing, w, h)
                   ELSE Box(x, parent.low - RowSpacing - h, w, h)
  BY <1>1 DEF FirstTry
<1> HIDE DEF b, parent, x
<1>10. candidate' \in Boxes
  BY <1>8, <1>9, BoxType
<1>11. TypeOK'
  BY <1>2, <1>10 DEF IInv, TypeOK
<1>12. Housed'
  BY <1>2 DEF IInv, Housed, BranchesOf
<1> QED BY <1>2, <1>11, <1>12 DEF IInv, PathLeftOfCursor, HasCeiling, HasFloor, Blank, RoomsApart

LEMMA NudgeInv == ASSUME IInv, Nudge PROVE IInv'
<1>1. /\ pc = "nudge" /\ pc' = pc /\ tries' = tries + 1
      /\ candidate' = Raised(candidate, Direction(BranchOf(Room)) * RowSpacing)
      /\ UNCHANGED <<graph, placed, cursor>>
  BY DEF Nudge
<1>2. RowSpacing \in Int
  BY ConfigAssumption DEF RowSpacing
<1>3. Direction(BranchOf(Room)) \in {1, -1}
  BY DEF Direction
<1>4. Direction(BranchOf(Room)) * RowSpacing \in Int
  BY <1>2, <1>3
<1>5. candidate' \in Boxes
  BY <1>1, <1>4, RaisedType DEF IInv, TypeOK
<1>6. TypeOK'
  BY <1>1, <1>5 DEF IInv, TypeOK
<1>7. Housed'
  BY <1>1 DEF IInv, Housed, BranchesOf
<1> QED BY <1>1, <1>6, <1>7 DEF IInv, PathLeftOfCursor, HasCeiling, HasFloor, Blank, RoomsApart

LEMMA SettleInv == ASSUME IInv, Settle PROVE IInv'
<1> DEFINE box == IF OverlapsAny(candidate) THEN Beyond(candidate) ELSE candidate
<1>1. /\ pc = "nudge" /\ pc' = "branch" /\ placed' = Append(placed, box)
      /\ cursor' = box.right + Corridor + 4
      /\ UNCHANGED <<graph, candidate, tries>>
  BY DEF Settle
<1>2. /\ candidate \in Boxes /\ placed \in Seq(Boxes)
      /\ 0 < graph.critical /\ graph.critical \in Nat /\ graph.critical <= Len(placed)
      /\ \A i \in DOMAIN placed : placed[i] \in Boxes
  BY <1>1 DEF IInv, TypeOK
<1>3. placed # << >>
  BY <1>2
<1>4. box \in Boxes /\ \A i \in DOMAIN placed : Apart(box, placed[i])
  <2>1. CASE OverlapsAny(candidate)
    BY <1>2, <1>3, <2>1, BeyondIsApart DEF IInv
  <2>2. CASE ~OverlapsAny(candidate)
    BY <1>2, <2>2, ClearIsApart DEF OverlapsAny
  <2> QED BY <2>1, <2>2
<1> HIDE DEF box
<1>5. /\ placed' \in Seq(Boxes) /\ Len(placed') = Len(placed) + 1
      /\ RoomsApart' /\ HasCeiling' /\ HasFloor'
  BY <1>1, <1>2, <1>4, AppendApart DEF IInv
<1>6. cursor' \in Int
  BY <1>1, <1>4, ConfigAssumption DEF Boxes
<1>7. Len(placed) \in Nat
  BY <1>2
<1>8. TypeOK'
  BY <1>1, <1>2, <1>5, <1>6, <1>7 DEF IInv, TypeOK
<1>9. Housed'
  <2>1. graph' = graph /\ BranchesOf(Len(placed)) # {}
    BY <1>1 DEF IInv, Housed
  <2>2. \A chamber \in graph.critical .. Len(placed) - 1 : BranchesOf(chamber) # {}
    BY DEF IInv, Housed
  <2>3. \A chamber \in graph.critical .. Len(placed') - 1 : BranchesOf(chamber) # {}
    BY <1>2, <1>5, <1>7, <2>1, <2>2
  <2> QED BY <1>1, <2>1, <2>3 DEF Housed, BranchesOf
<1> QED BY <1>1, <1>5, <1>8, <1>9 DEF IInv, PathLeftOfCursor, Blank

LEMMA OpenDoorsInv == ASSUME IInv, OpenDoors PROVE IInv'
<1>1. /\ pc = "branch" /\ pc' = "done"
      /\ UNCHANGED <<graph, placed, cursor, candidate, tries>>
  BY DEF OpenDoors
<1>2. TypeOK'
  BY <1>1 DEF IInv, TypeOK
<1>3. Housed'
  BY <1>1 DEF IInv, Housed, BranchesOf
<1> QED BY <1>1, <1>2, <1>3 DEF IInv, PathLeftOfCursor, HasCeiling, HasFloor, Blank, RoomsApart

LEMMA StutterInv == ASSUME IInv, UNCHANGED vars PROVE IInv'
BY DEF vars, IInv, TypeOK, PathLeftOfCursor, HasCeiling, HasFloor, Housed, BranchesOf, Blank, RoomsApart

LEMMA NextInv == IInv /\ [Next]_vars => IInv'
BY PlanInv, PlaceCriticalInv, StartBranchesInv, DrawBranchRoomInv, NudgeInv, SettleInv,
   OpenDoorsInv, StutterInv DEF Next

THEOREM Invariant == Spec => []IInv
BY InitInv, NextInv, PTL DEF Spec

(* Every configuration's floors have rooms that keep a tile between them. *)
THEOREM Layout == Spec => []RoomsApart
<1>1. IInv => RoomsApart
  BY DEF IInv
<1> QED BY <1>1, Invariant, PTL

(* The solver's state is well formed. *)
THEOREM TypeCorrect == Spec => []TypeOK
<1>1. IInv => TypeOK
  BY DEF IInv
<1> QED BY <1>1, Invariant, PTL
-----------------------------------------------------------------------------
(* There are no doors before the last step. *)
NoDoorsYet == pc # "done" => doors = {}

Sides == {"east", "west", "north", "south"}

OffCorners(box, facing, at) ==
    LET inX == box.left < at.x /\ at.x < box.right - 1
        inY == box.low < at.y /\ at.y < box.high - 1
    IN  CASE facing = "east" -> at.x = box.right - 1 /\ inY
          [] facing = "west" -> at.x = box.left /\ inY
          [] facing = "north" -> inX /\ at.y = box.high - 1
          [] facing = "south" -> inX /\ at.y = box.low

(* The middle of an edge at least four long is no end of it. *)
LEMMA Middle ==
    ASSUME NEW a \in Int, NEW b \in Int, a + 4 <= b
    PROVE  a < Half(a + b) /\ Half(a + b) < b - 1
<1>1. a + b \in Int
  OBVIOUS
<1>2. Half(a + b) \in Int /\ 2 * Half(a + b) <= a + b + 1 /\ a + b - 1 <= 2 * Half(a + b)
  <2>1. CASE a + b < 0
    <3>1. Half(a + b) = -((-(a + b)) \div 2)
      BY <2>1 DEF Half
    <3> QED BY <1>1, <2>1, <3>1
  <2>2. CASE ~(a + b < 0)
    <3>1. Half(a + b) = (a + b) \div 2
      BY <2>2 DEF Half
    <3> QED BY <1>1, <2>2, <3>1
  <2> QED BY <2>1, <2>2
<1> QED BY <1>2

LEMMA DoorOffCorners ==
    ASSUME NEW a \in Boxes, NEW facing \in Sides
    PROVE  OffCorners(a, facing, DoorAt(a, facing))
<1>1. /\ a.left \in Int /\ a.right \in Int /\ a.low \in Int /\ a.high \in Int
      /\ a.left + 4 <= a.right /\ a.low + 4 <= a.high
  BY DEF Boxes
<1>2. /\ a.left < CenterX(a) /\ CenterX(a) < a.right - 1
      /\ a.low < CenterY(a) /\ CenterY(a) < a.high - 1
  BY <1>1, Middle DEF CenterX, CenterY
<1> QED BY <1>2 DEF Sides, DoorAt, OffCorners

LEMMA SidesOpposite ==
    ASSUME NEW a, NEW b
    PROVE  Side(a, b) \in Sides /\ Opposite(Side(a, b)) \in Sides
BY DEF Side, Opposite, Sides

(* A room hangs on one placed before it. *)
LEMMA ParentPlaced ==
    ASSUME IInv, pc = "branch", NEW chamber \in 1 .. Len(placed) - 1
    PROVE  ParentOf(chamber) \in 0 .. Len(placed) - 1
<1>1. /\ graph.critical \in Nat /\ graph.critical <= Len(placed) /\ Len(placed) \in Nat
      /\ \A b \in DOMAIN graph.branches : graph.branches[b].parent \in 0 .. graph.critical - 1
  BY DEF IInv, TypeOK
<1>2. CASE chamber >= graph.critical /\ graph.branches[BranchOf(chamber)].first = chamber
  <2>1. BranchesOf(chamber) # {}
    BY <1>1, <1>2 DEF IInv, Housed
  <2>2. BranchOf(chamber) \in DOMAIN graph.branches
    BY <2>1 DEF BranchOf, BranchesOf
  <2>3. graph.branches[BranchOf(chamber)].parent \in 0 .. graph.critical - 1
    BY <1>1, <2>2
  <2> QED BY <1>1, <1>2, <2>3 DEF ParentOf
<1>3. CASE ~(chamber >= graph.critical /\ graph.branches[BranchOf(chamber)].first = chamber)
  BY <1>1, <1>3 DEF ParentOf
<1> QED BY <1>2, <1>3

LEMMA OpenDoorsOffCorners == ASSUME IInv, OpenDoors PROVE DoorsOffCorners'
<1>1. pc = "branch" /\ placed' = placed
      /\ doors' = UNION {DoorsOf(edge) : edge \in 1 .. Len(placed) - 1}
  BY DEF OpenDoors
<1>2. placed \in Seq(Boxes) /\ Len(placed) \in Nat
  BY DEF IInv, TypeOK
<1>3. \A chamber \in 0 .. Len(placed) - 1 : BoundsOf(chamber) \in Boxes
  BY <1>2 DEF BoundsOf
<1> SUFFICES ASSUME NEW d \in doors'
             PROVE  OffCorners(BoundsOf(d.room), d.facing, d.at)
  BY <1>1 DEF DoorsOffCorners, OffCorners, BoundsOf
<1>4. PICK edge \in 1 .. Len(placed) - 1 : d \in DoorsOf(edge)
  BY <1>1
<1> DEFINE from == ParentOf(edge)
           facing == Side(BoundsOf(from), BoundsOf(edge))
<1>5. BoundsOf(from) \in Boxes /\ BoundsOf(edge) \in Boxes
  BY <1>1, <1>2, <1>3, ParentPlaced
<1>6. facing \in Sides /\ Opposite(facing) \in Sides
  BY SidesOpposite
<1>7. \/ d = [room |-> from, edge |-> edge, facing |-> facing,
              at |-> DoorAt(BoundsOf(from), facing)]
      \/ d = [room |-> edge, edge |-> edge, facing |-> Opposite(facing),
              at |-> DoorAt(BoundsOf(edge), Opposite(facing))]
  BY <1>4 DEF DoorsOf
<1> HIDE DEF from, facing
<1> QED BY <1>5, <1>6, <1>7, DoorOffCorners

LEMMA NextDoors ==
    ASSUME IInv, NoDoorsYet, DoorsOffCorners, [Next]_vars
    PROVE  NoDoorsYet' /\ DoorsOffCorners'
<1>1. CASE OpenDoors
  <2>1. NoDoorsYet'
    BY <1>1 DEF OpenDoors, NoDoorsYet
  <2> QED BY <1>1, <2>1, OpenDoorsOffCorners
<1>2. CASE Plan \/ PlaceCritical \/ StartBranches \/ DrawBranchRoom \/ Nudge \/ Settle
  <2>1. pc # "done" /\ doors' = doors
    BY <1>2 DEF Plan, PlaceCritical, StartBranches, DrawBranchRoom, Nudge, Settle
  <2>2. doors' = {}
    BY <2>1 DEF NoDoorsYet
  <2> QED BY <2>2 DEF NoDoorsYet, DoorsOffCorners
<1>3. CASE UNCHANGED vars
  BY <1>3 DEF vars, NoDoorsYet, DoorsOffCorners, BoundsOf
<1> QED BY <1>1, <1>2, <1>3 DEF Next

(* Every door of every floor is off its room's corners. *)
THEOREM Doors == Spec => []DoorsOffCorners
<1>1. Init => NoDoorsYet /\ DoorsOffCorners
  BY DEF Init, NoDoorsYet, DoorsOffCorners
<1>2. IInv /\ (NoDoorsYet /\ DoorsOffCorners) /\ [Next]_vars => (NoDoorsYet /\ DoorsOffCorners)'
  BY NextDoors
<1> QED BY <1>1, <1>2, Invariant, PTL DEF Spec
-----------------------------------------------------------------------------
(* A nonempty set of numbers has a least one. *)
LEMMA Least ==
    ASSUME NEW T \in SUBSET Nat, T # {}
    PROVE  \E x \in T : \A y \in T : x <= y
<1> DEFINE R == {ss \in Nat \X Nat : ss[1] < ss[2]}
<1>1. OpToRel(<, Nat) = R
    BY Zenon DEF OpToRel
<1>2. IsWellFoundedOn(R, Nat)
    BY <1>1, NatLessThanWellFounded, Zenon
<1>3. \E x \in T : \A y \in T : ~ (<<y, x>> \in R)
    <2> HIDE DEF R
    <2> QED BY <1>2, WFMin, Zenon
<1>4. \A x \in Nat, y \in Nat : <<y, x>> \in R <=> y < x
    OBVIOUS
<1>5. QED
    <2> HIDE DEF R
    <2>1. PICK x \in T : \A y \in T : <<y, x>> \notin R
        BY <1>3
    <2>2. \A y \in T : ~(y < x)
        BY <1>4, <2>1
    <2>3. QED
        BY <2>2

(* A set of numbers with 1 in it, and with the successor of each, has all  *)
(* of them up to n.                                                        *)
LEMMA UpTo ==
    ASSUME NEW n \in Nat, NEW S, 1 \in S, \A b \in 1 .. n - 1 : b \in S => b + 1 \in S
    PROVE  1 .. n \subseteq S
<1> DEFINE T == {b \in 1 .. n : b \notin S}
<1> SUFFICES ASSUME T # {} PROVE FALSE
  OBVIOUS
<1>1. T \in SUBSET Nat
  OBVIOUS
<1>2. PICK x \in T : \A y \in T : x <= y
  BY <1>1, Least
<1>3. x \in 1 .. n /\ x # 1
  OBVIOUS
<1>4. x - 1 \in 1 .. n - 1 /\ ~(x <= x - 1)
  BY <1>3
<1>5. x - 1 \in S
  BY <1>2, <1>4
<1>6. x - 1 + 1 \in S
  BY <1>4, <1>5
<1> QED BY <1>3, <1>6

(* The equation that defines the first rooms of the branches. *)
Placing(f, n, rooms, critical, many) ==
    f = [b \in 1 .. n |->
            IF b = 1 THEN critical
            ELSE f[b - 1] + Share(rooms - f[b - 1], many - b + 2, many)]

(* It has a solution for any number of branches. *)
LEMMA PlacingExists ==
    ASSUME NEW rooms, NEW critical, NEW many \in Nat
    PROVE  \E f : Placing(f, many + 1, rooms, critical, many)
<1> DEFINE S == {n \in 1 .. many + 1 : \E f : Placing(f, n, rooms, critical, many)}
<1>1. 1 \in S
  <2> DEFINE f == [b \in 1 .. 1 |-> critical]
  <2>1. \A b \in 1 .. 1 : b = 1
    OBVIOUS
  <2>2. Placing(f, 1, rooms, critical, many)
    BY <2>1 DEF Placing
  <2> QED BY <2>2
<1>2. ASSUME NEW n \in 1 .. many, n \in S PROVE n + 1 \in S
  <2>1. PICK f : Placing(f, n, rooms, critical, many)
    BY <1>2
  <2> DEFINE g == [b \in 1 .. n + 1 |->
                      IF b = n + 1 THEN f[n] + Share(rooms - f[n], many - n + 1, many) ELSE f[b]]
  <2>2. n \in Nat /\ n >= 1 /\ n + 1 \in 1 .. many + 1 /\ n + 1 # 1 /\ n + 1 - 1 = n
        /\ many - (n + 1) + 2 = many - n + 1 /\ n # n + 1
    OBVIOUS
  <2>3. \A b \in 1 .. n + 1 :
           g[b] = IF b = 1 THEN critical
                  ELSE g[b - 1] + Share(rooms - g[b - 1], many - b + 2, many)
    <3> SUFFICES ASSUME NEW b \in 1 .. n + 1
                 PROVE  g[b] = IF b = 1 THEN critical
                               ELSE g[b - 1] + Share(rooms - g[b - 1], many - b + 2, many)
      OBVIOUS
    <3>1. CASE b = n + 1
      <4>1. n \in 1 .. n + 1 /\ g[n] = f[n] /\ g[n + 1] = f[n] + Share(rooms - f[n], many - n + 1, many)
        BY <2>2
      <4> HIDE DEF g
      <4> QED BY <3>1, <4>1, <2>2
    <3>2. CASE b = 1
      <4>1. 1 \in 1 .. n /\ 1 # n + 1 /\ 1 \in 1 .. n + 1
        BY <2>2
      <4>2. f[1] = critical
        BY <2>1, <4>1 DEF Placing
      <4>3. g[1] = f[1]
        BY <4>1
      <4> HIDE DEF g
      <4> QED BY <3>2, <4>2, <4>3
    <3>3. CASE b # n + 1 /\ b # 1
      <4>1. b \in 1 .. n /\ b - 1 \in 1 .. n + 1 /\ b - 1 # n + 1
        BY <2>2, <3>3
      <4>2. f[b] = f[b - 1] + Share(rooms - f[b - 1], many - b + 2, many)
        BY <2>1, <3>3, <4>1 DEF Placing
      <4>3. g[b] = f[b] /\ g[b - 1] = f[b - 1]
        BY <3>3, <4>1
      <4> HIDE DEF g
      <4> QED BY <3>3, <4>2, <4>3
    <3> QED BY <3>1, <3>2, <3>3
  <2>4. g = [b \in 1 .. n + 1 |-> g[b]]
    OBVIOUS
  <2> HIDE DEF g
  <2>5. Placing(g, n + 1, rooms, critical, many)
    BY <2>3, <2>4 DEF Placing
  <2> QED BY <2>2, <2>5
<1> HIDE DEF S
<1>3. 1 .. many + 1 \subseteq S
  <2>1. \A b \in 1 .. (many + 1) - 1 : b \in S => b + 1 \in S
    BY <1>2
  <2> QED BY <1>1, <2>1, UpTo
<1>4. many + 1 \in S
  BY <1>3
<1> QED BY <1>4 DEF S

LEMMA FirstRoomsEquation ==
    ASSUME NEW rooms, NEW critical, NEW many \in Nat
    PROVE  Placing(FirstRooms(rooms, critical, many), many + 1, rooms, critical, many)
<1>1. FirstRooms(rooms, critical, many) = CHOOSE f : Placing(f, many + 1, rooms, critical, many)
  BY DEF FirstRooms, Placing
<1>2. \E f : Placing(f, many + 1, rooms, critical, many)
  BY PlacingExists
<1> HIDE DEF Placing
<1> QED BY <1>1, <1>2

(* With at least as many rooms left as branches wait, a branch's share     *)
(* leaves at least one for each of the others, and the last takes all.     *)
LEMMA ShareLeavesEnough ==
    ASSUME NEW left \in Nat, NEW unserved \in Nat, unserved >= 1, left >= unserved, NEW many
    PROVE  /\ Share(left, unserved, many) \in Nat
           /\ Share(left, unserved, many) >= 1
           /\ left - Share(left, unserved, many) >= unserved - 1
           /\ unserved = 1 => Share(left, unserved, many) = left
<1> DEFINE s == left \div unserved
           r == left % unserved
<1>1. s \in Nat /\ r \in 0 .. unserved - 1 /\ left = unserved * s + r
  OBVIOUS
<1> HIDE DEF s, r
<1>2. s >= 1
  <2> SUFFICES ASSUME s = 0 PROVE FALSE
    BY <1>1
  <2>1. unserved * s = 0
    BY <1>1
  <2> QED BY <1>1, <2>1
<1>3. Share(left, unserved, many) = s
  BY <1>1, <1>2 DEF Share, Larger, s
<1>4. (unserved - 1) * (s - 1) >= 0
  BY <1>1, <1>2
<1>5. (unserved - 1) * (s - 1) = unserved * s - unserved - s + 1
  BY <1>1
<1>6. unserved * s \in Nat
  BY <1>1
<1>7. left - s >= unserved - 1
  BY <1>1, <1>4, <1>5, <1>6
<1>8. unserved = 1 => s = left
  BY <1>1
<1> QED BY <1>1, <1>2, <1>3, <1>7, <1>8

(* The branches' first rooms increase from the end of the path to the      *)
(* number of rooms.                                                        *)
LEMMA FirstRoomsIncrease ==
    ASSUME NEW rooms \in Nat, NEW critical \in Nat, NEW many \in Nat, many <= rooms - critical,
           many = 0 => rooms = critical,
           NEW f, Placing(f, many + 1, rooms, critical, many)
    PROVE  /\ f[1] = critical /\ f[many + 1] = rooms
           /\ \A b \in 1 .. many + 1 : f[b] \in critical .. rooms
           /\ \A b \in 1 .. many : f[b] < f[b + 1]
<1> DEFINE S == {b \in 1 .. many + 1 : /\ f[b] \in critical .. rooms
                                       /\ rooms - f[b] >= many - b + 1}
<1>1. f[1] = critical
  BY DEF Placing
<1>2. 1 \in S
  BY <1>1
<1>3. ASSUME NEW b \in 1 .. many, b \in S
      PROVE  b + 1 \in S /\ f[b] < f[b + 1] /\ (b = many => f[b + 1] = rooms)
  <2> DEFINE left == rooms - f[b]
             unserved == many - b + 1
             share == Share(left, unserved, many)
  <2>1. f[b] \in critical .. rooms /\ left >= unserved
    BY <1>3
  <2>2. left \in Nat /\ unserved \in Nat /\ unserved >= 1
    BY <2>1
  <2>3. b + 1 \in 1 .. many + 1 /\ b + 1 # 1 /\ b + 1 - 1 = b /\ many - (b + 1) + 2 = unserved
    OBVIOUS
  <2>4. f[b + 1] = f[b] + share
    BY <2>3 DEF Placing
  <2>5. share \in Nat /\ share >= 1 /\ left - share >= unserved - 1 /\ (unserved = 1 => share = left)
    BY <2>1, <2>2, ShareLeavesEnough
  <2> HIDE DEF share
  <2> QED BY <2>1, <2>2, <2>3, <2>4, <2>5
<1>4. 1 .. many + 1 \subseteq S
  <2> HIDE DEF S
  <2>1. \A b \in 1 .. (many + 1) - 1 : b \in S => b + 1 \in S
    BY <1>3
  <2> QED BY <1>2, <2>1, UpTo
<1>5. \A b \in 1 .. many : b \in S
  BY <1>4
<1>6. \A b \in 1 .. many : f[b] < f[b + 1] /\ (b = many => f[b + 1] = rooms)
  BY <1>3, <1>5
<1>7. f[many + 1] = rooms
  <2>1. CASE many = 0
    BY <1>1, <2>1
  <2>2. CASE many # 0
    BY <1>6, <2>2
  <2> QED BY <2>1, <2>2
<1>8. \A b \in 1 .. many + 1 : f[b] \in critical .. rooms
  BY <1>4
<1> QED BY <1>1, <1>6, <1>7, <1>8

(* From room to room a sequence that increases at every step increases. *)
LEMMA Increasing ==
    ASSUME NEW many \in Nat, NEW f, \A b \in 1 .. many + 1 : f[b] \in Nat,
           \A b \in 1 .. many : f[b] < f[b + 1], NEW a \in 1 .. many + 1
    PROVE  \A c \in 1 .. many + 1 : a <= c => f[a] <= f[c]
<1> DEFINE S == {c \in 1 .. many + 1 : a <= c => f[a] <= f[c]}
<1>1. 1 \in S
  OBVIOUS
<1>2. ASSUME NEW b \in 1 .. many, b \in S PROVE b + 1 \in S
  <2>1. b + 1 \in 1 .. many + 1 /\ b \in 1 .. many + 1 /\ f[b] < f[b + 1]
    OBVIOUS
  <2>2. f[a] \in Nat /\ f[b] \in Nat /\ f[b + 1] \in Nat
    BY <2>1
  <2>3. CASE a <= b
    <3>1. f[a] <= f[b]
      BY <1>2, <2>3
    <3> QED BY <2>1, <2>2, <3>1
  <2>4. CASE ~(a <= b)
    BY <2>1, <2>2, <2>4
  <2> QED BY <2>3, <2>4
<1> HIDE DEF S
<1>3. 1 .. many + 1 \subseteq S
  <2>1. \A b \in 1 .. (many + 1) - 1 : b \in S => b + 1 \in S
    BY <1>2
  <2> QED BY <1>1, <2>1, UpTo
<1> QED BY <1>3 DEF S

(* Every number between the ends lies in one of its steps. *)
LEMMA InSomeStep ==
    ASSUME NEW many \in Nat, NEW f, \A b \in 1 .. many + 1 : f[b] \in Nat,
           NEW chamber \in Nat, f[1] <= chamber, chamber < f[many + 1]
    PROVE  \E b \in 1 .. many : f[b] <= chamber /\ chamber < f[b + 1]
<1> DEFINE S == {b \in 1 .. many + 1 : f[b] <= chamber}
<1> SUFFICES ASSUME \A b \in 1 .. many : f[b] <= chamber => f[b + 1] <= chamber
             PROVE  FALSE
  OBVIOUS
<1>1. 1 \in S
  OBVIOUS
<1>2. \A b \in 1 .. (many + 1) - 1 : b \in S => b + 1 \in S
  OBVIOUS
<1> HIDE DEF S
<1>3. 1 .. many + 1 \subseteq S
  BY <1>1, <1>2, UpTo
<1>4. many + 1 \in S
  BY <1>3
<1> QED BY <1>4 DEF S

-----------------------------------------------------------------------------
(* The plan's branches follow one another from the end of the path to the  *)
(* last room, and none is empty.                                           *)
Planned ==
    /\ graph.rooms \in Nat
    /\ graph.critical <= graph.rooms
    /\ \A b \in DOMAIN graph.branches :
          /\ graph.branches[b].first \in graph.critical .. graph.branches[b].last
          /\ graph.branches[b].last \in 0 .. graph.rooms - 1
    /\ \A chamber \in graph.critical .. graph.rooms - 1 : BranchesOf(chamber) # {}
    /\ \A chamber \in Nat : \A b, c \in BranchesOf(chamber) : b = c

LEMMA PlanPlanned == ASSUME Plan PROVE Planned'
<1>1. PICK rooms \in RoomCount, length \in CriticalLength, requested \in BranchCount :
         graph' = PlanOf(rooms, Smaller(Larger(length, 2), rooms), requested)
  BY DEF Plan
<1> DEFINE critical == Smaller(Larger(length, 2), rooms)
           many == Branches(rooms, critical, requested)
           f == FirstRooms(rooms, critical, many)
<1>2. /\ rooms \in Nat /\ rooms >= 2 /\ requested \in Nat
      /\ critical \in Nat /\ critical <= rooms
  BY ConfigAssumption DEF Smaller, Larger
<1>3. many \in Nat /\ many <= rooms - critical /\ (many = 0 => rooms = critical)
  BY <1>2 DEF Branches, Smaller, Larger
<1>4. /\ graph'.rooms = rooms /\ graph'.critical = critical
      /\ DOMAIN graph'.branches = 1 .. many
      /\ \A b \in 1 .. many : /\ graph'.branches[b].first = f[b]
                              /\ graph'.branches[b].last = f[b + 1] - 1
  BY <1>1 DEF PlanOf
<1> HIDE DEF critical, many
<1>5. /\ f[1] = critical /\ f[many + 1] = rooms
      /\ \A b \in 1 .. many + 1 : f[b] \in critical .. rooms
      /\ \A b \in 1 .. many : f[b] < f[b + 1]
  <2>1. Placing(f, many + 1, rooms, critical, many)
    BY <1>3, FirstRoomsEquation
  <2> HIDE DEF f
  <2> QED BY <1>2, <1>3, <2>1, FirstRoomsIncrease
<1> HIDE DEF f
<1>6. \A b \in 1 .. many + 1 : f[b] \in Nat
  BY <1>2, <1>5
<1>7. \A b \in 1 .. many : b \in 1 .. many + 1 /\ b + 1 \in 1 .. many + 1
  BY <1>3
<1>8. ASSUME NEW b \in DOMAIN graph'.branches
      PROVE  /\ graph'.branches[b].first \in graph'.critical .. graph'.branches[b].last
             /\ graph'.branches[b].last \in 0 .. graph'.rooms - 1
  <2>1. b \in 1 .. many /\ f[b] \in critical .. rooms /\ f[b + 1] \in critical .. rooms
        /\ f[b] < f[b + 1]
    BY <1>4, <1>5, <1>7, <1>8
  <2>2. graph'.branches[b].first = f[b] /\ graph'.branches[b].last = f[b + 1] - 1
    BY <1>4, <2>1
  <2>3. f[b] \in critical .. f[b + 1] - 1 /\ f[b + 1] - 1 \in 0 .. rooms - 1
    BY <1>2, <2>1
  <2> QED BY <1>4, <2>2, <2>3
<1>9. \A chamber \in Nat, b \in 1 .. many :
         b \in BranchesOf(chamber)' <=> f[b] <= chamber /\ chamber < f[b + 1]
  <2> SUFFICES ASSUME NEW chamber \in Nat, NEW b \in 1 .. many
               PROVE  b \in BranchesOf(chamber)' <=> f[b] <= chamber /\ chamber < f[b + 1]
    OBVIOUS
  <2>1. b \in BranchesOf(chamber)' <=> f[b] <= chamber /\ chamber <= f[b + 1] - 1
    BY <1>4 DEF BranchesOf
  <2>2. f[b + 1] \in Nat
    BY <1>6, <1>7
  <2> QED BY <2>1, <2>2
<1>10. ASSUME NEW chamber \in graph'.critical .. graph'.rooms - 1
       PROVE  BranchesOf(chamber)' # {}
  <2>1. chamber \in Nat /\ f[1] <= chamber /\ chamber < f[many + 1]
    BY <1>2, <1>4, <1>5, <1>10
  <2>2. PICK b \in 1 .. many : f[b] <= chamber /\ chamber < f[b + 1]
    BY <1>3, <1>6, <2>1, InSomeStep
  <2> QED BY <1>9, <2>1, <2>2
<1>11. ASSUME NEW chamber \in Nat, NEW b \in BranchesOf(chamber)', NEW c \in BranchesOf(chamber)'
       PROVE  ~(b < c)
  <2>1. b \in 1 .. many /\ c \in 1 .. many
    BY <1>4 DEF BranchesOf
  <2>2. chamber < f[b + 1] /\ f[c] <= chamber
    BY <1>9, <1>11, <2>1
  <2> SUFFICES ASSUME b < c PROVE FALSE
    OBVIOUS
  <2>3. b + 1 <= c /\ b + 1 \in 1 .. many + 1 /\ c \in 1 .. many + 1
    BY <1>3, <2>1
  <2>4. f[b + 1] <= f[c]
    BY <1>3, <1>5, <1>6, <2>3, Increasing
  <2> QED BY <1>6, <2>2, <2>3, <2>4
<1>12. ASSUME NEW chamber \in Nat, NEW b \in BranchesOf(chamber)', NEW c \in BranchesOf(chamber)'
       PROVE  b = c
  <2>1. b \in 1 .. many /\ c \in 1 .. many
    BY <1>4 DEF BranchesOf
  <2>2. ~(b < c) /\ ~(c < b)
    BY <1>11, <1>12
  <2> QED BY <1>3, <2>1, <2>2
<1> QED BY <1>2, <1>4, <1>8, <1>10, <1>12 DEF Planned

(* No more rooms are placed than planned, and all of them when the doors   *)
(* are opened.                                                             *)
AsPlanned ==
    /\ pc # "plan" => Planned /\ Len(placed) <= graph.rooms
    /\ pc = "done" => Len(placed) = graph.rooms

LEMMA SameGraph ==
    ASSUME Planned, graph' = graph PROVE Planned'
BY DEF Planned, BranchesOf

LEMMA NextAsPlanned == ASSUME IInv, AsPlanned, [Next]_vars PROVE AsPlanned'
<1>1. CASE Plan
  <2>1. pc' = "critical" /\ placed' = << >>
    BY <1>1 DEF Plan, IInv, Blank
  <2>2. Len(placed') = 0
    BY <2>1
  <2>3. Planned'
    BY <1>1, PlanPlanned
  <2> QED BY <2>1, <2>2, <2>3 DEF AsPlanned, Planned
<1>2. CASE PlaceCritical
  <2>1. /\ pc = "critical" /\ pc' = pc /\ graph' = graph /\ Len(placed) < graph.critical
        /\ \E box : placed' = Append(placed, box)
    BY <1>2 DEF PlaceCritical, Room
  <2>2. Planned /\ graph.critical <= graph.rooms /\ graph.rooms \in Nat /\ graph.critical \in Nat
    BY <2>1 DEF AsPlanned, Planned, IInv, TypeOK
  <2>3. Len(placed') = Len(placed) + 1 /\ Len(placed) \in Nat
    BY <2>1 DEF IInv, TypeOK
  <2> QED BY <2>1, <2>2, <2>3, SameGraph DEF AsPlanned
<1>3. CASE Settle
  <2>1. /\ pc = "nudge" /\ pc' = "branch" /\ graph' = graph
        /\ \E box : placed' = Append(placed, box)
    BY <1>3 DEF Settle
  <2>2. Planned /\ graph.rooms \in Nat /\ graph.critical \in Nat /\ placed \in Seq(Boxes)
    BY <2>1 DEF AsPlanned, Planned, IInv, TypeOK
  <2>3. PICK b \in DOMAIN graph.branches : Len(placed) <= graph.branches[b].last
    BY <2>1 DEF IInv, Housed, BranchesOf
  <2>4. graph.branches[b].last \in 0 .. graph.rooms - 1
    BY <2>2, <2>3 DEF Planned
  <2>5. Len(placed') = Len(placed) + 1 /\ Len(placed) \in Nat
    BY <2>1, <2>2
  <2> QED BY <2>1, <2>2, <2>3, <2>4, <2>5, SameGraph DEF AsPlanned
<1>4. CASE OpenDoors
  <2>1. /\ pc = "branch" /\ pc' = "done" /\ graph' = graph /\ placed' = placed
        /\ BranchesOf(Len(placed)) = {}
    BY <1>4 DEF OpenDoors, Room
  <2>2. /\ Planned /\ Len(placed) <= graph.rooms /\ graph.rooms \in Nat /\ graph.critical \in Nat
        /\ graph.critical <= Len(placed) /\ Len(placed) \in Nat
    BY <2>1 DEF AsPlanned, Planned, IInv, TypeOK
  <2>3. ~(Len(placed) \in graph.critical .. graph.rooms - 1)
    BY <2>1, <2>2 DEF Planned
  <2>4. Len(placed) = graph.rooms
    BY <2>2, <2>3
  <2> QED BY <2>1, <2>2, <2>4, SameGraph DEF AsPlanned
<1>5. CASE StartBranches \/ DrawBranchRoom \/ Nudge \/ UNCHANGED vars
  <2>1. /\ graph' = graph /\ placed' = placed /\ (pc = "plan" => pc' = "plan")
        /\ (pc' = "done" => pc = "done")
    BY <1>5 DEF StartBranches, DrawBranchRoom, Nudge, vars
  <2> QED BY <2>1, SameGraph DEF AsPlanned
<1> QED BY <1>1, <1>2, <1>3, <1>4, <1>5 DEF Next

LEMMA TheBranchOf ==
    ASSUME Planned, NEW chamber \in Nat, NEW b \in BranchesOf(chamber)
    PROVE  BranchOf(chamber) = b
BY DEF Planned, BranchOf

(* The plan is a tree, and the rooms are all there.                        *)
LEMMA EveryRoomPlacedHolds == ASSUME IInv, AsPlanned PROVE EveryRoomPlaced
<1> SUFFICES ASSUME pc = "done" PROVE EveryRoomPlaced
  BY DEF EveryRoomPlaced
<1>1. /\ Planned /\ Len(placed) = graph.rooms /\ graph.rooms \in Nat
      /\ graph.critical \in Nat /\ graph.critical > 0 /\ graph.critical <= graph.rooms
      /\ \A b \in DOMAIN graph.branches : graph.branches[b].parent \in 0 .. graph.critical - 1
  BY DEF AsPlanned, Planned, IInv, TypeOK
<1>2. ASSUME NEW b \in DOMAIN graph.branches
      PROVE  graph.branches[b].first <= graph.branches[b].last
  <2>1. /\ graph.branches[b].first \in graph.critical .. graph.branches[b].last
        /\ graph.branches[b].last \in 0 .. graph.rooms - 1
    BY <1>1 DEF Planned
  <2> QED BY <1>1, <2>1
<1>3. ASSUME NEW chamber \in 1 .. graph.rooms - 1
      PROVE  /\ ParentOf(chamber) \in 0 .. chamber - 1
             /\ DepthOf(chamber) = DepthOf(ParentOf(chamber)) + 1
  <2>1. chamber \in Nat /\ chamber >= 1
    BY <1>1
  <2>2. CASE chamber < graph.critical
    <3>1. ParentOf(chamber) = chamber - 1 /\ DepthOf(chamber) = chamber
      BY <1>1, <2>1, <2>2 DEF ParentOf, DepthOf
    <3>2. DepthOf(chamber - 1) = chamber - 1
      BY <1>1, <2>1, <2>2 DEF DepthOf
    <3> QED BY <2>1, <3>1, <3>2
  <2>3. CASE ~(chamber < graph.critical)
    <3>1. chamber \in graph.critical .. graph.rooms - 1
      BY <1>1, <2>1, <2>3
    <3>2. PICK b \in BranchesOf(chamber) : TRUE
      BY <1>1, <3>1 DEF Planned
    <3>3. BranchOf(chamber) = b
      BY <1>1, <2>1, <3>2, TheBranchOf
    <3> DEFINE first == graph.branches[b].first
               last == graph.branches[b].last
               parent == graph.branches[b].parent
    <3>4. /\ b \in DOMAIN graph.branches /\ parent \in 0 .. graph.critical - 1
          /\ first \in graph.critical .. last /\ last \in 0 .. graph.rooms - 1
          /\ first <= chamber /\ chamber <= last
      BY <1>1, <3>2 DEF BranchesOf, Planned
    <3>5. /\ ParentOf(chamber) = IF first = chamber THEN parent ELSE chamber - 1
          /\ DepthOf(chamber) = parent + (chamber - first) + 1
      BY <1>1, <2>1, <2>3, <3>3 DEF ParentOf, DepthOf
    <3>6. CASE first = chamber
      <4>1. DepthOf(parent) = parent
        BY <1>1, <3>4 DEF DepthOf
      <4> HIDE DEF first, last, parent
      <4>2. parent \in Int /\ chamber \in Int
        BY <1>1, <2>1, <3>4
      <4>3. ASSUME NEW d, NEW p \in Int, NEW c \in Int, d = p + (c - c) + 1
            PROVE  d = p + 1
        BY <4>3
      <4>4. DepthOf(chamber) = parent + (chamber - chamber) + 1
        BY <3>5, <3>6
      <4>5. DepthOf(chamber) = parent + 1
        BY <4>2, <4>3, <4>4
      <4>6. ParentOf(chamber) = parent
        BY <3>5, <3>6
      <4>7. parent \in 0 .. chamber - 1
        BY <1>1, <2>1, <2>3, <3>4
      <4> QED BY <4>1, <4>5, <4>6, <4>7
    <3>7. CASE first # chamber
      <4>1. /\ chamber - 1 \in Nat /\ first <= chamber - 1 /\ chamber - 1 <= last
            /\ ~(chamber - 1 < graph.critical)
        BY <1>1, <2>1, <3>4, <3>7
      <4>2. b \in BranchesOf(chamber - 1)
        BY <3>4, <4>1 DEF BranchesOf
      <4>3. BranchOf(chamber - 1) = b
        BY <1>1, <4>1, <4>2, TheBranchOf
      <4>4. DepthOf(chamber - 1) = parent + ((chamber - 1) - first) + 1
        BY <4>1, <4>3 DEF DepthOf
      <4> HIDE DEF first, last, parent
      <4>5. ParentOf(chamber) = chamber - 1
        BY <3>5, <3>7
      <4>6. parent \in Int /\ first \in Int
        BY <1>1, <3>4
      <4>7. DepthOf(chamber) = DepthOf(chamber - 1) + 1
        BY <2>1, <3>5, <4>4, <4>6
      <4> QED BY <2>1, <4>5, <4>7
    <3> QED BY <3>6, <3>7
  <2> QED BY <2>2, <2>3
<1>4. \A chamber \in 1 .. graph.rooms - 1 : \A b, c \in BranchesOf(chamber) : b = c
  BY <1>1 DEF Planned
<1> QED BY <1>1, <1>2, <1>3, <1>4 DEF EveryRoomPlaced

(* Every finished floor has the rooms that were drawn, each in exactly one *)
(* branch or on the path, and is a tree rooted in the start room.          *)
THEOREM EveryRoomPlacedAlways == Spec => []EveryRoomPlaced
<1>1. Init => AsPlanned
  BY DEF Init, AsPlanned
<1>2. IInv /\ AsPlanned /\ [Next]_vars => AsPlanned'
  BY NextAsPlanned
<1>3. IInv /\ AsPlanned => EveryRoomPlaced
  BY EveryRoomPlacedHolds
<1> QED BY <1>1, <1>2, <1>3, Invariant, PTL DEF Spec

-----------------------------------------------------------------------------
(* Terrain repair.  TerrainRepair brings its own name for the operator of  *)
(* FiniteSets.                                                             *)
LEMMA TerrainFiniteSets ==
    \A S : Terrain!Cardinality(S) = Cardinality(S)
BY DEF Terrain!Cardinality, Cardinality, Terrain!IsFiniteSet, IsFiniteSet

(* A set of numbers with 0 in it, and with the successor of each, has all  *)
(* of them up to n.                                                        *)
LEMMA FromZero ==
    ASSUME NEW n \in Nat, NEW S, 0 \in S, \A k \in 0 .. n - 1 : k \in S => k + 1 \in S
    PROVE  0 .. n \subseteq S
<1> DEFINE T == {k \in 0 .. n : k \notin S}
<1> SUFFICES ASSUME T # {} PROVE FALSE
  OBVIOUS
<1>1. T \in SUBSET Nat
  OBVIOUS
<1>2. PICK x \in T : \A y \in T : x <= y
  BY <1>1, Least
<1>3. x \in 0 .. n /\ x # 0
  OBVIOUS
<1>4. x - 1 \in 0 .. n - 1 /\ ~(x <= x - 1)
  BY <1>3
<1>5. x - 1 \in S
  BY <1>2, <1>4
<1>6. x - 1 + 1 \in S
  BY <1>4, <1>5
<1> QED BY <1>3, <1>6

GridSize == Columns * Rows

LEMMA Grid ==
    /\ Columns \in Nat /\ Rows \in Nat /\ Columns >= 4 /\ Rows >= 4
    /\ GridSize \in Nat
    /\ IsFiniteSet(Terrain!Point) /\ Cardinality(Terrain!Point) = GridSize
<1>1. Columns \in Nat /\ Rows \in Nat /\ Columns >= 4 /\ Rows >= 4
  BY AlgorithmsAssumption DEF Terrain!GridAssumption
<1>2. GridSize \in Nat
  BY <1>1 DEF GridSize
<1>3. /\ IsFiniteSet(0 .. Columns - 1) /\ Cardinality(0 .. Columns - 1) = Columns
      /\ IsFiniteSet(0 .. Rows - 1) /\ Cardinality(0 .. Rows - 1) = Rows
  <2>1. 0 \in Int /\ Columns - 1 \in Int /\ Rows - 1 \in Int
        /\ ~(0 > Columns - 1) /\ ~(0 > Rows - 1)
        /\ (Columns - 1) - 0 + 1 = Columns /\ (Rows - 1) - 0 + 1 = Rows
    BY <1>1
  <2> QED BY <2>1, FS_Interval
<1>4. IsFiniteSet(Terrain!Point) /\ Cardinality(Terrain!Point) = GridSize
  <2> DEFINE A == 0 .. Columns - 1
             B == 0 .. Rows - 1
  <2>1. Terrain!Point = A \X B
    BY DEF Terrain!Point
  <2>2. /\ IsFiniteSet(A) /\ IsFiniteSet(B)
        /\ Cardinality(A) = Columns /\ Cardinality(B) = Rows
    BY <1>3
  <2> HIDE DEF A, B
  <2>3. IsFiniteSet(A \X B) /\ Cardinality(A \X B) = Cardinality(A) * Cardinality(B)
    BY <2>2, FS_Product
  <2> QED BY <2>1, <2>2, <2>3 DEF GridSize
<1> QED BY <1>1, <1>2, <1>4

LEMMA NeighborsInPoint == \A p : Terrain!Neighbors(p) \subseteq Terrain!Point
BY DEF Terrain!Neighbors

(* One step of the search: the tiles of S beside those of X.               *)
Wider(X, S) == X \cup (S \cap UNION {Terrain!Neighbors(p) : p \in X})

Closed(X, S) == \A p \in X : Terrain!Neighbors(p) \cap S \subseteq X

(* The equation that defines what is within n steps.                       *)
Searching(f, n, found, S) ==
    f = [k \in 0 .. n |-> IF k = 0 THEN found ELSE Wider(f[k - 1], S)]

LEMMA SearchingExists ==
    ASSUME NEW n \in Nat, NEW found, NEW S
    PROVE  \E f : Searching(f, n, found, S)
<1> DEFINE T == {m \in 0 .. n : \E f : Searching(f, m, found, S)}
<1>1. 0 \in T
  <2> DEFINE f == [k \in 0 .. 0 |-> found]
  <2>1. \A k \in 0 .. 0 : k = 0
    OBVIOUS
  <2>2. Searching(f, 0, found, S)
    BY <2>1 DEF Searching
  <2> QED BY <2>2
<1>2. ASSUME NEW m \in 0 .. n - 1, m \in T PROVE m + 1 \in T
  <2>1. PICK f : Searching(f, m, found, S)
    BY <1>2
  <2> DEFINE g == [k \in 0 .. m + 1 |-> IF k = m + 1 THEN Wider(f[m], S) ELSE f[k]]
  <2>2. m \in Nat /\ m + 1 \in 0 .. n /\ m + 1 # 0 /\ m + 1 - 1 = m /\ m # m + 1
    OBVIOUS
  <2>3. \A k \in 0 .. m + 1 : g[k] = IF k = 0 THEN found ELSE Wider(g[k - 1], S)
    <3> SUFFICES ASSUME NEW k \in 0 .. m + 1
                 PROVE  g[k] = IF k = 0 THEN found ELSE Wider(g[k - 1], S)
      OBVIOUS
    <3>1. CASE k = m + 1
      <4>1. m \in 0 .. m + 1 /\ g[m] = f[m] /\ g[m + 1] = Wider(f[m], S)
        BY <2>2
      <4> HIDE DEF g
      <4> QED BY <3>1, <4>1, <2>2
    <3>2. CASE k = 0
      <4>1. 0 \in 0 .. m /\ 0 # m + 1 /\ 0 \in 0 .. m + 1
        BY <2>2
      <4>2. f[0] = found
        BY <2>1, <4>1 DEF Searching
      <4>3. g[0] = f[0]
        BY <4>1
      <4> HIDE DEF g
      <4> QED BY <3>2, <4>2, <4>3
    <3>3. CASE k # m + 1 /\ k # 0
      <4>1. k \in 0 .. m /\ k - 1 \in 0 .. m + 1 /\ k - 1 # m + 1
        BY <2>2, <3>3
      <4>2. f[k] = Wider(f[k - 1], S)
        BY <2>1, <3>3, <4>1 DEF Searching
      <4>3. g[k] = f[k] /\ g[k - 1] = f[k - 1]
        BY <3>3, <4>1
      <4> HIDE DEF g
      <4> QED BY <3>3, <4>2, <4>3
    <3> QED BY <3>1, <3>2, <3>3
  <2>4. g = [k \in 0 .. m + 1 |-> g[k]]
    OBVIOUS
  <2> HIDE DEF g
  <2>5. Searching(g, m + 1, found, S)
    BY <2>3, <2>4 DEF Searching
  <2> QED BY <2>2, <2>5
<1> HIDE DEF T
<1>3. 0 .. n \subseteq T
  BY <1>1, <1>2, FromZero
<1>4. n \in T
  BY <1>3
<1> QED BY <1>4 DEF T

(* Closure is what is within as many steps as there are tiles.             *)
LEMMA ClosureEquation ==
    ASSUME NEW found, NEW S
    PROVE  \E f : /\ Terrain!Closure(found, S) = f[GridSize]
                  /\ f[0] = found
                  /\ \A k \in 0 .. GridSize - 1 : f[k + 1] = Wider(f[k], S)
<1> DEFINE f == CHOOSE f : Searching(f, GridSize, found, S)
<1>1. Terrain!Closure(found, S) = f[GridSize]
  BY DEF Terrain!Closure, Searching, Wider, GridSize
<1>2. \E g : Searching(g, GridSize, found, S)
  BY Grid, SearchingExists
<1>3. Searching(f, GridSize, found, S)
  <2> HIDE DEF Searching
  <2> QED BY <1>2
<1> HIDE DEF f
<1>4. f[0] = found
  BY <1>3, Grid DEF Searching
<1>5. ASSUME NEW k \in 0 .. GridSize - 1 PROVE f[k + 1] = Wider(f[k], S)
  <2>1. k + 1 \in 0 .. GridSize /\ k + 1 # 0 /\ k + 1 - 1 = k
    BY Grid
  <2>2. \A j \in 0 .. GridSize : f[j] = IF j = 0 THEN found ELSE Wider(f[j - 1], S)
    BY <1>3, Zenon DEF Searching
  <2>3. f[k + 1] = IF k + 1 = 0 THEN found ELSE Wider(f[k + 1 - 1], S)
    BY <2>1, <2>2
  <2> QED BY <2>1, <2>3
<1> QED BY <1>1, <1>4, <1>5

(* It is the least set that has the given tiles and is closed.             *)
LEMMA ClosureLeast ==
    ASSUME NEW found, NEW S, NEW X, found \subseteq X, Closed(X, S)
    PROVE  Terrain!Closure(found, S) \subseteq X
<1>1. PICK f : /\ Terrain!Closure(found, S) = f[GridSize]
               /\ f[0] = found
               /\ \A k \in 0 .. GridSize - 1 : f[k + 1] = Wider(f[k], S)
  BY ClosureEquation
<1> DEFINE T == {k \in 0 .. GridSize : f[k] \subseteq X}
<1>2. 0 \in T
  BY <1>1, Grid
<1>3. ASSUME NEW k \in 0 .. GridSize - 1, k \in T PROVE k + 1 \in T
  <2>1. f[k + 1] \subseteq X
    BY <1>1, <1>3 DEF Wider, Closed
  <2> QED BY <2>1, Grid
<1> HIDE DEF T
<1>4. 0 .. GridSize \subseteq T
  BY <1>2, <1>3, FromZero, Grid
<1>5. GridSize \in T
  BY <1>4, Grid
<1> QED BY <1>1, <1>5 DEF T

(* A search that goes on finds a tile a step, so that after as many steps  *)
(* as there are tiles it has come to its end.                              *)
LEMMA ClosureClosed ==
    ASSUME NEW found \in SUBSET Terrain!Point, NEW S
    PROVE  /\ found \subseteq Terrain!Closure(found, S)
           /\ Terrain!Closure(found, S) \subseteq Terrain!Point
           /\ Closed(Terrain!Closure(found, S), S)
<1>1. PICK f : /\ Terrain!Closure(found, S) = f[GridSize]
               /\ f[0] = found
               /\ \A k \in 0 .. GridSize - 1 : f[k + 1] = Wider(f[k], S)
  BY ClosureEquation
<1> DEFINE T == {k \in 0 .. GridSize : /\ found \subseteq f[k] /\ f[k] \subseteq Terrain!Point
                                       /\ Closed(f[k], S) \/ Cardinality(f[k]) >= k}
<1>2. 0 \in T
  <2>1. IsFiniteSet(found)
    BY Grid, FS_Subset
  <2>2. Cardinality(found) >= 0
    BY <2>1, FS_CardinalityType
  <2> QED BY <1>1, <2>2, Grid
<1>3. ASSUME NEW k \in 0 .. GridSize - 1, k \in T PROVE k + 1 \in T
  <2>1. f[k + 1] = Wider(f[k], S) /\ found \subseteq f[k] /\ f[k] \subseteq Terrain!Point
    BY <1>1, <1>3
  <2>2. k + 1 \in 0 .. GridSize
    BY Grid
  <2>3. f[k] \subseteq f[k + 1] /\ f[k + 1] \subseteq Terrain!Point
    BY <2>1, NeighborsInPoint DEF Wider
  <2>4. CASE Closed(f[k], S)
    <3>1. f[k + 1] = f[k]
      BY <2>1, <2>4 DEF Wider, Closed
    <3> QED BY <2>1, <2>2, <2>4, <3>1
  <2>5. CASE ~Closed(f[k], S)
    <3>1. f[k + 1] # f[k]
      BY <2>1, <2>5 DEF Wider, Closed
    <3>2. IsFiniteSet(f[k + 1]) /\ IsFiniteSet(f[k])
      BY <2>1, <2>3, Grid, FS_Subset
    <3>3. Cardinality(f[k]) <= Cardinality(f[k + 1]) /\ Cardinality(f[k]) # Cardinality(f[k + 1])
      BY <2>3, <3>1, <3>2, FS_Subset
    <3>4. Cardinality(f[k]) >= k
      BY <1>3, <2>5
    <3>5. Cardinality(f[k]) \in Nat /\ Cardinality(f[k + 1]) \in Nat
      BY <3>2, FS_CardinalityType
    <3>6. Cardinality(f[k + 1]) >= k + 1
      BY <3>3, <3>4, <3>5
    <3> QED BY <2>1, <2>2, <2>3, <3>6
  <2> QED BY <2>4, <2>5
<1> HIDE DEF T
<1>4. 0 .. GridSize \subseteq T
  BY <1>2, <1>3, FromZero, Grid
<1>5. GridSize \in T
  BY <1>4, Grid
<1> DEFINE C == Terrain!Closure(found, S)
<1>6. /\ found \subseteq C /\ C \subseteq Terrain!Point
      /\ Closed(C, S) \/ Cardinality(C) >= GridSize
  BY <1>1, <1>5 DEF T
<1>7. Closed(C, S)
  <2>1. CASE Cardinality(C) >= GridSize
    <3>1. Cardinality(C) <= GridSize /\ IsFiniteSet(C)
      BY <1>6, Grid, FS_Subset
    <3>2. Cardinality(C) \in Nat
      BY <3>1, FS_CardinalityType
    <3>3. Cardinality(C) = GridSize
      BY <2>1, <3>1, <3>2, Grid
    <3>4. C = Terrain!Point
      BY <1>6, <3>3, Grid, FS_Subset
    <3> QED BY <3>4, NeighborsInPoint DEF Closed
  <2> QED BY <1>6, <2>1
<1> QED BY <1>6, <1>7

-----------------------------------------------------------------------------
LEMMA PairOfPoint == ASSUME NEW p \in Terrain!Point PROVE {p} \in SUBSET Terrain!Point
OBVIOUS

(* More tiles to walk on, more that is reached.                            *)
LEMMA ClosureMonotone ==
    ASSUME NEW p \in Terrain!Point, NEW S, NEW T, S \subseteq T
    PROVE  Terrain!Closure({p}, S) \subseteq Terrain!Closure({p}, T)
<1>1. /\ {p} \subseteq Terrain!Closure({p}, T)
      /\ Closed(Terrain!Closure({p}, T), T)
  BY PairOfPoint, ClosureClosed
<1>2. Closed(Terrain!Closure({p}, T), S)
  BY <1>1 DEF Closed
<1> QED BY <1>1, <1>2, ClosureLeast

LEMMA ClosureTransitive ==
    ASSUME NEW p \in Terrain!Point, NEW q, NEW S, q \in Terrain!Closure({p}, S)
    PROVE  Terrain!Closure({q}, S) \subseteq Terrain!Closure({p}, S)
<1>1. Closed(Terrain!Closure({p}, S), S)
  BY PairOfPoint, ClosureClosed
<1>2. {q} \subseteq Terrain!Closure({p}, S)
  OBVIOUS
<1> QED BY <1>1, <1>2, ClosureLeast

(* Along a row or a column of walkable tiles one gets from any to any.     *)
LEMMA AlongRow ==
    ASSUME NEW S, NEW X, Closed(X, S), NEW y \in 0 .. Rows - 1,
           NEW a \in 0 .. Columns - 1, NEW b \in 0 .. Columns - 1,
           \A x \in Terrain!Between(a, b) : <<x, y>> \in S, <<b, y>> \in X
    PROVE  <<a, y>> \in X
<1>1. Columns \in Nat /\ Rows \in Nat
  BY Grid
<1>2. ASSUME NEW x \in 0 .. Columns - 1, NEW d \in {1, -1}, x + d \in 0 .. Columns - 1,
             <<x, y>> \in X, <<x + d, y>> \in S
      PROVE  <<x + d, y>> \in X
  <2>1. <<x + d, y>> \in Terrain!Point
    BY <1>1, <1>2 DEF Terrain!Point
  <2>2. <<x + d, y>> \in {<<x + 1, y>>, <<x - 1, y>>, <<x, y + 1>>, <<x, y - 1>>}
    <3>1. d = 1 \/ (d = -1 /\ x + d = x - 1)
      BY <1>1
    <3> QED BY <3>1
  <2>3. <<x + d, y>> \in Terrain!Neighbors(<<x, y>>)
    BY <2>1, <2>2 DEF Terrain!Neighbors
  <2> QED BY <1>2, <2>3 DEF Closed
<1>3. CASE a <= b
  <2> DEFINE n == b - a
             T == {k \in 0 .. n : <<b - k, y>> \in X}
  <2>1. n \in Nat
    BY <1>1, <1>3
  <2>2. 0 \in T
    BY <1>1, <1>3
  <2>3. ASSUME NEW k \in 0 .. n - 1, k \in T PROVE k + 1 \in T
    <3>1. /\ b - k \in 0 .. Columns - 1 /\ b - k + (-1) \in 0 .. Columns - 1
          /\ b - k + (-1) = b - (k + 1) /\ k + 1 \in 0 .. n
          /\ b - (k + 1) \in Terrain!Between(a, b)
      BY <1>1, <1>3 DEF Terrain!Between
    <3>2. <<b - k, y>> \in X
      BY <2>3
    <3>3. <<b - k + (-1), y>> \in X
      BY <1>2, <3>1, <3>2
    <3> QED BY <3>1, <3>3
  <2> HIDE DEF T
  <2>4. 0 .. n \subseteq T
    BY <2>1, <2>2, <2>3, FromZero
  <2>5. n \in T /\ b - n = a
    BY <1>1, <2>1, <2>4
  <2> QED BY <2>5 DEF T
<1>4. CASE ~(a <= b)
  <2> DEFINE n == a - b
             T == {k \in 0 .. n : <<b + k, y>> \in X}
  <2>1. n \in Nat
    BY <1>1, <1>4
  <2>2. 0 \in T
    BY <1>1, <1>4
  <2>3. ASSUME NEW k \in 0 .. n - 1, k \in T PROVE k + 1 \in T
    <3>1. /\ b + k \in 0 .. Columns - 1 /\ b + k + 1 \in 0 .. Columns - 1
          /\ b + k + 1 = b + (k + 1) /\ k + 1 \in 0 .. n
          /\ b + (k + 1) \in Terrain!Between(a, b)
      BY <1>1, <1>4 DEF Terrain!Between
    <3>2. <<b + k, y>> \in X
      BY <2>3
    <3>3. <<b + k + 1, y>> \in X
      BY <1>2, <3>1, <3>2
    <3> QED BY <3>1, <3>3
  <2> HIDE DEF T
  <2>4. 0 .. n \subseteq T
    BY <2>1, <2>2, <2>3, FromZero
  <2>5. n \in T /\ b + n = a
    BY <1>1, <2>1, <2>4
  <2> QED BY <2>5 DEF T
<1> QED BY <1>3, <1>4

LEMMA AlongColumn ==
    ASSUME NEW S, NEW X, Closed(X, S), NEW x \in 0 .. Columns - 1,
           NEW a \in 0 .. Rows - 1, NEW b \in 0 .. Rows - 1,
           \A y \in Terrain!Between(a, b) : <<x, y>> \in S, <<x, b>> \in X
    PROVE  <<x, a>> \in X
<1>1. Columns \in Nat /\ Rows \in Nat
  BY Grid
<1>2. ASSUME NEW y \in 0 .. Rows - 1, NEW d \in {1, -1}, y + d \in 0 .. Rows - 1,
             <<x, y>> \in X, <<x, y + d>> \in S
      PROVE  <<x, y + d>> \in X
  <2>1. <<x, y + d>> \in Terrain!Point
    BY <1>1, <1>2 DEF Terrain!Point
  <2>2. <<x, y + d>> \in {<<x + 1, y>>, <<x - 1, y>>, <<x, y + 1>>, <<x, y - 1>>}
    <3>1. d = 1 \/ (d = -1 /\ y + d = y - 1)
      BY <1>1
    <3> QED BY <3>1
  <2>3. <<x, y + d>> \in Terrain!Neighbors(<<x, y>>)
    BY <2>1, <2>2 DEF Terrain!Neighbors
  <2> QED BY <1>2, <2>3 DEF Closed
<1>3. CASE a <= b
  <2> DEFINE n == b - a
             T == {k \in 0 .. n : <<x, b - k>> \in X}
  <2>1. n \in Nat
    BY <1>1, <1>3
  <2>2. 0 \in T
    BY <1>1, <1>3
  <2>3. ASSUME NEW k \in 0 .. n - 1, k \in T PROVE k + 1 \in T
    <3>1. /\ b - k \in 0 .. Rows - 1 /\ b - k + (-1) \in 0 .. Rows - 1
          /\ b - k + (-1) = b - (k + 1) /\ k + 1 \in 0 .. n
          /\ b - (k + 1) \in Terrain!Between(a, b)
      BY <1>1, <1>3 DEF Terrain!Between
    <3>2. <<x, b - k>> \in X
      BY <2>3
    <3>3. <<x, b - k + (-1)>> \in X
      BY <1>2, <3>1, <3>2
    <3> QED BY <3>1, <3>3
  <2> HIDE DEF T
  <2>4. 0 .. n \subseteq T
    BY <2>1, <2>2, <2>3, FromZero
  <2>5. n \in T /\ b - n = a
    BY <1>1, <2>1, <2>4
  <2> QED BY <2>5 DEF T
<1>4. CASE ~(a <= b)
  <2> DEFINE n == a - b
             T == {k \in 0 .. n : <<x, b + k>> \in X}
  <2>1. n \in Nat
    BY <1>1, <1>4
  <2>2. 0 \in T
    BY <1>1, <1>4
  <2>3. ASSUME NEW k \in 0 .. n - 1, k \in T PROVE k + 1 \in T
    <3>1. /\ b + k \in 0 .. Rows - 1 /\ b + k + 1 \in 0 .. Rows - 1
          /\ b + k + 1 = b + (k + 1) /\ k + 1 \in 0 .. n
          /\ b + (k + 1) \in Terrain!Between(a, b)
      BY <1>1, <1>4 DEF Terrain!Between
    <3>2. <<x, b + k>> \in X
      BY <2>3
    <3>3. <<x, b + k + 1>> \in X
      BY <1>2, <3>1, <3>2
    <3> QED BY <3>1, <3>3
  <2> HIDE DEF T
  <2>4. 0 .. n \subseteq T
    BY <2>1, <2>2, <2>3, FromZero
  <2>5. n \in T /\ b + n = a
    BY <1>1, <2>1, <2>4
  <2> QED BY <2>5 DEF T
<1> QED BY <1>3, <1>4

(* A nonempty set of tiles has a first one, row by row.                    *)
LEMMA FirstIsIn ==
    ASSUME NEW S \in SUBSET Terrain!Point, S # {}
    PROVE  Terrain!FirstOf(S) \in S
<1>1. \A p \in S : p = <<p[1], p[2]>> /\ p[1] \in Nat /\ p[2] \in Nat
  BY Grid DEF Terrain!Point
<1> DEFINE Y == {p[2] : p \in S}
<1>2. Y \in SUBSET Nat /\ Y # {}
  BY <1>1
<1>3. PICK y \in Y : \A z \in Y : y <= z
  BY <1>2, Least
<1> DEFINE X == {p[1] : p \in {q \in S : q[2] = y}}
<1>4. X \in SUBSET Nat /\ X # {}
  BY <1>1, <1>3
<1>5. PICK x \in X : \A z \in X : x <= z
  BY <1>4, Least
<1>6. PICK first \in S : first[1] = x /\ first[2] = y
  BY <1>5
<1>7. ASSUME NEW q \in S \ {first} PROVE Terrain!Before(first, q)
  <2>1. q[2] \in Y /\ y <= q[2] /\ y \in Nat /\ x \in Nat
    BY <1>2, <1>3, <1>4, <1>5
  <2>2. CASE q[2] = y
    <3>1. q[1] \in X /\ x <= q[1]
      BY <1>5, <2>2
    <3>2. q[1] # x
      BY <1>1, <1>6, <1>7, <2>2
    <3> QED BY <1>1, <1>6, <2>1, <2>2, <3>1, <3>2 DEF Terrain!Before
  <2>3. CASE q[2] # y
    BY <1>1, <1>6, <2>1, <2>3 DEF Terrain!Before
  <2> QED BY <2>2, <2>3
<1>8. \E p \in S : \A q \in S \ {p} : Terrain!Before(p, q)
  BY <1>7
<1>9. Terrain!FirstOf(S) = CHOOSE p \in S : \A q \in S \ {p} : Terrain!Before(p, q)
  BY DEF Terrain!FirstOf
<1> QED BY <1>8, <1>9

-----------------------------------------------------------------------------
Kinds == {"wall", "floor", "obstacle", "door"}
Border == Terrain!Point \ (Terrain!Interior \cup Terrain!Corner)
FirstDoor == Terrain!FirstOf(Terrain!Doors)
Reached == Terrain!ReachableFrom(FirstDoor)

TerrainTyped ==
    /\ tiles \in [Terrain!Point -> Kinds]
    /\ Terrain!Doors \subseteq Border
    /\ waiting \subseteq Terrain!Doors

(* During the repair every door that was dealt with is connected with the  *)
(* first one, and the room can be entered from that one.                   *)
TerrainInv ==
    /\ TerrainTyped
    /\ repairPc \in {"start", "repair", "done"}
    /\ repairPc = "repair" =>
          /\ Terrain!Doors # {}
          /\ tiles[Terrain!Inward(FirstDoor)] = "floor"
          /\ Terrain!Doors \ waiting \subseteq Reached
    /\ Terrain!DoorsConnected

(* A doorway is beside the interior tile behind it.                        *)
LEMMA InwardBeside ==
    ASSUME NEW d \in Border
    PROVE  /\ Terrain!Inward(d) \in Terrain!Interior
           /\ d \in Terrain!Neighbors(Terrain!Inward(d))
           /\ Terrain!Inward(d) \in Terrain!Neighbors(d)
<1>1. Columns \in Nat /\ Rows \in Nat /\ Columns >= 4 /\ Rows >= 4
  BY Grid
<1>2. /\ d = <<d[1], d[2]>> /\ d \in Terrain!Point
      /\ d[1] \in 0 .. Columns - 1 /\ d[2] \in 0 .. Rows - 1
      /\ ~(d[1] \in 1 .. Columns - 2 /\ d[2] \in 1 .. Rows - 2)
      /\ ~(d[1] \in {0, Columns - 1} /\ d[2] \in {0, Rows - 1})
  BY DEF Border, Terrain!Point, Terrain!Interior, Terrain!Corner
<1>3. CASE d[1] = 0
  <2>1. Terrain!Inward(d) = <<1, d[2]>> /\ d[2] \in 1 .. Rows - 2
    BY <1>1, <1>2, <1>3 DEF Terrain!Inward
  <2>2. d = <<0, d[2]>> /\ 0 = 1 - 1 /\ 1 = 0 + 1
    BY <1>2, <1>3
  <2>3. <<1, d[2]>> \in Terrain!Interior /\ <<1, d[2]>> \in Terrain!Point
    BY <1>1, <2>1 DEF Terrain!Interior, Terrain!Point
  <2> QED BY <1>2, <1>3, <2>1, <2>2, <2>3 DEF Terrain!Neighbors
<1>4. CASE d[1] = Columns - 1
  <2>1. Terrain!Inward(d) = <<Columns - 2, d[2]>> /\ d[2] \in 1 .. Rows - 2
    BY <1>1, <1>2, <1>4 DEF Terrain!Inward
  <2>2. d = <<Columns - 1, d[2]>> /\ Columns - 1 = (Columns - 2) + 1 /\ Columns - 2 = (Columns - 1) - 1
    BY <1>1, <1>2, <1>4
  <2>3. <<Columns - 2, d[2]>> \in Terrain!Interior /\ <<Columns - 2, d[2]>> \in Terrain!Point
    BY <1>1, <2>1 DEF Terrain!Interior, Terrain!Point
  <2> QED BY <1>2, <1>4, <2>1, <2>2, <2>3 DEF Terrain!Neighbors
<1>5. CASE d[1] \in 1 .. Columns - 2 /\ d[2] = 0
  <2>1. Terrain!Inward(d) = <<d[1], 1>>
    BY <1>1, <1>5 DEF Terrain!Inward
  <2>2. d = <<d[1], 0>> /\ 0 = 1 - 1 /\ 1 = 0 + 1
    BY <1>2, <1>5
  <2>3. <<d[1], 1>> \in Terrain!Interior /\ <<d[1], 1>> \in Terrain!Point
    BY <1>1, <1>5 DEF Terrain!Interior, Terrain!Point
  <2> QED BY <1>2, <1>5, <2>1, <2>2, <2>3 DEF Terrain!Neighbors
<1>6. CASE d[1] \in 1 .. Columns - 2 /\ d[2] = Rows - 1
  <2>1. Terrain!Inward(d) = <<d[1], Rows - 2>>
    BY <1>1, <1>6 DEF Terrain!Inward
  <2>2. d = <<d[1], Rows - 1>> /\ Rows - 1 = (Rows - 2) + 1 /\ Rows - 2 = (Rows - 1) - 1
    BY <1>1, <1>2, <1>6
  <2>3. <<d[1], Rows - 2>> \in Terrain!Interior /\ <<d[1], Rows - 2>> \in Terrain!Point
    BY <1>1, <1>6 DEF Terrain!Interior, Terrain!Point
  <2> QED BY <1>2, <1>6, <2>1, <2>2, <2>3 DEF Terrain!Neighbors
<1>7. d[1] = 0 \/ d[1] = Columns - 1 \/ d[1] \in 1 .. Columns - 2
  BY <1>1, <1>2
<1>8. d[1] \in 1 .. Columns - 2 => d[2] = 0 \/ d[2] = Rows - 1
  BY <1>1, <1>2
<1> QED BY <1>3, <1>4, <1>5, <1>6, <1>7, <1>8

(* Carving changes no door, closes no way, and opens the tiles asked for.  *)
LEMMA CarvingOpens ==
    ASSUME TerrainTyped, NEW S, tiles' = Terrain!Carved(tiles, S)
    PROVE  /\ tiles' \in [Terrain!Point -> Kinds]
           /\ Terrain!Doors' = Terrain!Doors
           /\ Terrain!Walkable(tiles) \subseteq Terrain!Walkable(tiles')
           /\ \A p \in Terrain!Point : tiles[p] = "floor" => tiles'[p] = "floor"
           /\ \A p \in S \cap Terrain!Interior : tiles'[p] = "floor" /\ p \in Terrain!Walkable(tiles')
<1>1. /\ tiles \in [Terrain!Point -> Kinds]
      /\ tiles' \in [Terrain!Point -> Kinds]
      /\ \A p \in Terrain!Point :
            tiles'[p] = IF p \in S /\ p \in Terrain!Interior /\ tiles[p] # "door"
                        THEN "floor" ELSE tiles[p]
  BY DEF TerrainTyped, Terrain!Carved, Kinds
<1>2. \A p \in Terrain!Interior : p \in Terrain!Point
  <2>1. Columns \in Nat /\ Rows \in Nat
    BY Grid
  <2> QED BY <2>1 DEF Terrain!Interior, Terrain!Point
<1>3. \A p \in Terrain!Interior : tiles[p] # "door"
  BY <1>2 DEF TerrainTyped, Border, Terrain!Doors
<1>4. \A p \in Terrain!Point : tiles'[p] = "door" <=> tiles[p] = "door"
  BY <1>1
<1>5. Terrain!Doors' = Terrain!Doors
  BY <1>4 DEF Terrain!Doors
<1>6. Terrain!Walkable(tiles) \subseteq Terrain!Walkable(tiles')
  BY <1>1 DEF Terrain!Walkable
<1>7. \A p \in S \cap Terrain!Interior : tiles'[p] = "floor" /\ p \in Terrain!Walkable(tiles')
  BY <1>1, <1>2, <1>3 DEF Terrain!Walkable
<1> QED BY <1>1, <1>5, <1>6, <1>7

LEMMA DoorsWalkable ==
    \A d \in Terrain!Doors : d \in Terrain!Walkable(tiles) /\ d \in Terrain!Point
BY DEF Terrain!Doors, Terrain!Walkable

LEMMA FirstDoorIsDoor ==
    ASSUME Terrain!Doors # {}
    PROVE  FirstDoor \in Terrain!Doors /\ FirstDoor \in Terrain!Point
<1>1. Terrain!Doors \in SUBSET Terrain!Point
  BY DEF Terrain!Doors
<1> QED BY <1>1, FirstIsIn DEF FirstDoor

LEMMA ReachedClosed ==
    ASSUME Terrain!Doors # {}
    PROVE  /\ FirstDoor \in Reached /\ Reached \subseteq Terrain!Point
           /\ Closed(Reached, Terrain!Walkable(tiles))
BY FirstDoorIsDoor, ClosureClosed DEF Reached, Terrain!ReachableFrom

(* Carving only adds to what the first door reaches. *)
LEMMA ReachedNext ==
    ASSUME TerrainTyped, Terrain!Doors # {}, NEW S, tiles' = Terrain!Carved(tiles, S)
    PROVE  /\ FirstDoor' = FirstDoor
           /\ Reached' = Terrain!Closure({FirstDoor}, Terrain!Walkable(tiles'))
           /\ FirstDoor \in Reached' /\ Reached \subseteq Reached'
           /\ Closed(Reached', Terrain!Walkable(tiles'))
<1>1. Terrain!Doors' = Terrain!Doors /\ Terrain!Walkable(tiles) \subseteq Terrain!Walkable(tiles')
  BY CarvingOpens
<1>2. FirstDoor' = FirstDoor /\ FirstDoor \in Terrain!Point
  BY <1>1, FirstDoorIsDoor DEF FirstDoor
<1>3. Reached' = Terrain!Closure({FirstDoor}, Terrain!Walkable(tiles'))
  BY <1>2 DEF Reached, Terrain!ReachableFrom
<1>4. Reached = Terrain!Closure({FirstDoor}, Terrain!Walkable(tiles))
  BY DEF Reached, Terrain!ReachableFrom
<1>5. Reached \subseteq Reached'
  BY <1>1, <1>2, <1>3, <1>4, ClosureMonotone
<1>6. FirstDoor \in Reached' /\ Closed(Reached', Terrain!Walkable(tiles'))
  BY <1>2, <1>3, PairOfPoint, ClosureClosed
<1> QED BY <1>2, <1>3, <1>5, <1>6

LEMMA TerrainInitInv == Terrain!Init => TerrainInv
<1> SUFFICES ASSUME Terrain!Init PROVE TerrainInv
  OBVIOUS
<1>1. PICK opened \in SUBSET Border, floor \in SUBSET Terrain!Interior :
         tiles = [p \in Terrain!Point |-> CASE p \in opened -> "door"
                                            [] p \in floor -> "floor"
                                            [] p \in Terrain!Interior \ floor -> "obstacle"
                                            [] OTHER -> "wall"]
  BY DEF Terrain!Init, Border
<1>2. waiting = Terrain!Doors /\ repairPc = "start"
  BY DEF Terrain!Init
<1>3. \A p \in opened : p \notin Terrain!Interior
  BY DEF Border
<1>4. ASSUME NEW p \in Terrain!Point
      PROVE  tiles[p] \in Kinds /\ (tiles[p] = "door" => p \in opened)
  <2>1. CASE p \in opened
    <3>1. tiles[p] = "door"
      BY <1>1, <1>3, <2>1
    <3> QED BY <2>1, <3>1 DEF Kinds
  <2>2. CASE p \notin opened /\ p \in floor
    <3>1. tiles[p] = "floor"
      BY <1>1, <2>2
    <3> QED BY <3>1 DEF Kinds
  <2>3. CASE p \notin opened /\ p \in Terrain!Interior \ floor
    <3>1. tiles[p] = "obstacle"
      BY <1>1, <2>3
    <3> QED BY <3>1 DEF Kinds
  <2>4. CASE p \notin opened /\ p \notin floor /\ p \notin Terrain!Interior \ floor
    <3>1. tiles[p] = "wall"
      BY <1>1, <2>4
    <3> QED BY <3>1 DEF Kinds
  <2> QED BY <2>1, <2>2, <2>3, <2>4
<1>5. tiles \in [Terrain!Point -> Kinds]
  BY <1>1, <1>4
<1>6. Terrain!Doors \subseteq Border
  BY <1>4 DEF Terrain!Doors
<1> QED BY <1>2, <1>5, <1>6 DEF TerrainInv, TerrainTyped, Terrain!DoorsConnected

LEMMA NothingToDoInv == ASSUME TerrainInv, Terrain!NothingToDo PROVE TerrainInv'
<1>1. repairPc' = "done" /\ Cardinality(Terrain!Doors) <= 1 /\ UNCHANGED <<tiles, waiting, marked>>
  BY TerrainFiniteSets DEF Terrain!NothingToDo
<1>2. Terrain!Doors' = Terrain!Doors
  BY <1>1 DEF Terrain!Doors
<1>3. TerrainTyped'
  BY <1>1, <1>2 DEF TerrainInv, TerrainTyped
<1>4. ASSUME Terrain!Doors # {} PROVE Terrain!Doors \subseteq Reached
  <2>1. FirstDoor \in Terrain!Doors /\ FirstDoor \in Reached
    BY <1>4, FirstDoorIsDoor, ReachedClosed
  <2>2. IsFiniteSet(Terrain!Doors)
    <3>1. Terrain!Doors \in SUBSET Terrain!Point
      BY DEF Terrain!Doors
    <3> QED BY <3>1, Grid, FS_Subset
  <2>3. /\ Cardinality(Terrain!Doors) \in Nat
        /\ IsFiniteSet(Terrain!Doors \ {FirstDoor})
        /\ Cardinality(Terrain!Doors \ {FirstDoor}) = Cardinality(Terrain!Doors) - 1
    BY <2>1, <2>2, FS_CardinalityType, FS_RemoveElement
  <2>4. Cardinality(Terrain!Doors \ {FirstDoor}) \in Nat
    BY <2>3, FS_CardinalityType
  <2>5. Cardinality(Terrain!Doors \ {FirstDoor}) = 0
    BY <1>1, <2>3, <2>4
  <2>6. Terrain!Doors \ {FirstDoor} = {}
    BY <2>3, <2>5, FS_EmptySet
  <2> QED BY <2>1, <2>6
<1>5. Reached' = Reached
  BY <1>1, <1>2 DEF Reached, FirstDoor, Terrain!ReachableFrom, Terrain!Walkable
<1>6. Terrain!DoorsConnected'
  BY <1>1, <1>2, <1>4, <1>5 DEF Terrain!DoorsConnected, Reached, FirstDoor
<1> QED BY <1>1, <1>3, <1>6 DEF TerrainInv

LEMMA FloodFirstInv == ASSUME TerrainInv, Terrain!FloodFirst PROVE TerrainInv'
<1>1. /\ repairPc' = "repair"
      /\ tiles' = Terrain!Carved(tiles, {Terrain!Inward(FirstDoor)})
      /\ marked' = Terrain!Flooded(FirstDoor, tiles', {})
      /\ waiting' = Terrain!Doors \ {FirstDoor}
      /\ Cardinality(Terrain!Doors) > 1
  BY TerrainFiniteSets DEF Terrain!FloodFirst, FirstDoor
<1>2. TerrainTyped
  BY DEF TerrainInv
<1>3. Terrain!Doors # {}
  BY <1>1, FS_EmptySet
<1>4. FirstDoor \in Terrain!Doors /\ FirstDoor \in Border
  BY <1>2, <1>3, FirstDoorIsDoor DEF TerrainTyped
<1>5. /\ tiles' \in [Terrain!Point -> Kinds] /\ Terrain!Doors' = Terrain!Doors
      /\ tiles'[Terrain!Inward(FirstDoor)] = "floor"
  BY <1>1, <1>2, <1>4, CarvingOpens, InwardBeside
<1>6. FirstDoor' = FirstDoor
  BY <1>5 DEF FirstDoor
<1>7. TerrainTyped'
  BY <1>1, <1>2, <1>5 DEF TerrainTyped
<1>8. marked' = Reached'
  <2>1. Terrain!Walkable(tiles') \ {} = Terrain!Walkable(tiles')
    OBVIOUS
  <2>2. Terrain!Flooded(FirstDoor, tiles', {})
           = Terrain!Closure({FirstDoor}, Terrain!Walkable(tiles'))
    BY <2>1 DEF Terrain!Flooded
  <2>3. Reached' = Terrain!Closure({FirstDoor}, Terrain!Walkable(tiles'))
    BY <1>6 DEF Reached, Terrain!ReachableFrom
  <2> QED BY <1>1, <2>2, <2>3
<1>9. FirstDoor \in Reached'
  BY <1>1, <1>2, <1>3, ReachedNext
<1>10. Terrain!DoorsConnected'
  BY <1>1, <1>8 DEF Terrain!DoorsConnected, Reached, FirstDoor
<1> QED BY <1>1, <1>3, <1>4, <1>5, <1>6, <1>7, <1>9, <1>10 DEF TerrainInv

LEMMA SkipInv == ASSUME TerrainInv, Terrain!Skip PROVE TerrainInv'
<1>1. /\ repairPc = "repair" /\ repairPc' = repairPc /\ tiles' = tiles /\ marked' = marked
      /\ waiting' = waiting \ {Terrain!FirstOf(waiting)}
      /\ Terrain!FirstOf(waiting) \in marked
  BY DEF Terrain!Skip
<1>2. Terrain!Doors' = Terrain!Doors
  BY <1>1 DEF Terrain!Doors
<1>3. FirstDoor' = FirstDoor /\ Reached' = Reached
  BY <1>1, <1>2 DEF Reached, FirstDoor, Terrain!ReachableFrom, Terrain!Walkable
<1>4. marked \subseteq Reached
  BY <1>1 DEF TerrainInv, Terrain!DoorsConnected, Reached, FirstDoor
<1>5. TerrainTyped'
  BY <1>1, <1>2 DEF TerrainInv, TerrainTyped
<1>6. Terrain!DoorsConnected'
  BY <1>1, <1>3, <1>4 DEF Terrain!DoorsConnected, Reached, FirstDoor
<1> QED BY <1>1, <1>2, <1>3, <1>4, <1>5, <1>6 DEF TerrainInv

(* A carved path leads from the tile behind one door to the one behind     *)
(* another, around its corner.                                             *)
LEMMA AroundTheCorner ==
    ASSUME NEW from \in Terrain!Interior, NEW to \in Terrain!Interior, NEW S, NEW X,
           Closed(X, S), to \in X, Terrain!PathTo(from, to) \cap Terrain!Interior \subseteq S
    PROVE  from \in X
<1>1. Columns \in Nat /\ Rows \in Nat
  BY Grid
<1>2. /\ from = <<from[1], from[2]>> /\ to = <<to[1], to[2]>>
      /\ from[1] \in 1 .. Columns - 2 /\ from[2] \in 1 .. Rows - 2
      /\ to[1] \in 1 .. Columns - 2 /\ to[2] \in 1 .. Rows - 2
  BY DEF Terrain!Interior
<1>3. /\ from[1] \in 0 .. Columns - 1 /\ from[2] \in 0 .. Rows - 1
      /\ to[1] \in 0 .. Columns - 1 /\ to[2] \in 0 .. Rows - 1
  BY <1>1, <1>2
<1>4. /\ \A x \in Terrain!Between(from[1], to[1]) : x \in 1 .. Columns - 2
      /\ \A y \in Terrain!Between(from[2], to[2]) : y \in 1 .. Rows - 2
      /\ to[1] \in Terrain!Between(from[1], to[1])
      /\ from[2] \in Terrain!Between(from[2], to[2])
  BY <1>1, <1>2 DEF Terrain!Between
<1>5. /\ \A x \in Terrain!Between(from[1], to[1]) : <<x, from[2]>> \in S
      /\ \A y \in Terrain!Between(from[2], to[2]) : <<to[1], y>> \in S
  <2>1. \A x \in Terrain!Between(from[1], to[1]) :
           <<x, from[2]>> \in Terrain!PathTo(from, to) \cap Terrain!Interior
    BY <1>2, <1>4 DEF Terrain!PathTo, Terrain!Interior
  <2>2. \A y \in Terrain!Between(from[2], to[2]) :
           <<to[1], y>> \in Terrain!PathTo(from, to) \cap Terrain!Interior
    BY <1>2, <1>4 DEF Terrain!PathTo, Terrain!Interior
  <2> QED BY <2>1, <2>2
<1>6. <<to[1], to[2]>> \in X
  BY <1>2
<1>7. <<to[1], from[2]>> \in X
  BY <1>3, <1>5, <1>6, AlongColumn
<1>8. <<from[1], from[2]>> \in X
  BY <1>3, <1>5, <1>7, AlongRow
<1> QED BY <1>2, <1>8

LEMMA ConnectInv == ASSUME TerrainInv, Terrain!Connect PROVE TerrainInv'
<1> DEFINE door == Terrain!FirstOf(waiting)
           entry == Terrain!Inward(door)
           target == Terrain!Inward(FirstDoor)
           S == {entry} \cup Terrain!PathTo(entry, target)
           walkable == Terrain!Walkable(tiles')
<1>1. /\ repairPc = "repair" /\ repairPc' = repairPc /\ waiting # {}
      /\ tiles' = Terrain!Carved(tiles, S)
      /\ marked' = Terrain!Flooded(entry, tiles', marked)
      /\ waiting' = waiting \ {door}
  BY DEF Terrain!Connect, FirstDoor
<1>2. /\ TerrainTyped /\ Terrain!Doors # {} /\ tiles[target] = "floor"
      /\ Terrain!Doors \ waiting \subseteq Reached /\ marked \subseteq Reached
  BY <1>1 DEF TerrainInv, Terrain!DoorsConnected, Reached, FirstDoor
<1>3. door \in waiting /\ door \in Terrain!Doors /\ door \in Border /\ door \in Terrain!Point
  <2>1. waiting \in SUBSET Terrain!Point
    BY <1>2 DEF TerrainTyped, Terrain!Doors
  <2>2. door \in waiting
    BY <1>1, <2>1, FirstIsIn
  <2> QED BY <1>2, <2>1, <2>2 DEF TerrainTyped
<1>4. FirstDoor \in Terrain!Doors /\ FirstDoor \in Border
  BY <1>2, FirstDoorIsDoor DEF TerrainTyped
<1>5. /\ entry \in Terrain!Interior /\ door \in Terrain!Neighbors(entry)
      /\ target \in Terrain!Interior /\ target \in Terrain!Neighbors(FirstDoor)
  BY <1>3, <1>4, InwardBeside
<1> HIDE DEF door, entry, target, S
<1>6. /\ tiles' \in [Terrain!Point -> Kinds] /\ Terrain!Doors' = Terrain!Doors
      /\ \A p \in Terrain!Point : tiles[p] = "floor" => tiles'[p] = "floor"
      /\ \A p \in S \cap Terrain!Interior : p \in walkable
      /\ Terrain!Walkable(tiles) \subseteq walkable
  BY <1>1, <1>2, CarvingOpens
<1>7. /\ FirstDoor' = FirstDoor
      /\ Reached' = Terrain!Closure({FirstDoor}, walkable)
      /\ FirstDoor \in Reached' /\ Reached \subseteq Reached'
      /\ Closed(Reached', walkable)
  BY <1>1, <1>2, ReachedNext
<1>8. target \in Terrain!Point /\ entry \in Terrain!Point
  BY <1>5, NeighborsInPoint, Grid DEF Terrain!Interior, Terrain!Point
<1>9. tiles'[target] = "floor" /\ target \in walkable
  BY <1>2, <1>6, <1>8 DEF Terrain!Walkable
<1> HIDE DEF walkable
<1>10. target \in Reached'
  BY <1>5, <1>7, <1>9 DEF Closed
<1>11. entry \in Reached'
  <2>1. Terrain!PathTo(entry, target) \cap Terrain!Interior \subseteq walkable
    BY <1>6 DEF S
  <2> QED BY <1>5, <1>7, <1>10, <2>1, AroundTheCorner
<1>12. door \in Reached'
  <2>1. door \in walkable
    BY <1>3, <1>6, DoorsWalkable
  <2> QED BY <1>5, <1>7, <1>11, <2>1 DEF Closed
<1>13. Terrain!Doors \ waiting' \subseteq Reached'
  BY <1>1, <1>2, <1>7, <1>12
<1>14. marked' \subseteq Reached'
  <2>1. CASE entry \in marked
    BY <1>1, <1>2, <1>7, <2>1 DEF Terrain!Flooded
  <2>2. CASE entry \notin marked
    <3>1. marked' = marked \cup Terrain!Closure({entry}, walkable \ marked)
      BY <1>1, <2>2 DEF Terrain!Flooded, walkable
    <3>2. Terrain!Closure({entry}, walkable \ marked) \subseteq Terrain!Closure({entry}, walkable)
      BY <1>8, ClosureMonotone
    <3>3. Terrain!Closure({entry}, walkable) \subseteq Reached'
      BY <1>4, <1>7, <1>11, FirstDoorIsDoor, <1>2, ClosureTransitive
    <3> QED BY <1>2, <1>7, <3>1, <3>2, <3>3
  <2> QED BY <2>1, <2>2
<1>15. TerrainTyped'
  BY <1>1, <1>2, <1>6 DEF TerrainTyped
<1>16. tiles'[Terrain!Inward(FirstDoor')] = "floor"
  BY <1>7, <1>9 DEF target
<1>17. Terrain!DoorsConnected'
  BY <1>1, <1>14 DEF Terrain!DoorsConnected, Reached, FirstDoor
<1> QED BY <1>1, <1>2, <1>6, <1>13, <1>15, <1>16, <1>17 DEF TerrainInv

LEMMA ReturnInv == ASSUME TerrainInv, Terrain!Return PROVE TerrainInv'
<1>1. /\ repairPc = "repair" /\ repairPc' = "done" /\ waiting = {}
      /\ UNCHANGED <<tiles, waiting, marked>>
  BY DEF Terrain!Return
<1>2. Terrain!Doors' = Terrain!Doors
  BY <1>1 DEF Terrain!Doors
<1>3. FirstDoor' = FirstDoor /\ Reached' = Reached
  BY <1>1, <1>2 DEF Reached, FirstDoor, Terrain!ReachableFrom, Terrain!Walkable
<1>4. Terrain!Doors \subseteq Reached
  BY <1>1 DEF TerrainInv
<1>5. TerrainTyped'
  BY <1>1, <1>2 DEF TerrainInv, TerrainTyped
<1>6. Terrain!DoorsConnected'
  BY <1>1, <1>2, <1>3, <1>4 DEF Terrain!DoorsConnected, Reached, FirstDoor
<1> QED BY <1>1, <1>5, <1>6 DEF TerrainInv

LEMMA TerrainNextInv == TerrainInv /\ [Terrain!Next]_(Terrain!vars) => TerrainInv'
<1> SUFFICES ASSUME TerrainInv, [Terrain!Next]_(Terrain!vars) PROVE TerrainInv'
  OBVIOUS
<1>1. CASE UNCHANGED Terrain!vars
  BY <1>1 DEF Terrain!vars, TerrainInv, TerrainTyped, Terrain!Doors, FirstDoor, Reached,
              Terrain!ReachableFrom, Terrain!Walkable, Terrain!DoorsConnected
<1> QED BY <1>1, NothingToDoInv, FloodFirstInv, SkipInv, ConnectInv, ReturnInv DEF Terrain!Next

(* "保证「所有 Doorway 瓦片互相可达」这一硬不变量": in a grid of any size, *)
(* with any doors and whatever a strategy left in the interior, the        *)
(* repaired room's doors reach each other, and on the way the marks claim  *)
(* no tile that cannot be reached from the first door.                     *)
THEOREM RepairConnects == Terrain!Spec => []DoorsConnected
<1>1. TerrainInv => DoorsConnected
  BY DEF TerrainInv, DoorsConnected
<1> QED BY TerrainInitInv, TerrainNextInv, <1>1, PTL DEF Terrain!Spec

-----------------------------------------------------------------------------
(* Spawn points.  Sampling measures Euclidean distances and validation     *)
(* Manhattan ones, which are never shorter.                                *)

Pair == Int \X Int

LEMMA Triangle ==
    ASSUME NEW a \in Nat, NEW b \in Nat, NEW s \in Nat, a * a + b * b >= s * s
    PROVE  a + b >= s
<1> SUFFICES ASSUME a + b < s PROVE FALSE
  OBVIOUS
<1> DEFINE m == a + b
<1>1. m \in Nat /\ s - m > 0 /\ s + m > 0
  OBVIOUS
<1>2. (s - m) * (s + m) > 0
  BY <1>1
<1>3. (s - m) * (s + m) = s * s - m * m
  BY <1>1
<1>4. m * m = a * a + b * b + 2 * (a * b)
  OBVIOUS
<1>5. a * b >= 0 /\ a * b \in Nat /\ a * a \in Nat /\ b * b \in Nat /\ s * s \in Nat /\ m * m \in Nat
  OBVIOUS
<1> HIDE DEF m
<1> QED BY <1>2, <1>3, <1>4, <1>5

LEMMA AbsSquare ==
    ASSUME NEW a \in Int
    PROVE  Spawns!Abs(a) \in Nat /\ Spawns!Abs(a) * Spawns!Abs(a) = a * a
BY DEF Spawns!Abs

LEMMA FarEnough ==
    ASSUME NEW p \in Pair, NEW q \in Pair, NEW s \in Nat, Spawns!DistanceSq(p, q) >= s * s
    PROVE  Spawns!Manhattan(p, q) >= s
<1> DEFINE a == Spawns!Abs(p[1] - q[1])
           b == Spawns!Abs(p[2] - q[2])
<1>1. p[1] - q[1] \in Int /\ p[2] - q[2] \in Int
  BY DEF Pair
<1>2. a \in Nat /\ b \in Nat
      /\ a * a = (p[1] - q[1]) * (p[1] - q[1]) /\ b * b = (p[2] - q[2]) * (p[2] - q[2])
  BY <1>1, AbsSquare
<1>3. a * a + b * b >= s * s
  BY <1>2 DEF Spawns!DistanceSq
<1>4. Spawns!Manhattan(p, q) = a + b
  BY DEF Spawns!Manhattan
<1> HIDE DEF a, b
<1> QED BY <1>2, <1>3, <1>4, Triangle

LEMMA DistanceSymmetric ==
    ASSUME NEW p \in Pair, NEW q \in Pair
    PROVE  Spawns!DistanceSq(p, q) = Spawns!DistanceSq(q, p)
<1> DEFINE a == p[1] - q[1]
           b == p[2] - q[2]
<1>1. a \in Int /\ b \in Int /\ q[1] - p[1] = -a /\ q[2] - p[2] = -b
  BY DEF Pair
<1>2. Spawns!DistanceSq(p, q) = a * a + b * b /\ Spawns!DistanceSq(q, p) = (-a) * (-a) + (-b) * (-b)
  BY <1>1 DEF Spawns!DistanceSq
<1> HIDE DEF a, b
<1> QED BY <1>1, <1>2

(* A longer distance is enough for a shorter spacing.                      *)
LEMMA LongerIsEnough ==
    ASSUME NEW s \in Nat, NEW t \in Nat, s <= t PROVE s * s <= t * t
<1>1. (t - s) * (t + s) >= 0 /\ (t - s) * (t + s) = t * t - s * s
  OBVIOUS
<1>2. s * s \in Nat /\ t * t \in Nat
  OBVIOUS
<1> QED BY <1>1, <1>2

(* The points of a set keep the given distance from each other.            *)
Spaced(S, s) == \A p, q \in S : p # q => Spawns!DistanceSq(p, q) >= s * s

SpawnTyped ==
    /\ room.floor \subseteq Pair /\ room.boss \in BOOLEAN
    /\ config \in [items : Spacings, enemies : Spacings, zones : SUBSET Zones]
    /\ items \subseteq Pair /\ enemies \subseteq Pair

(* Items keep apart from each other, enemies too, and enemies from items;  *)
(* in the room of a boss there is nobody else.                             *)
SpawnInv ==
    /\ SpawnTyped
    /\ Spaced(items, config.items)
    /\ spawnPc = "items" => enemies = {}
    /\ room.boss => items = {} /\ \A p, q \in enemies : p = q
    /\ room.boss /\ spawnPc = "enemies" => enemies = {}
    /\ ~room.boss => Spaced(enemies, config.enemies)
    /\ ~room.boss => \A p \in items, q \in enemies :
                        Spawns!DistanceSq(p, q) >= Spawns!CrossSpacing * Spawns!CrossSpacing
    /\ spawnPc = "done" => \A p \in items \cup enemies : ~Spawns!Excluded(p)

LEMMA SpacedWith ==
    ASSUME NEW S \in SUBSET Pair, NEW s, Spaced(S, s), NEW p \in Pair, Spawns!Clear(p, S, s)
    PROVE  Spaced(S \cup {p}, s)
<1> SUFFICES ASSUME NEW a \in S \cup {p}, NEW b \in S \cup {p}, a # b
             PROVE  Spawns!DistanceSq(a, b) >= s * s
  BY DEF Spaced
<1>1. CASE a \in S /\ b \in S
  BY <1>1 DEF Spaced
<1>2. CASE a = p /\ b \in S
  BY <1>2 DEF Spawns!Clear
<1>3. CASE a \in S /\ b = p
  <2>1. Spawns!DistanceSq(b, a) >= s * s
    BY <1>3 DEF Spawns!Clear
  <2> QED BY <1>3, <2>1, DistanceSymmetric
<1> QED BY <1>1, <1>2, <1>3

LEMMA SpawnInitInv == Spawns!Init => SpawnInv
<1> SUFFICES ASSUME Spawns!Init PROVE SpawnInv
  OBVIOUS
<1>1. PICK blocked \in SUBSET Spawns!Interior,
           doorways \in SUBSET (Spawns!Point \ (Spawns!Interior \cup Spawns!Corner)), boss \in BOOLEAN :
         room = [floor |-> Spawns!Interior \ blocked, doors |-> doorways, boss |-> boss]
  BY DEF Spawns!Init
<1>2. Columns \in Nat /\ Rows \in Nat
  BY AlgorithmsAssumption DEF Spawns!SpawnAssumption
<1>3. room.floor \subseteq Pair /\ room.boss \in BOOLEAN
  BY <1>1, <1>2 DEF Spawns!Interior, Pair
<1>4. items = {} /\ enemies = {} /\ spawnPc = "items"
      /\ config \in [items : Spacings, enemies : Spacings, zones : SUBSET Zones]
  BY DEF Spawns!Init
<1> QED BY <1>3, <1>4 DEF SpawnInv, SpawnTyped, Spaced

LEMMA PlaceItemInv == ASSUME SpawnInv, Spawns!PlaceItem PROVE SpawnInv'
<1>1. /\ spawnPc = "items" /\ spawnPc' = spawnPc /\ enemies = {} /\ enemies' = {}
      /\ room' = room /\ config' = config
  BY DEF Spawns!PlaceItem, SpawnInv
<1>2. PICK p \in Spawns!ItemCandidates : items' = items \cup {p}
  BY DEF Spawns!PlaceItem
<1>3. p \in room.floor /\ ~room.boss /\ Spawns!Clear(p, items, config.items)
  BY DEF Spawns!ItemCandidates
<1>4. p \in Pair /\ items \subseteq Pair
  BY <1>3 DEF SpawnInv, SpawnTyped
<1>5. Spaced(items', config.items)
  BY <1>2, <1>3, <1>4, SpacedWith DEF SpawnInv
<1>6. SpawnTyped'
  BY <1>1, <1>2, <1>4 DEF SpawnInv, SpawnTyped
<1> QED BY <1>1, <1>3, <1>5, <1>6 DEF SpawnInv, Spaced

LEMMA PlaceEnemyInv == ASSUME SpawnInv, Spawns!PlaceEnemy PROVE SpawnInv'
<1>1. /\ spawnPc = "enemies" /\ spawnPc' = spawnPc /\ items' = items /\ ~room.boss
      /\ room' = room /\ config' = config
  BY DEF Spawns!PlaceEnemy
<1>2. PICK p \in Spawns!EnemyCandidates : enemies' = enemies \cup {p}
  BY DEF Spawns!PlaceEnemy
<1>3. /\ p \in room.floor /\ Spawns!Clear(p, enemies, config.enemies)
      /\ Spawns!Clear(p, items, Spawns!CrossSpacing)
  BY DEF Spawns!EnemyCandidates
<1>4. p \in Pair /\ items \subseteq Pair /\ enemies \subseteq Pair
  BY <1>3 DEF SpawnInv, SpawnTyped
<1>5. Spaced(enemies', config.enemies)
  BY <1>1, <1>2, <1>3, <1>4, SpacedWith DEF SpawnInv
<1>6. SpawnTyped'
  BY <1>1, <1>2, <1>4 DEF SpawnInv, SpawnTyped
<1>7. Spawns!CrossSpacing' = Spawns!CrossSpacing
  BY <1>1 DEF Spawns!CrossSpacing
<1>8. ASSUME NEW i \in items, NEW e \in enemies'
      PROVE  Spawns!DistanceSq(i, e) >= Spawns!CrossSpacing * Spawns!CrossSpacing
  <2>1. CASE e \in enemies
    BY <1>1, <2>1 DEF SpawnInv
  <2>2. CASE e = p
    <3>1. Spawns!DistanceSq(p, i) >= Spawns!CrossSpacing * Spawns!CrossSpacing
      BY <1>3 DEF Spawns!Clear
    <3> QED BY <1>4, <2>2, <3>1, DistanceSymmetric
  <2> QED BY <1>2, <2>1, <2>2
<1> QED BY <1>1, <1>5, <1>6, <1>7, <1>8 DEF SpawnInv

LEMMA PlaceBossInv == ASSUME SpawnInv, Spawns!PlaceBoss PROVE SpawnInv'
<1>1. /\ spawnPc = "enemies" /\ spawnPc' = "exclude" /\ room.boss /\ items' = items
      /\ room' = room /\ config' = config
      /\ enemies' = {<<Columns \div 2, Rows \div 2>>}
  BY DEF Spawns!PlaceBoss
<1>2. Columns \in Nat /\ Rows \in Nat
  BY AlgorithmsAssumption DEF Spawns!SpawnAssumption
<1>3. enemies' \subseteq Pair
  BY <1>1, <1>2 DEF Pair
<1>4. SpawnTyped'
  BY <1>1, <1>3 DEF SpawnInv, SpawnTyped
<1> QED BY <1>1, <1>4 DEF SpawnInv, Spaced

LEMMA ExcludeInv == ASSUME SpawnInv, Spawns!Exclude PROVE SpawnInv'
<1>1. /\ items' \subseteq items /\ enemies' \subseteq enemies
      /\ \A p \in items' \cup enemies' : ~Spawns!Excluded(p)
      /\ spawnPc' = "done" /\ room' = room /\ config' = config
  BY DEF Spawns!Exclude
<1>2. SpawnTyped'
  BY <1>1 DEF SpawnInv, SpawnTyped
<1>3. \A p : Spawns!Excluded(p)' <=> Spawns!Excluded(p)
  BY <1>1 DEF Spawns!Excluded, Spawns!Within
<1>4. Spawns!CrossSpacing' = Spawns!CrossSpacing
  BY <1>1 DEF Spawns!CrossSpacing
<1> QED BY <1>1, <1>2, <1>3, <1>4 DEF SpawnInv, Spaced

LEMMA SpawnNextInv == SpawnInv /\ [Spawns!Next]_(Spawns!vars) => SpawnInv'
<1> SUFFICES ASSUME SpawnInv, [Spawns!Next]_(Spawns!vars) PROVE SpawnInv'
  OBVIOUS
<1>1. CASE Spawns!StartEnemies \/ Spawns!EnemiesComplete
  <2>1. /\ room' = room /\ config' = config /\ items' = items /\ enemies' = enemies
        /\ \/ spawnPc = "items" /\ spawnPc' = "enemies"
           \/ ~room.boss /\ spawnPc' = "exclude"
    BY <1>1 DEF Spawns!StartEnemies, Spawns!EnemiesComplete
  <2> QED BY <2>1 DEF SpawnInv, SpawnTyped, Spaced, Spawns!CrossSpacing
<1>2. CASE UNCHANGED Spawns!vars
  BY <1>2 DEF Spawns!vars, SpawnInv, SpawnTyped, Spaced, Spawns!CrossSpacing, Spawns!Excluded
<1> QED BY <1>1, <1>2, PlaceItemInv, PlaceEnemyInv, PlaceBossInv, ExcludeInv DEF Spawns!Next

LEMMA SampledIsValidHolds == ASSUME SpawnInv PROVE SampledIsValid
<1> SUFFICES ASSUME spawnPc = "done" PROVE Spawns!Valid(Spawns!CrossSpacing)
  BY DEF SampledIsValid, Spawns!SampledIsValid
<1> DEFINE s == Spawns!CrossSpacing
<1>1. config.items \in Nat /\ config.enemies \in Nat
  BY AlgorithmsAssumption DEF Spawns!SpawnAssumption, SpawnInv, SpawnTyped
<1>2. s \in Nat /\ s <= config.items /\ s <= config.enemies
  BY <1>1 DEF Spawns!CrossSpacing, Spawns!Smaller
<1> HIDE DEF s
<1>3. items \subseteq Pair /\ enemies \subseteq Pair
  BY DEF SpawnInv, SpawnTyped
<1>4. ASSUME NEW S \in SUBSET Pair, NEW t \in Nat, s <= t, Spaced(S, t),
             NEW p \in S, NEW q \in S, p # q
      PROVE  Spawns!Manhattan(p, q) >= s
  <2>1. Spawns!Manhattan(p, q) >= t
    BY <1>4, FarEnough DEF Spaced
  <2>2. Spawns!Manhattan(p, q) \in Int
    BY AbsSquare DEF Spawns!Manhattan, Pair
  <2> QED BY <1>2, <1>4, <2>1, <2>2
<1>5. \A p, q \in items : p # q => Spawns!Manhattan(p, q) >= s
  BY <1>1, <1>2, <1>3, <1>4 DEF SpawnInv
<1>6. \A p, q \in enemies : p # q => Spawns!Manhattan(p, q) >= s
  <2>1. CASE room.boss
    BY <2>1 DEF SpawnInv
  <2>2. CASE ~room.boss
    BY <1>1, <1>2, <1>3, <1>4, <2>2 DEF SpawnInv
  <2> QED BY <2>1, <2>2
<1>7. \A p \in items, q \in enemies : Spawns!Manhattan(p, q) >= s
  <2>1. CASE room.boss
    BY <2>1 DEF SpawnInv
  <2>2. CASE ~room.boss
    <3>1. \A p \in items, q \in enemies : Spawns!DistanceSq(p, q) >= s * s
      BY <2>2 DEF SpawnInv, s
    <3> QED BY <1>2, <1>3, <3>1, FarEnough
  <2> QED BY <2>1, <2>2
<1>8. \A p \in items \cup enemies : ~Spawns!Excluded(p)
  BY DEF SpawnInv
<1> QED BY <1>5, <1>6, <1>7, <1>8 DEF Spawns!Valid, s

(* "生成时满足 ⟹ 校验通过": whatever the shuffles, the room, its spacings *)
(* and its zones, the spawn points that are sampled pass the validation.   *)
THEOREM SampledPassesValidation == Spawns!Spec => []SampledIsValid
<1>1. SpawnInv => SampledIsValid
  BY SampledIsValidHolds
<1> QED BY SpawnInitInv, SpawnNextInv, <1>1, PTL DEF Spawns!Spec

-----------------------------------------------------------------------------
(* PluginOrder brings its own names for the operators of FiniteSets.       *)
LEMMA SortFiniteSets ==
    \A S : /\ Sort!IsFiniteSet(S) <=> IsFiniteSet(S)
           /\ Sort!Cardinality(S) = Cardinality(S)
<1>1. \A S : Sort!IsFiniteSet(S) <=> IsFiniteSet(S)
  BY DEF Sort!IsFiniteSet, IsFiniteSet
<1>2. \A S : Sort!Cardinality(S) = Cardinality(S)
  BY DEF Sort!Cardinality, Cardinality, Sort!IsFiniteSet, IsFiniteSet
<1> QED BY <1>1, <1>2

(* Sequences without repetition. *)
Distinct(s) == \A i, j \in DOMAIN s : s[i] = s[j] => i = j

LEMMA SeqShape ==
    ASSUME NEW T, NEW s \in Seq(T)
    PROVE  Len(s) \in Nat /\ DOMAIN s = 1 .. Len(s) /\ Sort!Elements(s) \subseteq T
BY DEF Sort!Elements

LEMMA ConcatElements ==
    ASSUME NEW T, NEW s \in Seq(T), NEW t \in Seq(T)
    PROVE  /\ s \o t \in Seq(T) /\ Len(s \o t) = Len(s) + Len(t)
           /\ Sort!Elements(s \o t) = Sort!Elements(s) \cup Sort!Elements(t)
           /\ \A i \in 1 .. Len(s) : (s \o t)[i] = s[i]
           /\ \A i \in 1 .. Len(t) : (s \o t)[Len(s) + i] = t[i]
<1> DEFINE c == s \o t
<1>1. /\ c \in Seq(T) /\ Len(c) = Len(s) + Len(t)
      /\ \A i \in 1 .. Len(s) + Len(t) : c[i] = IF i <= Len(s) THEN s[i] ELSE t[i - Len(s)]
  BY ConcatProperties
<1>2. /\ Len(s) \in Nat /\ Len(t) \in Nat
      /\ DOMAIN s = 1 .. Len(s) /\ DOMAIN t = 1 .. Len(t) /\ DOMAIN c = 1 .. Len(s) + Len(t)
  BY <1>1, SeqShape
<1> HIDE DEF c
<1>3. \A i \in 1 .. Len(s) : c[i] = s[i] /\ i \in DOMAIN c
  BY <1>1, <1>2
<1>4. \A i \in 1 .. Len(t) : c[Len(s) + i] = t[i] /\ Len(s) + i \in DOMAIN c
  <2> SUFFICES ASSUME NEW i \in 1 .. Len(t)
               PROVE  c[Len(s) + i] = t[i] /\ Len(s) + i \in DOMAIN c
    OBVIOUS
  <2>1. Len(s) + i \in 1 .. Len(s) + Len(t) /\ ~(Len(s) + i <= Len(s)) /\ Len(s) + i - Len(s) = i
    BY <1>2
  <2> QED BY <1>1, <1>2, <2>1
<1>5. \A i \in DOMAIN c : i \in 1 .. Len(s) \/ (i - Len(s) \in 1 .. Len(t) /\ c[i] = t[i - Len(s)])
  <2> SUFFICES ASSUME NEW i \in DOMAIN c, ~(i \in 1 .. Len(s))
               PROVE  i - Len(s) \in 1 .. Len(t) /\ c[i] = t[i - Len(s)]
    OBVIOUS
  <2>1. i \in 1 .. Len(s) + Len(t) /\ ~(i <= Len(s)) /\ i - Len(s) \in 1 .. Len(t)
    BY <1>2
  <2> QED BY <1>1, <2>1
<1>6. Sort!Elements(c) = Sort!Elements(s) \cup Sort!Elements(t)
  <2>1. \A i \in DOMAIN c : c[i] \in Sort!Elements(s) \cup Sort!Elements(t)
    BY <1>2, <1>3, <1>5 DEF Sort!Elements
  <2>2. \A i \in DOMAIN s : s[i] \in Sort!Elements(c)
    BY <1>2, <1>3 DEF Sort!Elements
  <2>3. \A i \in DOMAIN t : t[i] \in Sort!Elements(c)
    BY <1>2, <1>4 DEF Sort!Elements
  <2> QED BY <2>1, <2>2, <2>3 DEF Sort!Elements
<1> QED BY <1>1, <1>3, <1>4, <1>6 DEF c

LEMMA ConcatDistinct ==
    ASSUME NEW T, NEW s \in Seq(T), NEW t \in Seq(T), Distinct(s), Distinct(t),
           Sort!Elements(s) \cap Sort!Elements(t) = {}
    PROVE  Distinct(s \o t)
<1> DEFINE c == s \o t
<1>1. /\ c \in Seq(T) /\ Len(c) = Len(s) + Len(t)
      /\ \A i \in 1 .. Len(s) : c[i] = s[i]
      /\ \A i \in 1 .. Len(t) : c[Len(s) + i] = t[i]
  BY ConcatElements
<1>2. /\ Len(s) \in Nat /\ Len(t) \in Nat
      /\ DOMAIN s = 1 .. Len(s) /\ DOMAIN t = 1 .. Len(t) /\ DOMAIN c = 1 .. Len(s) + Len(t)
  BY <1>1, SeqShape
<1> HIDE DEF c
<1>3. ASSUME NEW i \in DOMAIN c
      PROVE  \/ i \in DOMAIN s /\ c[i] = s[i]
             \/ /\ i - Len(s) \in DOMAIN t /\ c[i] = t[i - Len(s)]
                /\ Len(s) + (i - Len(s)) = i
  <2>1. CASE i <= Len(s)
    BY <1>1, <1>2, <2>1
  <2>2. CASE ~(i <= Len(s))
    <3>1. i - Len(s) \in 1 .. Len(t) /\ Len(s) + (i - Len(s)) = i
      BY <1>2, <2>2
    <3>2. c[Len(s) + (i - Len(s))] = t[i - Len(s)]
      BY <1>1, <3>1
    <3> QED BY <1>2, <3>1, <3>2
  <2> QED BY <2>1, <2>2
<1>4. \A i \in DOMAIN s, j \in DOMAIN t : s[i] # t[j]
  BY DEF Sort!Elements
<1> SUFFICES ASSUME NEW i \in DOMAIN c, NEW j \in DOMAIN c, c[i] = c[j] PROVE i = j
  BY DEF Distinct, c
<1>5. CASE i \in DOMAIN s /\ c[i] = s[i]
  <2>1. j \in DOMAIN s /\ c[j] = s[j]
    BY <1>3, <1>4, <1>5
  <2> QED BY <1>5, <2>1 DEF Distinct
<1>6. CASE /\ i - Len(s) \in DOMAIN t /\ c[i] = t[i - Len(s)]
           /\ Len(s) + (i - Len(s)) = i
  <2>1. j - Len(s) \in DOMAIN t /\ c[j] = t[j - Len(s)] /\ Len(s) + (j - Len(s)) = j
    BY <1>3, <1>4, <1>6
  <2>2. i - Len(s) = j - Len(s)
    BY <1>6, <2>1 DEF Distinct
  <2> QED BY <1>6, <2>1, <2>2
<1> QED BY <1>3, <1>5, <1>6

LEMMA AppendElements ==
    ASSUME NEW T, NEW s \in Seq(T), NEW x \in T
    PROVE  /\ Append(s, x) \in Seq(T) /\ Len(Append(s, x)) = Len(s) + 1
           /\ \A i \in 1 .. Len(s) : Append(s, x)[i] = s[i]
           /\ Append(s, x)[Len(s) + 1] = x
           /\ Sort!Elements(Append(s, x)) = Sort!Elements(s) \cup {x}
           /\ Distinct(s) /\ x \notin Sort!Elements(s) => Distinct(Append(s, x))
<1> DEFINE a == Append(s, x)
<1>1. /\ a \in Seq(T) /\ Len(a) = Len(s) + 1
      /\ \A i \in 1 .. Len(s) : a[i] = s[i]
      /\ a[Len(s) + 1] = x
  BY AppendProperties
<1>2. Len(s) \in Nat /\ DOMAIN s = 1 .. Len(s) /\ DOMAIN a = 1 .. Len(s) + 1
  BY <1>1, SeqShape
<1>3. DOMAIN a = DOMAIN s \cup {Len(s) + 1}
  BY <1>2
<1> HIDE DEF a
<1>4. Sort!Elements(a) = Sort!Elements(s) \cup {x}
  BY <1>1, <1>2, <1>3 DEF Sort!Elements
<1>5. Distinct(s) /\ x \notin Sort!Elements(s) => Distinct(a)
  BY <1>1, <1>2, <1>3 DEF Sort!Elements, Distinct
<1> QED BY <1>1, <1>4, <1>5 DEF a

(* Popping the last element. *)
LEMMA PopElements ==
    ASSUME NEW T, NEW s \in Seq(T), s # << >>, Distinct(s)
    PROVE  LET rest == SubSeq(s, 1, Len(s) - 1)
               last == s[Len(s)]
           IN  /\ rest \in Seq(T) /\ last \in T /\ Distinct(rest)
               /\ Sort!Elements(s) = Sort!Elements(rest) \cup {last}
               /\ last \notin Sort!Elements(rest)
<1> DEFINE rest == SubSeq(s, 1, Len(s) - 1)
           last == s[Len(s)]
<1>1. Len(s) \in Nat /\ Len(s) >= 1 /\ DOMAIN s = 1 .. Len(s)
  BY SeqShape
<1>2. /\ rest \in Seq(T) /\ Len(rest) = Len(s) - 1
      /\ \A i \in 1 .. Len(s) - 1 : rest[i] = s[i]
  BY <1>1
<1>3. last \in T /\ DOMAIN rest = 1 .. Len(s) - 1 /\ DOMAIN s = DOMAIN rest \cup {Len(s)}
      /\ Len(s) \notin DOMAIN rest
  BY <1>1, <1>2, SeqShape
<1> HIDE DEF rest
<1>4. Sort!Elements(s) = Sort!Elements(rest) \cup {last}
  BY <1>2, <1>3 DEF Sort!Elements
<1>5. last \notin Sort!Elements(rest) /\ Distinct(rest)
  BY <1>2, <1>3 DEF Sort!Elements, Distinct
<1> QED BY <1>2, <1>3, <1>4, <1>5 DEF rest

LEMMA DistinctLength ==
    ASSUME NEW T, NEW s \in Seq(T), Distinct(s)
    PROVE  IsFiniteSet(Sort!Elements(s)) /\ Cardinality(Sort!Elements(s)) = Len(s)
<1> DEFINE E == Sort!Elements(s)
<1>1. Len(s) \in Nat /\ DOMAIN s = 1 .. Len(s)
  BY SeqShape
<1>2. s \in [1 .. Len(s) -> E]
  BY <1>1 DEF Sort!Elements
<1>3. s \in Bijection(1 .. Len(s), E)
  <2>1. \A i, j \in 1 .. Len(s) : s[i] = s[j] => i = j
    BY <1>1 DEF Distinct
  <2>2. \A x \in E : \E i \in 1 .. Len(s) : s[i] = x
    BY <1>1 DEF Sort!Elements
  <2> HIDE DEF E
  <2> QED BY <1>2, <2>1, <2>2, Fun_IsBij
<1>4. ExistsBijection(1 .. Len(s), E)
  BY <1>3 DEF ExistsBijection
<1>5. IsFiniteSet(1 .. Len(s)) /\ Cardinality(1 .. Len(s)) = Len(s)
  BY <1>1, FS_Interval
<1> QED BY <1>4, <1>5, FS_Bijection

(* A listing of a finite set has every element of it once. *)
LEMMA Listing ==
    ASSUME NEW S, IsFiniteSet(S), NEW s \in Sort!Listings(S)
    PROVE  s \in Seq(S) /\ Sort!Elements(s) = S /\ Distinct(s) /\ Len(s) = Cardinality(S)
<1>1. Cardinality(S) \in Nat
  BY FS_CardinalityType
<1>2. s \in [1 .. Cardinality(S) -> S] /\ Distinct(s)
  BY SortFiniteSets DEF Sort!Listings, Distinct
<1>3. s \in Seq(S) /\ Len(s) = Cardinality(S) /\ DOMAIN s = 1 .. Cardinality(S)
  BY <1>1, <1>2
<1>4. Sort!Elements(s) \in SUBSET S
  BY <1>3, SeqShape
<1>5. Cardinality(Sort!Elements(s)) = Cardinality(S)
  BY <1>2, <1>3, DistinctLength
<1>6. Sort!Elements(s) = S
  BY <1>4, <1>5, FS_Subset
<1> QED BY <1>2, <1>3, <1>6

-----------------------------------------------------------------------------
(* Kahn's algorithm: what is sorted, what is queued, and what a name still *)
(* waits for.                                                              *)
Done == Sort!Elements(sorted)
Queued == Sort!Elements(queue)

SortTyped ==
    /\ strict \in BOOLEAN
    /\ plugins \in SUBSET Node
    /\ deps \in [plugins -> SUBSET Node]

InOrder ==
    \A i \in DOMAIN sorted : \A d \in deps[sorted[i]] : \E j \in 1 .. i - 1 : sorted[j] = d

(* The in-degree counts the dependencies that are not sorted, and a name   *)
(* is sorted or queued exactly when there are none.                        *)
Kahn ==
    /\ queue \in Seq(plugins) /\ sorted \in Seq(plugins)
    /\ Distinct(queue) /\ Distinct(sorted) /\ Done \cap Queued = {}
    /\ degree \in [plugins -> Nat]
    /\ \A n \in plugins : degree[n] = Cardinality(deps[n] \ Done)
    /\ \A n \in plugins : n \in Done \cup Queued <=> deps[n] \subseteq Done
    /\ InOrder

SortInv ==
    /\ SortTyped
    /\ sortPc \in {"build", "missing", "sort", "done", "circular"}
    /\ sortPc \in {"build", "missing"} => sorted = << >>
    /\ sortPc = "sort" => Kahn
    /\ sortPc \in {"done", "circular"} => SortsOrRefuses

LEMMA FiniteDeps ==
    ASSUME SortTyped, NEW n \in plugins, NEW S
    PROVE  IsFiniteSet(deps[n] \ S)
<1>1. IsFiniteSet(Node)
  BY AlgorithmsAssumption, SortFiniteSets DEF Sort!NodeAssumption
<1>2. deps[n] \ S \in SUBSET Node
  BY DEF SortTyped
<1> QED BY <1>1, <1>2, FS_Subset

LEMMA FinitePlugins == ASSUME SortTyped, NEW S \in SUBSET plugins PROVE IsFiniteSet(S)
<1>1. IsFiniteSet(Node)
  BY AlgorithmsAssumption, SortFiniteSets DEF Sort!NodeAssumption
<1>2. S \in SUBSET Node
  BY DEF SortTyped
<1> QED BY <1>1, <1>2, FS_Subset

(* Names that are sorted before their turn would be needed could not be in *)
(* a set whose members all wait for one another.                           *)
LEMMA SortedNotStuck ==
    ASSUME SortTyped, sorted \in Seq(plugins), InOrder
    PROVE  Done \cap Sort!Stuck = {}
<1> SUFFICES ASSUME NEW i \in DOMAIN sorted, sorted[i] \in Sort!Stuck PROVE FALSE
  BY DEF Done, Sort!Elements
<1>1. PICK S \in SUBSET plugins : Sort!Waits(S) /\ sorted[i] \in S
  BY DEF Sort!Stuck
<1> DEFINE T == {k \in DOMAIN sorted : sorted[k] \in S}
<1>2. DOMAIN sorted = 1 .. Len(sorted) /\ Len(sorted) \in Nat
  BY SeqShape
<1>3. T \in SUBSET Nat /\ T # {}
  BY <1>1, <1>2
<1>4. PICK x \in T : \A y \in T : x <= y
  BY <1>3, Least
<1>5. PICK d \in deps[sorted[x]] : d \in S \/ d \notin plugins
  BY <1>1, <1>4 DEF Sort!Waits
<1>6. PICK j \in 1 .. x - 1 : sorted[j] = d
  BY <1>4, <1>5 DEF InOrder
<1>7. j \in DOMAIN sorted /\ x \in Nat /\ j < x
  BY <1>2, <1>4, <1>6
<1>8. d \in plugins
  BY <1>2, <1>6, <1>7
<1>9. j \in T
  BY <1>5, <1>6, <1>7, <1>8
<1> QED BY <1>4, <1>7, <1>9

(* What no dependency-free name is left of waits for itself.               *)
LEMMA UnsortedIsStuck ==
    ASSUME SortTyped, Kahn, queue = << >>
    PROVE  Sort!Unsorted = Sort!Stuck
<1>1. Queued = {}
  BY DEF Queued, Sort!Elements
<1>2. Sort!Unsorted = plugins \ Done
  BY DEF Sort!Unsorted, Done
<1>3. Sort!Waits(Sort!Unsorted)
  BY <1>1, <1>2 DEF Sort!Waits, Kahn
<1>4. Sort!Unsorted \subseteq Sort!Stuck
  BY <1>2, <1>3 DEF Sort!Stuck
<1>5. Sort!Stuck \subseteq plugins
  BY DEF Sort!Stuck
<1>6. Done \cap Sort!Stuck = {}
  BY SortedNotStuck DEF Kahn
<1> QED BY <1>2, <1>4, <1>5, <1>6

LEMMA SortInitInv == Sort!Init => SortInv
BY DEF Sort!Init, SortInv, SortTyped

LEMMA PrepareInv == ASSUME SortInv, Sort!Prepare PROVE SortInv'
<1>1. /\ sortPc = "build" /\ sortPc' = "sort" /\ sorted = << >>
      /\ degree' = Sort!InDegree
      /\ queue' \in Sort!Listings({n \in plugins : degree'[n] = 0})
      /\ UNCHANGED <<strict, plugins, deps, sorted>>
  BY DEF Sort!Prepare, SortInv
<1> DEFINE Free == {n \in plugins : degree'[n] = 0}
<1>2. SortTyped
  BY DEF SortInv
<1>3. \A n \in plugins : degree'[n] = Cardinality(deps[n]) /\ IsFiniteSet(deps[n])
  <2> SUFFICES ASSUME NEW n \in plugins
               PROVE  degree'[n] = Cardinality(deps[n]) /\ IsFiniteSet(deps[n])
    OBVIOUS
  <2>1. deps[n] \ {} = deps[n]
    OBVIOUS
  <2> QED BY <1>1, <1>2, <2>1, FiniteDeps, SortFiniteSets DEF Sort!InDegree
<1>4. Free = {n \in plugins : deps[n] = {}}
  BY <1>3, FS_EmptySet
<1>5. degree' \in [plugins -> Nat]
  BY <1>1, <1>3, FS_CardinalityType, SortFiniteSets DEF Sort!InDegree
<1>6. Done' = {} /\ sorted' \in Seq(plugins) /\ Distinct(sorted') /\ InOrder'
  BY <1>1 DEF Done, Sort!Elements, Distinct, InOrder
<1>7. queue' \in Seq(Free) /\ Queued' = Free /\ Distinct(queue')
  BY <1>1, <1>2, FinitePlugins, Listing DEF Queued
<1>8. queue' \in Seq(plugins)
  BY <1>7
<1>9. \A n \in plugins : degree'[n] = Cardinality(deps[n] \ Done')
  <2>1. \A n \in plugins : deps[n] \ Done' = deps[n]
    BY <1>6
  <2> QED BY <1>3, <2>1
<1>10. Kahn'
  BY <1>1, <1>4, <1>5, <1>6, <1>7, <1>8, <1>9 DEF Kahn
<1> QED BY <1>1, <1>2, <1>10 DEF SortInv, SortTyped

LEMMA PopInv == ASSUME SortInv, Sort!Pop PROVE SortInv'
<1> DEFINE node == queue[Len(queue)]
           rest == SubSeq(queue, 1, Len(queue) - 1)
<1>1. /\ sortPc = "sort" /\ sortPc' = "sort" /\ queue # << >>
      /\ sorted' = Append(sorted, node)
      /\ degree' = [n \in plugins |->
                       IF n \in Sort!Neighbors(node) THEN degree[n] - 1 ELSE degree[n]]
      /\ UNCHANGED <<strict, plugins, deps>>
  BY DEF Sort!Pop, SortInv
<1>2. PICK freed \in Sort!Listings(Sort!Freed(node)) : queue' = rest \o freed
  BY DEF Sort!Pop
<1>3. SortTyped /\ Kahn
  BY <1>1 DEF SortInv
<1>4. /\ rest \in Seq(plugins) /\ node \in plugins /\ Distinct(rest)
      /\ Queued = Sort!Elements(rest) \cup {node} /\ node \notin Sort!Elements(rest)
  BY <1>1, <1>3, PopElements DEF Kahn, Queued
<1> HIDE DEF node, rest
<1> DEFINE Rest == Sort!Elements(rest)
           Freed == Sort!Freed(node)
<1>5. node \notin Done /\ Rest \cap Done = {}
  BY <1>3, <1>4 DEF Kahn
<1>6. /\ sorted' \in Seq(plugins) /\ Len(sorted') = Len(sorted) + 1
      /\ \A i \in 1 .. Len(sorted) : sorted'[i] = sorted[i]
      /\ sorted'[Len(sorted) + 1] = node
      /\ Done' = Done \cup {node} /\ Distinct(sorted')
  BY <1>1, <1>3, <1>4, <1>5, AppendElements DEF Kahn, Done
<1>7. \A n \in plugins : n \in Sort!Neighbors(node) <=> node \in deps[n]
  BY DEF Sort!Neighbors
<1>8. ASSUME NEW n \in plugins
      PROVE  degree'[n] \in Nat /\ degree'[n] = Cardinality(deps[n] \ Done')
  <2>1. deps[n] \ Done' = (deps[n] \ Done) \ {node}
    BY <1>6
  <2>2. IsFiniteSet(deps[n] \ Done) /\ degree[n] = Cardinality(deps[n] \ Done) /\ degree[n] \in Nat
    BY <1>3, FiniteDeps DEF Kahn
  <2>3. Cardinality(deps[n] \ Done')
           = IF node \in deps[n] \ Done THEN degree[n] - 1 ELSE degree[n]
    BY <2>1, <2>2, FS_RemoveElement
  <2>4. node \in deps[n] \ Done <=> n \in Sort!Neighbors(node)
    BY <1>5, <1>7
  <2>5. degree'[n] = Cardinality(deps[n] \ Done')
    BY <1>1, <2>3, <2>4
  <2>6. IsFiniteSet(deps[n] \ Done')
    BY <1>3, FiniteDeps
  <2> QED BY <2>5, <2>6, FS_CardinalityType
<1>9. ASSUME NEW n \in plugins
      PROVE  n \in Freed <=> node \in deps[n] /\ deps[n] \subseteq Done'
  <2>1. IsFiniteSet(deps[n] \ Done') /\ degree[n] \in Nat
    BY <1>3, FiniteDeps DEF Kahn
  <2>2. degree'[n] = 0 <=> deps[n] \ Done' = {}
    BY <1>8, <2>1, FS_EmptySet
  <2>3. n \in Freed <=> node \in deps[n] /\ degree[n] = 1
    BY <1>7 DEF Sort!Freed
  <2>4. node \in deps[n] => degree'[n] = degree[n] - 1
    BY <1>1, <1>7
  <2> QED BY <2>1, <2>2, <2>3, <2>4
<1>10. /\ freed \in Seq(Freed) /\ Sort!Elements(freed) = Freed /\ Distinct(freed)
       /\ Freed \in SUBSET plugins
  <2>1. Freed \in SUBSET plugins
    BY DEF Sort!Freed, Sort!Neighbors
  <2> QED BY <1>2, <1>3, <2>1, FinitePlugins, Listing
<1>11. freed \in Seq(plugins)
  BY <1>10
<1>12. Freed \cap (Done \cup Queued) = {}
  <2> SUFFICES ASSUME NEW n \in Freed, n \in Done \cup Queued PROVE FALSE
    OBVIOUS
  <2>1. n \in plugins /\ node \in deps[n]
    BY <1>9, <1>10
  <2>2. deps[n] \subseteq Done
    BY <1>3, <2>1 DEF Kahn
  <2> QED BY <1>5, <2>1, <2>2
<1> HIDE DEF Freed, Rest
<1>13. queue' \in Seq(plugins) /\ Queued' = Rest \cup Freed
  BY <1>2, <1>4, <1>10, <1>11, ConcatElements DEF Queued, Rest
<1>14. Distinct(queue')
  <2>1. Rest \cap Freed = {}
    BY <1>4, <1>12 DEF Rest
  <2> QED BY <1>2, <1>4, <1>10, <1>11, <2>1, ConcatDistinct DEF Rest
<1>15. Done' \cap Queued' = {}
  BY <1>4, <1>5, <1>6, <1>12, <1>13 DEF Rest
<1>16. ASSUME NEW n \in plugins
       PROVE  n \in Done' \cup Queued' <=> deps[n] \subseteq Done'
  <2>1. n \in Done \cup Queued <=> deps[n] \subseteq Done
    BY <1>3 DEF Kahn
  <2>2. Done' \cup Queued' = (Done \cup Queued) \cup Freed
    BY <1>4, <1>6, <1>13 DEF Rest
  <2>3. deps[n] \subseteq Done' => node \in deps[n] \/ deps[n] \subseteq Done
    BY <1>6
  <2>4. deps[n] \subseteq Done => deps[n] \subseteq Done'
    BY <1>6
  <2> QED BY <1>9, <2>1, <2>2, <2>3, <2>4
<1>17. InOrder'
  <2>1. DOMAIN sorted' = 1 .. Len(sorted) + 1 /\ DOMAIN sorted = 1 .. Len(sorted) /\ Len(sorted) \in Nat
    BY <1>3, <1>6, SeqShape DEF Kahn
  <2> SUFFICES ASSUME NEW i \in 1 .. Len(sorted) + 1, NEW d \in deps[sorted'[i]]
               PROVE  \E j \in 1 .. i - 1 : sorted'[j] = d
    BY <1>1, <2>1 DEF InOrder
  <2>2. CASE i \in 1 .. Len(sorted)
    <3>1. d \in deps[sorted[i]]
      BY <1>6, <2>2
    <3>2. PICK j \in 1 .. i - 1 : sorted[j] = d
      BY <1>3, <2>1, <2>2, <3>1 DEF Kahn, InOrder
    <3>3. j \in 1 .. Len(sorted)
      BY <2>1, <2>2, <3>2
    <3> QED BY <1>6, <3>2, <3>3
  <2>3. CASE i = Len(sorted) + 1
    <3>1. d \in deps[node]
      BY <1>6, <2>3
    <3>2. node \in Queued
      BY <1>4
    <3>3. d \in Done
      BY <1>3, <1>4, <3>1, <3>2 DEF Kahn
    <3>4. PICK j \in 1 .. Len(sorted) : sorted[j] = d
      BY <2>1, <3>3 DEF Done, Sort!Elements
    <3>5. j \in 1 .. i - 1 /\ sorted'[j] = d
      BY <1>6, <2>1, <2>3, <3>4
    <3> QED BY <3>5
  <2> QED BY <2>1, <2>2, <2>3
<1>18. degree' \in [plugins -> Nat]
  BY <1>1, <1>8
<1>19. Kahn'
  BY <1>1, <1>6, <1>8, <1>13, <1>14, <1>15, <1>16, <1>17, <1>18 DEF Kahn
<1> QED BY <1>1, <1>3, <1>19 DEF SortInv, SortTyped

(* The registry's end: everything is sorted, or something is stuck.        *)
LEMMA FinishStrict ==
    ASSUME SortInv, Sort!Finish, strict PROVE SortsOrRefuses'
<1>1. /\ sortPc = "sort" /\ queue = << >> /\ SortTyped /\ Kahn
      /\ UNCHANGED <<strict, plugins, deps, sorted>>
      /\ sortPc' = IF Sort!Unsorted = {} THEN "done" ELSE "circular"
  BY DEF Sort!Finish, SortInv
<1>2. Sort!Unsorted = Sort!Stuck
  BY <1>1, UnsortedIsStuck
<1>3. Sort!Stuck' = Sort!Stuck
  BY <1>1 DEF Sort!Stuck, Sort!Waits
<1>4. Sort!DependenciesFirst'
  BY <1>1, <1>3 DEF Sort!DependenciesFirst, Kahn, InOrder
<1>5. CASE Sort!Unsorted = {}
  <2>1. Sort!Elements(sorted) = plugins
    <3>1. Sort!Elements(sorted) \subseteq plugins
      BY <1>1, SeqShape DEF Kahn
    <3> QED BY <1>5, <3>1 DEF Sort!Unsorted
  <2>2. Len(sorted) = Cardinality(plugins)
    BY <1>1, <2>1, DistinctLength DEF Kahn
  <2> QED BY <1>1, <1>2, <1>3, <1>4, <1>5, <2>1, <2>2, SortFiniteSets
          DEF SortsOrRefuses, Sort!ListedUnlessCyclic
<1>6. CASE Sort!Unsorted # {}
  BY <1>1, <1>2, <1>3, <1>4, <1>6 DEF SortsOrRefuses, Sort!ListedUnlessCyclic
<1> QED BY <1>5, <1>6

(* The manager's end: what is stuck is appended.                           *)
LEMMA FinishLenient ==
    ASSUME SortInv, Sort!Finish, ~strict PROVE SortsOrRefuses'
<1>1. /\ sortPc = "sort" /\ queue = << >> /\ SortTyped /\ Kahn
      /\ UNCHANGED <<strict, plugins, deps>> /\ sortPc' = "done"
  BY DEF Sort!Finish, SortInv
<1>2. PICK rest \in Sort!Listings(Sort!Unsorted) : sorted' = sorted \o rest
  BY DEF Sort!Finish
<1>3. Sort!Unsorted = Sort!Stuck /\ Sort!Unsorted \in SUBSET plugins
  BY <1>1, UnsortedIsStuck DEF Sort!Unsorted
<1>4. Sort!Stuck' = Sort!Stuck
  BY <1>1 DEF Sort!Stuck, Sort!Waits
<1>5. /\ rest \in Seq(Sort!Unsorted) /\ Sort!Elements(rest) = Sort!Unsorted
      /\ Len(rest) = Cardinality(Sort!Unsorted) /\ Distinct(rest)
  BY <1>1, <1>2, <1>3, FinitePlugins, Listing
<1>6. rest \in Seq(plugins) /\ sorted \in Seq(plugins) /\ Distinct(sorted)
  BY <1>1, <1>3, <1>5 DEF Kahn
<1>7. Done \subseteq plugins /\ Done = Sort!Elements(sorted)
  BY <1>6, SeqShape DEF Done
<1>8. Sort!Unsorted = plugins \ Done
  BY <1>7 DEF Sort!Unsorted
<1>9. /\ sorted' \in Seq(plugins) /\ Sort!Elements(sorted') = plugins
      /\ Len(sorted') = Len(sorted) + Len(rest)
      /\ \A i \in 1 .. Len(sorted) : sorted'[i] = sorted[i]
      /\ \A i \in 1 .. Len(rest) : sorted'[Len(sorted) + i] = rest[i]
  <2> DEFINE c == sorted \o rest
  <2>1. /\ c \in Seq(plugins) /\ Len(c) = Len(sorted) + Len(rest)
        /\ Sort!Elements(c) = Sort!Elements(sorted) \cup Sort!Elements(rest)
        /\ \A i \in 1 .. Len(sorted) : c[i] = sorted[i]
        /\ \A i \in 1 .. Len(rest) : c[Len(sorted) + i] = rest[i]
    BY <1>6, ConcatElements
  <2>2. sorted' = c
    BY <1>2
  <2> HIDE DEF c
  <2>3. Sort!Elements(c) = plugins
    BY <1>5, <1>7, <1>8, <2>1
  <2> QED BY <2>1, <2>2, <2>3
<1>10. Distinct(sorted')
  BY <1>2, <1>5, <1>6, <1>7, <1>8, ConcatDistinct
<1>11. Len(sorted') = Cardinality(plugins)
  BY <1>9, <1>10, DistinctLength
<1>12. /\ Len(sorted) \in Nat /\ Len(rest) \in Nat /\ DOMAIN sorted = 1 .. Len(sorted)
       /\ DOMAIN rest = 1 .. Len(rest) /\ DOMAIN sorted' = 1 .. Len(sorted) + Len(rest)
  BY <1>6, <1>9, SeqShape
<1>13. ASSUME NEW i \in DOMAIN sorted'
       PROVE  \/ i \in 1 .. Len(sorted) /\ sorted'[i] = sorted[i] /\ sorted'[i] \notin Sort!Stuck
              \/ i > Len(sorted) /\ sorted'[i] \in Sort!Stuck
  <2>1. CASE i \in 1 .. Len(sorted)
    <3>1. sorted[i] \in Done
      BY <1>12, <2>1 DEF Done, Sort!Elements
    <3>2. Done \cap Sort!Stuck = {}
      BY <1>3, <1>8
    <3> QED BY <1>9, <2>1, <3>1, <3>2
  <2>2. CASE ~(i \in 1 .. Len(sorted))
    <3>1. i - Len(sorted) \in 1 .. Len(rest) /\ Len(sorted) + (i - Len(sorted)) = i /\ i > Len(sorted)
      BY <1>12, <2>2
    <3>2. sorted'[i] = rest[i - Len(sorted)]
      BY <1>9, <3>1
    <3>3. rest[i - Len(sorted)] \in Sort!Unsorted
      BY <1>5, <1>12, <3>1
    <3> QED BY <1>3, <3>1, <3>2, <3>3
  <2> QED BY <2>1, <2>2
<1>14. Sort!DependenciesFirst'
  <2> SUFFICES ASSUME NEW i \in DOMAIN sorted', sorted'[i] \notin Sort!Stuck,
                      NEW d \in deps[sorted'[i]]
               PROVE  \E j \in 1 .. i - 1 : sorted'[j] = d
    BY <1>1, <1>4 DEF Sort!DependenciesFirst
  <2>1. i \in 1 .. Len(sorted) /\ sorted'[i] = sorted[i]
    BY <1>13
  <2>2. PICK j \in 1 .. i - 1 : sorted[j] = d
    BY <1>1, <1>12, <2>1 DEF Kahn, InOrder
  <2>3. j \in 1 .. Len(sorted)
    BY <1>12, <2>1, <2>2
  <2> QED BY <1>9, <2>2, <2>3
<1>15. ASSUME NEW i \in DOMAIN sorted', NEW j \in DOMAIN sorted',
              sorted'[i] \in Sort!Stuck, i < j
       PROVE  sorted'[j] \in Sort!Stuck
  <2>1. i > Len(sorted)
    BY <1>13, <1>15
  <2>2. ~(j \in 1 .. Len(sorted))
    BY <1>12, <1>15, <2>1
  <2> QED BY <1>13, <2>2
<1> QED BY <1>1, <1>4, <1>9, <1>11, <1>14, <1>15, SortFiniteSets
        DEF SortsOrRefuses, Sort!ListedUnlessCyclic

LEMMA SortNextInv == SortInv /\ [Sort!Next]_(Sort!vars) => SortInv'
<1> SUFFICES ASSUME SortInv, [Sort!Next]_(Sort!vars) PROVE SortInv'
  OBVIOUS
<1>1. CASE Sort!RefuseMissing
  BY <1>1 DEF Sort!RefuseMissing, SortInv, SortTyped
<1>2. CASE Sort!Finish
  <2>1. /\ sortPc' \in {"done", "circular"}
        /\ UNCHANGED <<strict, plugins, deps>>
    BY <1>2 DEF Sort!Finish
  <2>2. SortTyped'
    BY <2>1 DEF SortInv, SortTyped
  <2>3. SortsOrRefuses'
    <3>1. CASE strict
      BY <1>2, <3>1, FinishStrict
    <3>2. CASE ~strict
      BY <1>2, <3>2, FinishLenient
    <3> QED BY <3>1, <3>2
  <2> QED BY <2>1, <2>2, <2>3 DEF SortInv
<1>3. CASE UNCHANGED Sort!vars
  BY <1>3 DEF Sort!vars, SortInv, SortTyped, Kahn, InOrder, Done, Queued, SortsOrRefuses,
     Sort!DependenciesFirst, Sort!ListedUnlessCyclic, Sort!Stuck, Sort!Waits
<1> QED BY <1>1, <1>2, <1>3, PrepareInv, PopInv DEF Sort!Next

LEMMA SortsOrRefusesHolds == ASSUME SortInv PROVE SortsOrRefuses
<1>1. CASE sortPc \in {"build", "missing"}
  BY <1>1 DEF SortInv, SortsOrRefuses, Sort!DependenciesFirst, Sort!ListedUnlessCyclic
<1>2. CASE sortPc = "sort"
  BY <1>2 DEF SortInv, Kahn, InOrder, SortsOrRefuses, Sort!DependenciesFirst,
              Sort!ListedUnlessCyclic
<1> QED BY <1>1, <1>2 DEF SortInv

(* Whatever the plugins declare and the maps' order is: a plugin that can  *)
(* be sorted comes after its dependencies, and none is forgotten unless a  *)
(* cycle is refused.                                                       *)
THEOREM PluginsSorted == Sort!Spec => []SortsOrRefuses
<1>1. SortInv => SortsOrRefuses
  BY SortsOrRefusesHolds
<1> QED BY SortInitInv, SortNextInv, <1>1, PTL DEF Sort!Spec
=============================================================================
