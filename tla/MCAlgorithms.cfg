SPECIFICATION MCSpec
CONSTANTS
    RoomCount = {2, 3, 4, 5, 6}
    CriticalLength = {2, 3, 4}
    BranchCount = {0, 1, 2, 3}
    Width = {4, 17}
    Height = {4, 9}
    MaxHeight = 9
    Corridor = 1
    Columns = 6
    Rows = 4
    MaxDoors = 3
    Spacings = {1, 3}
    MaxCount = 2
    Entrance = 2
    MaxObstacles = 1
    Node = {p1, p2, p3, p4}
SYMMETRY Symmetric
CHECK_DEADLOCK FALSE
INVARIANTS RoomsApart EveryRoomPlaced DoorsOffCorners DoorsConnected SampledIsValid SortsOrRefuses
