\* Every sequence of maps, unmaps, closes, moves and departures of three
\* windows whose tree has at most four leaves, two while it is not arranged.
CONSTANTS
    w1 = w1
    w2 = w2
    w3 = w3
    Windows = {w1, w2, w3}
    NoWindow = NoWindow
    MaxLeaves = 4
    Areas <- MCAreas
    Gaps = {0, 2}
    MaxUnarranged = 2
    NoRoom = NoRoom
    Rooms <- MCRooms
SYMMETRY Symmetry
SPECIFICATION PSpec
INVARIANTS WellFormedTree TilesPartition DirectionFindsNearest
PROPERTIES OthersKeepOrder ImplementsTileSet
\* The process is gone once the allocator has aborted it.
CHECK_DEADLOCK FALSE
