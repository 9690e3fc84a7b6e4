\* Three windows are enough for the root to lose its is_root flag.
CONSTANTS
    w1 = w1
    w2 = w2
    w3 = w3
    Windows = {w1, w2, w3}
    NoWindow = NoWindow
    MaxLeaves = 4
    Areas <- MCAreas
    Gaps = {0, 2}
    MaxUnarranged = 2
    NoRoom = NoRoom
    Rooms <- MCRooms
SPECIFICATION PSpec
INVARIANTS RootNeverFreed
CHECK_DEADLOCK FALSE
