SPECIFICATION FairSpec
CONSTANTS
    Users = {"u1", "u2"}
    Levels <- MCLevels
    MaxMessages = 2
    MaxSpurious = 1
    MaxStarts = 2
INVARIANTS TypeOK NothingLostOrReordered OneInstance
PROPERTIES EveryMessageWritten StopReturns
CHECK_DEADLOCK FALSE
