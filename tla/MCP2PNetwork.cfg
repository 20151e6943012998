SPECIFICATION FairSpec
CONSTANTS
    PeerIds = {p1, p2}
    Broadcasters = {"b1", "b2"}
    CounterSize = 2
    MaxQueue = 2
    MaxTrespasses = 1
INVARIANTS TypeOK DeliveredToAll CrashIsOwnOrUnlocked
PROPERTY HolderReleases
CHECK_DEADLOCK FALSE
