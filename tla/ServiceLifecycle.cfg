SPECIFICATION FairSpec
CONSTANTS
    MaxInFlight = 2
    MaxDrops = 2
INVARIANTS
    NothingIsCutOff
    NotReadyUnconnected
PROPERTIES
    EveryoneStops
    LossIsNoticed
    StartsWhenComplete
CHECK_DEADLOCK FALSE
