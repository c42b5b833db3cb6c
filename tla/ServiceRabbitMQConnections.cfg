SPECIFICATION Spec
CONSTANTS
    MaxInFlight = 1
    MaxDrops = 1
INVARIANT
    NoConnectionIsLeft
CHECK_DEADLOCK FALSE
