SPECIFICATION Spec
CONSTANTS
    MaxInFlight = 1
    MaxDrops = 1
INVARIANT
    RabbitReadyIsOpen
CHECK_DEADLOCK FALSE
