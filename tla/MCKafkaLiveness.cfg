SPECIFICATION FairSpec
CONSTANTS
    Messages = {m1}
    Replicas = {r1, r2}
    NoReplica = NoReplica
    NoAttempt = NoAttempt
    ProducerAttempts <- MCProducerAttempts
    RequestKinds <- MCRequestKinds
    SenderCodes <- MCSenderCodes
    MaxAttempts = 2
    MaxBatch = 2
    RebalanceTimeout = 1
    PermanentErrors = FALSE
    MaxUpsets = 1
PROPERTIES
    EventuallySettled
CHECK_DEADLOCK FALSE
