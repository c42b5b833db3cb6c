SPECIFICATION Spec
CONSTANTS
    Messages = {m1, m2}
    Replicas = {r1, r2}
    NoReplica = NoReplica
    NoAttempt = NoAttempt
    ProducerAttempts <- MCNoHeader
    RequestKinds <- MCPlain
    SenderCodes <- MCTemporaryOnly
    MaxAttempts = 2
    MaxBatch = 2
    RebalanceTimeout = 3
    PermanentErrors = TRUE
    MaxUpsets = 1
INVARIANT
    OnlyResolvedCommitted
CHECK_DEADLOCK FALSE
