SPECIFICATION Spec
CONSTANTS
    Messages = {m1, m2}
    Replicas = {r1, r2}
    NoReplica = NoReplica
    NoAttempt = NoAttempt
    ProducerAttempts <- MCNoHeader
    RequestKinds <- MCPlain
    SenderCodes <- MCTemporaryOnly
    MaxAttempts = 2
    MaxBatch = 2
    RebalanceTimeout = 1
    PermanentErrors = TRUE
    MaxUpsets = 1
SYMMETRY Symmetry
INVARIANTS
    ResolvedUnlessRefused
    TwoMembersOnlyAfterEviction
    LostOnlyAfterRefusal
    NoDuplicateSend
PROPERTIES
    CommitMonotone
    KeepsContract
CHECK_DEADLOCK FALSE
