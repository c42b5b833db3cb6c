SPECIFICATION FairSpec
CONSTANTS
    Messages = {m1}
    Replicas = {r1, r2}
    Copies = {c1, c2, c3, c4}
    NoCopy = NoCopy
    NoMessage = NoMessage
    NoAttempt = NoAttempt
    ProducerAttempts <- MCProducerAttempts
    RequestKinds <- MCRequestKinds
    SenderCodes <- MCSenderCodes
    MaxAttempts = 2
    MaxUpsets = 1
INVARIANTS
    TypeOK
    NeverLost
    NoDuplicateSend
    AttemptsBounded
    CallbackIsFinal
PROPERTIES
    KeepsContract
    EventuallySettled
CHECK_DEADLOCK FALSE
