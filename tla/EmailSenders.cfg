SPECIFICATION SendersSpec
CONSTANTS
    MaxAttempts = 3
    MaxReceivers = 2
    MaxCopies = 1
    Senders = {s1, s2}
    NoSender = NoSender
    ExpiresIn = 2
    Margin = 1
    Timeout = 1
    MaxAttachments = 1
    MaxSends = 3
    MaxClock = 2
    MaxRevoked = 1
INVARIANTS
    TakenAtMostOnce
    TakenForEveryone
    TakenOnceUnlessLost
    RetriedIfPassing
    RejectedTokenIsGone
PROPERTIES
    LifeLeftAtHandOut
    EverySendReturns
CHECK_DEADLOCK FALSE
