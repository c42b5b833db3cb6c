SPECIFICATION ClientSpec
CONSTANTS
    Producers = {p1}
    Kinds <- MCKinds
    SenderCodes = {"api_connection_failed", "api_rate_limited", "smtp_message_rejected"}
    MaxCalls = 3
    MaxCrashes = 1
    Callers = {c1, c2}
    NoCaller = NoCaller
    Connections = {k1, k2}
    NoConnection = NoConnection
    MaxQueueCalls = 2
    MaxFaults = 2
INVARIANTS
    AnswerIsTrue
    SentTwiceOnlyAfterSilence
    StatusIsTrue
    HandedOverIsTaken
    QueuedTwiceOnlyAfterSilence
    NoConnectionIsForgotten
PROPERTIES
    EveryCallReturns
CHECK_DEADLOCK FALSE
