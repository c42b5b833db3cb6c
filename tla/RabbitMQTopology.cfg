SPECIFICATION Spec
CONSTANTS
    MaxDuration = 1000
    Millisecond = 2
    Second = 4
    Minute = 12
    Hour = 24
    MaxAttemptsBound = 4
    DelayValues = {1, 3, 4, 6, 12, 13, 24, 25}
    MaxDeploys = 2
INVARIANTS
    WaitsAsLongAsThePolicySays
    RedeployNeverConflicts
