SPECIFICATION DevSpec
CONSTANTS
    Panels = {a1, a2}
    Partitions = {p1, p2}
    PeekLimit = 1
    MaxLetters = 2
    BenchEmails = {e1, e2}
    Operators = {o1}
    BenchForms <- MCForms
    TriggerChoices <- MCTriggers
    BenchAttempts = 3
    MaxFailNext = 3
    MaxChanges = 2
SYMMETRY Symmetry
INVARIANTS
    CountIsPlausible
    PurgeLeavesOnlyHeldLetters
    WaitsOnlyForLetters
    ScenarioTable
    ResetStopsInjection
CHECK_DEADLOCK FALSE
