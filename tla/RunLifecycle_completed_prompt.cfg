\* A transport error after an answered PSU step.
CONSTANTS
    MaxRuns = 1
    NoRun = NoRun
    MaxTerminalRecords = 1
    PlanLength = 2
    States = {s1}
    MaxSessionsPerRun = 1
    Clients = {}
    NoState = NoState
    ThreadsExhaustible = FALSE
SPECIFICATION Spec
CHECK_DEADLOCK FALSE
PROPERTIES
    CompletedPromptKeptUntilTheEnd
