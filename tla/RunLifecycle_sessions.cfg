\* Two runs of two steps, two concurrent registrations, two state tokens.
CONSTANTS
    MaxRuns = 2
    NoRun = NoRun
    MaxTerminalRecords = 0
    PlanLength = 2
    States = {s1, s2}
    MaxSessionsPerRun = 2
    Clients = {c1, c2}
    NoState = NoState
    ThreadsExhaustible = TRUE
SPECIFICATION Spec
SYMMETRY Symmetry
CHECK_DEADLOCK FALSE
INVARIANTS
    NoOrphanSession
    AwaitedSessionIsKept
    PendingPromptIsLive
PROPERTIES
    AnswerIsOneShot
