\* Two runs, one registration request, every thread fairly scheduled; the
\* record of the first run is forgotten when the second starts.
CONSTANTS
    MaxRuns = 2
    NoRun = NoRun
    MaxTerminalRecords = 0
    PlanLength = 1
    States = {s1}
    MaxSessionsPerRun = 1
    Clients = {c1}
    NoState = NoState
    ThreadsExhaustible = FALSE
SPECIFICATION FairSpec
CHECK_DEADLOCK FALSE
PROPERTIES
    RunsTerminate
    SessionsAreDropped
    ImplementsService
