CONSTANTS
    Steps = {1, 2, 3, 4}
    Versions = {"v1", "v2"}
    Jobs <- MCJobs
    Workers = {w1, w2}
    Callback = callback
    MaxRuns = 2
    MaxEvents = 2
    MaxCrashes = 1
    MaxInvocations = 2
SPECIFICATION MCSpec
SYMMETRY MCSymmetry
CHECK_DEADLOCK FALSE
INVARIANTS
    ReportsValidate
    GateAgrees
    LogFileIsWhole
    ArtifactsAgree
    ExitTells
