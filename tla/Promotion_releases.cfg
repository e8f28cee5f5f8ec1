CONSTANTS
    MVP_RELEASE = 2
    Candidates <- MCCandidates
    Manual <- MCManual
    StrayTags <- MCStrays
    Runs = {r1, r2, r3}
    MaxReruns = 1
SPECIFICATION Spec
SYMMETRY RunsMayBeExchanged
CHECK_DEADLOCK FALSE
INVARIANTS PointerCoversFinishedBetas ReleasesFollowPublication
PROPERTIES PublishedVersionsAreImmutable
