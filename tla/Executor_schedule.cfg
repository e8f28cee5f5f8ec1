\* Five steps, three groups on two workers, every thread fairly scheduled.
CONSTANTS
    ManifestLength = 5
    g1 = g1
    g2 = g2
    g3 = g3
    t1 = t1
    Groups = {g1, g2, g3}
    Setup = Setup
    Tokens = {t1}
    NoToken = NoToken
    MaxWorkers = 2
    CheckedPlans <- MCPlans
SPECIFICATION FairSpec
INVARIANTS
    GroupsAreIsolated
    SkipsAreExplained
    ServiceIsSeenWhole
PROPERTIES
    RunEnds
    ImplementsOrderedExecution
