CONSTANTS
    Inputs <- MCInputs
    Days = 3
    MAX_EXCEPTION_DAYS = 2
    Targets = {main, image}
    Keys = {k1, k2, spaced}
    Spaced = {spaced}
    ListLimit = 3
    MaxIssues = 4
    MaxChanges = 3
    MaxByHand = 1
    MaxFaults = 2
SPECIFICATION MCSpec
CHECK_DEADLOCK FALSE
INVARIANTS FindingsAreTheGroups PassedIsExplained
PROPERTIES IssuesSettle
