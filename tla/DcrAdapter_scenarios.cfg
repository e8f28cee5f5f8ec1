SPECIFICATION Spec
CONSTANTS
    Contract <- MCContract
    Windows <- MCWindows
    Selections <- MCSelections
    Configurations <- MCConfigurations
    Discoveries <- MCDiscoveries
    FileFaults = {"gone", "garbled"}
INVARIANTS
    DependentsAreSkipped
    NothingIsStale
    ManagementStaysInTheScenario
    LeftoversAreExplained
