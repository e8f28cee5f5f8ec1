SPECIFICATION Spec
CONSTANTS
    Spelling <- Spellings
    Registration = "register"
    Managements = {"read"}
    Offer <- TwoSpecifications
    Tabs = {t1}
    DraftIds = {d1, d2}
    Values = {"x", "y"}
    Scopes <- SmallScopes
    Documents <- ImportDocuments
    Findings <- Found
    Pages = {"boundary", "scope", "discovery", "security", "business", "runtime", "launch"}
    MaxDrafts = 2
    MaxSaves = 6
SYMMETRY Symmetries
PROPERTY PagesKeepToThemselves SavedAsShownKeepsThePlan AcceptedRegistrationsRun ImportKeepsThePlan
CONSTRAINT SideTripsAreShort
CHECK_DEADLOCK FALSE
