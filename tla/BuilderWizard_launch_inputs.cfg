SPECIFICATION Spec
CONSTANTS
    Spelling <- Spellings
    Registration = "register"
    Managements = {"read"}
    Offer <- OneSpecification
    Tabs = {t1}
    DraftIds = {d1}
    Values = {"x", "y"}
    Scopes <- SmallScopes
    Documents <- NoDocuments
    Findings <- Found
    Pages = {"boundary", "scope", "discovery", "security", "business", "runtime", "launch"}
    MaxDrafts = 1
    MaxSaves = 7
INVARIANT LaunchUsesTheReviewedInputs
CHECK_DEADLOCK FALSE
