SPECIFICATION Spec
CONSTANTS
    Spelling <- Spellings
    Registration = "register"
    Managements = {"read"}
    Offer <- Specifications4
    Tabs = {t1, t2}
    DraftIds = {d1, d2, d3}
    Values = {"x"}
    Scopes <- ScopeForms
    Documents <- NoDocuments
    Findings <- Nowhere
    Pages = {"boundary", "scope"}
    MaxDrafts = 2
    MaxSaves = 4
SYMMETRY Symmetries
INVARIANT ScopeBelongsToTheBoundary
CHECK_DEADLOCK FALSE
