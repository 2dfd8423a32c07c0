SPECIFICATION Spec
CHECK_DEADLOCK FALSE
CONSTANTS
    a = a
    b = b
    c = c
    x = x
    None = None
    Items <- MCItems
    Stubs <- MCStubs
    FailOnEmptyShould = TRUE
    Kinds = {"layered", "onion", "monolith", "slices", "diagram", "transitive"}
    Settings <- MCSettings
    Considering <- MCConsidering
    Definitions <- MCDefinitions
    Allowed <- MCAllowed
    IgnoredSets <- MCIgnoredSets
    IgnoredItems <- MCIgnoredItems
    Patterns <- MCPatterns
    Namings <- MCNamings
    ThroughItems <- MCThroughItems
    SlicePredicates <- MCSlicePredicates
    Lines <- MCLines
    Resides <- MCResides
    TransitiveRules <- MCTransitiveRules
    Programs <- MCPrograms
    CheckedSets <- MCCheckedSets
    MaxTopics = 4
    MaxLines = 4
INVARIANTS
    VerdictIsWhatWasSaid
    OnionIsolates
    ConstraintsAreDual
    SlicesAgree
    DiagramIsDrawn
    ForbiddenPathIsReported
