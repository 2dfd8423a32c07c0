SPECIFICATION Spec
CHECK_DEADLOCK FALSE
CONSTANTS
    None = None
    ExternPrelude <- MCExternPrelude
    StdPrelude <- MCStdPrelude
    Primitives <- MCPrimitives
    StdDerives <- MCStdDerives
    BuiltinAttributes <- MCBuiltinAttributes
    StdErrors <- MCStdErrors
    StdTraitMethodNames <- MCStdTraitMethodNames
    Programs <- MCPrograms
    Text <- MCText
INVARIANTS
    UsesFindTheirItems
    DependenciesAreTheMentions
