SPECIFICATION OutputSpec
CONSTANTS
    None = None
    MaxEntries = 5
    HandleCount = 2
    Inputs <- MCInputs
    Hierarchies <- MCHierarchies
    Scales <- MCScales
    NameOrder <- MCNameOrder
    FstNames = {"a", "b"}
INVARIANTS CreatedIfWritable FstDeclares DeclarationsKept AnnotationsKeptIfClosed
CHECK_DEADLOCK FALSE
