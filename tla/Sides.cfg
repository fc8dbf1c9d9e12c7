SPECIFICATION SidesSpec
CONSTANTS
    t = t
    u = u
    a = a
    b = b
    bTight = bTight
    Q = Q
    wire = wire
    real = real
    in = in
    out = out
    Implicit = Implicit
    None = None
    All = All
    Inputs <- MCInputs
    FlatName <- DisplayedName
    FirstSides <- MCFirstSides
INVARIANTS MergedFaithful RefusedIffShared SelectionExact MappingExact
    MetaExact MismatchReported
CHECK_DEADLOCK FALSE
