SPECIFICATION Spec
CONSTANTS
    s = s
    x = x
    y = y
    T = T
    None = None
    MaxEntries = 5
    FstEntries <- MCFstEntries
    VcdEntries <- MCVcdEntries
    Names <- MCNames
INVARIANTS TypeOK AsDeclared ConflictReported TreeLinked RoundTrip
CHECK_DEADLOCK FALSE
