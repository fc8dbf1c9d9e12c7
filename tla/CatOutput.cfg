SPECIFICATION PrintSpec
CONSTANTS
    Nil = Nil
    Changes <- MCChanges
    Names <- MCNames
    Start = 1
    End = 2
    MaxLines = 6
INVARIANTS PrintsWanted
CHECK_DEADLOCK FALSE
