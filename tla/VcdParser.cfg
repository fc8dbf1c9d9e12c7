SPECIFICATION WriterSpec
CONSTANTS
    None = None
    Forms <- MCForms
    MaxToken = 2
    MaxWritten = 2
    Given <- MCGiven
    Added <- MCAdded
    IdChars <- MCIdChars
    MaxId = 100
    Overflow = Overflow
INVARIANTS LineExact ParsedByTokens WrittenIsRead
CHECK_DEADLOCK FALSE
