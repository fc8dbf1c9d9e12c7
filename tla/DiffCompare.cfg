SPECIFICATION Spec
CONSTANTS
  Handles1 = {1, 2}
  Handles2 = {1, 2}
  SignalMap2 = {1, 2}
  Values = {0, 1}
  NoValue = NoValue
  Mapping <- AliasMapping
  Close <- Equal
  ChannelBound = 1
  Inputs <- MCInputs
  FailureSets = {{}, {1}, {2}}
  WriterMayFail = TRUE
INVARIANTS TypeOK ErrorNeverHidden NothingLost SameIsSound RowsTrue
PROPERTIES Implements Termination
