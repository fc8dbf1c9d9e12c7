SPECIFICATION Spec
CONSTANTS
  Handles1 = {1, 2}
  Handles2 = {1, 2}
  SignalMap2 = {1, 2}
  Values = {0, 1}
  NoValue = NoValue
  Mapping <- Direct
  Close <- Equal
  ChannelBound = 1
  Inputs <- SelfInputs
  FailureSets = {{}}
  WriterMayFail = FALSE
INVARIANT SelfDiffIsSame
