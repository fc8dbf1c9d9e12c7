SPECIFICATION Spec
CONSTANTS
  NReaders = 3
  ChannelBound = 1
  Inputs <- AllInputs
  FailureSets <- AllFailures
  StopsOnClosed = {1, 3}
  OnChangeMayFail = TRUE
INVARIANTS MergeSorted NothingDropped FailureReturned
PROPERTY Termination
