SPECIFICATION PlannedSpec
CONSTANTS
  MaxReaders = 2
  BatchSize = 2
  ChannelBound = 1
  Start = 1
  Ends <- MCEnds
  Include <- FilteredHandle1
  VcdReaders = {2}
  Inputs <- MCInputs
  FailureSets <- AllFailures
INVARIANTS WindowComplete SentInOrder
PROPERTY Implements
