CONSTANTS
  Streams <- MCStreams
  Plans <- MCPlans
  MaxChunks = 1
  PipeSize = 1
  Faults = {}
  NoReport = NoReport
SPECIFICATION Spec
INVARIANT NothingLeftBehind
CHECK_DEADLOCK FALSE
