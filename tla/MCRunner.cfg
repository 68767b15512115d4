CONSTANTS
  Streams <- MCStreams
  Plans <- MCPlans
  MaxChunks = 2
  PipeSize = 1
  Faults = {"spawn", "create", "disk", "rm"}
  NoReport = NoReport
  Requests = {"c1"}
  NoOne = NoOne
SPECIFICATION FairAttemptSpec
INVARIANTS TypeOK AttemptTypeOK LogsComplete OnlyHandlerDeadlocks ReleasesTakeTurns HandledMeansOver
PROPERTIES ExitCodeTruthful RunEnds AttemptEnds ContractSpec AttemptIsOfSystem
CHECK_DEADLOCK FALSE
