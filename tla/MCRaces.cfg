CONSTANTS
  j1 = j1
  j2 = j2
  j3 = j3
  g1 = g1
  g2 = g2
  NoRun = NoRun
  Jobs = {j1, j2}
  Gpus = {g1, g2}
  Workers = {w1, w2}
  Clients = {c1}
  Queues = {"default"}
  Need <- MCNeed
  Orders <- MCOrders
  QueueOf <- MCQueueOf
  ListensOn <- MCListensOn
  MaxAttempts = 1
  AdminStatuses = {}
  Faults = {"push", "crash", "raise"}
SPECIFICATION Spec
INVARIANTS TypeOK SingleDispatch OutcomeIsReal WorkerRowTruthful GpuLedger TerminalRunsReleased FinishedJobIsOver
PROPERTIES ExecutedOnce
SYMMETRY MCSymmetry
