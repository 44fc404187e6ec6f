SPECIFICATION Spec
CONSTANTS
  w1 = w1
  w2 = w2
  Worker = {w1, w2}
  NoWorker = NoWorker
  Trace <- MCTrace
  MaxTraces = 2
  MaxFaults = 2
INVARIANTS
  TypeOK
  CommittedWereAttempted
  AttemptedInOrder
  AtMostOncePerAssignment
  DuplicatesNeedFaults
PROPERTIES
  CommitsMoveForward
  EveryTraceCommitted
  LedgerSpec
