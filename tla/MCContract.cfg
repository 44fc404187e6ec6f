SPECIFICATION Spec
CONSTANTS
  Bodies <- MCBodies
  Records <- MCRecords
INVARIANTS
  EmittedEventsValidate
  CheckIsConformance
  SkippedOnlyForGaps
  ChainKeepsIds
CHECK_DEADLOCK FALSE
