SPECIFICATION MCSpec
CONSTANTS
  t1 = t1
  Task = {t1}
  w1 = w1
  Worker = {w1}
  NoWorker = NoWorker
  Absent = Absent
  Action <- MCAction
  Environment <- MCEnvironment
  AttrValue <- MCAttrValue
  Resource <- MCResource
  Result <- MCResult
  Offered <- MCOffered
  MaxCrashes = 1
  MaxTraces = 2
  MaxFaults = 1
INVARIANTS
  PermissionIsDurable
CHECK_DEADLOCK FALSE
