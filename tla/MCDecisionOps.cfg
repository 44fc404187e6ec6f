SPECIFICATION MCSpec
CONSTANTS
  c1 = c1
  c2 = c2
  w1 = w1
  Call = {c1, c2}
  Corr = {}
  NoCorr = NoCorr
  Absent = Absent
  Action <- MCAction
  Environment <- MCEnvironment
  AttrValue <- MCAttrValue
  Asked <- MCAsked
  MaxCrashes = 1
  Worker = {w1}
  NoWorker = NoWorker
  MaxTraces = 2
  MaxFaults = 1
INVARIANTS
  NoActionWithoutDecision
  EvidenceIsTraceable
PROPERTIES
  StreamSpec
  AnsweredIsAttempted
