SPECIFICATION Spec
CONSTANTS
  c1 = c1
  c2 = c2
  k1 = k1
  Call = {c1, c2}
  Corr = {k1}
  NoCorr = NoCorr
  Absent = Absent
  Action <- MCAction
  Environment <- MCEnvironment
  AttrValue <- MCAttrValue
  Asked <- MCAsked
  MaxCrashes = 1
INVARIANTS
  TypeOK
  OkMeansDurable
  OneTracePerCall
  RefusedLeavesNoTrace
  TraceFollowsPolicy
PROPERTIES
  OnlyPeersHoldCalls
CHECK_DEADLOCK FALSE
