SPECIFICATION Spec
CONSTANTS
  Action <- MCAction
  Environment <- MCEnvironment
  AttrValue <- MCAttrValue
  Absent = Absent
INVARIANTS
  PolicyIsTotal
  RationaleExplainsDecision
  LocalAgreesWithRego
  EvaluationFailsClosed
