SPECIFICATION Spec
CONSTANTS
  Action <- MCAction
  Environment <- MCEnvironment
  AttrValue <- MCAttrValue
  Absent = Absent
INVARIANTS
  DevDeployWithoutAttributesAllowed
