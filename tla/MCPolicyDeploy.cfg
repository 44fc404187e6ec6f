SPECIFICATION Spec
CONSTANTS
  MaxEdits = 2
  MaxDeploys = 2
INVARIANTS
  CleanDeployIsVersioned
PROPERTIES
  DeployTakesEffect
CHECK_DEADLOCK FALSE
