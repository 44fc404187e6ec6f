SPECIFICATION SafeSpec
CONSTANTS
  MaxEdits = 1
  MaxDeploys = 2
INVARIANTS
  DecisionsAreVersioned
CHECK_DEADLOCK FALSE
