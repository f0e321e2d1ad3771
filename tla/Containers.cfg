\* The benchmark containers: every order of up to eight insertions.
SPECIFICATION Spec
CONSTANTS
  Keys <- MCKeys
  NodeSize = 60
  MaxLvl = 3
  MaxKey = 99
  MaxOps = 8
  MaxNodes = 3
INVARIANTS
  HoldsWhatWasAdded
  KeepsItsShape
  FoldsVisitInOrder
CHECK_DEADLOCK FALSE
