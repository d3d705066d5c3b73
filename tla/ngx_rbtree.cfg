SPECIFICATION Spec
CONSTANTS
  N = 14
  KeyRange = 64
  sentinel = sentinel
  NULL = NULL
  Node <- MCNode
  Key <- MCKey
ACTION_CONSTRAINT PlayOrFill
CHECK_DEADLOCK FALSE
INVARIANTS
  WellLinked
  RedBlackThroughout
  TimersInOrder
  NextAgrees
PROPERTIES
  IsSortedList
