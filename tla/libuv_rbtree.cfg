SPECIFICATION ForeachSpec
CONSTANTS
  N = 15
  NULL = NULL
  Node <- MCNode
  Key <- LastTwoEqual
ACTION_CONSTRAINT PlayOrFill
CHECK_DEADLOCK FALSE
INVARIANTS
  WellLinked
  RedBlackThroughout
  LookupsAgree
  HeightBound
  NothingPassedBy
PROPERTIES
  IsSortedSet
