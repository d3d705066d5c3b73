SPECIFICATION Spec
CONSTANTS
  N = 15
  temp = temp
  NULL = NULL
  Node <- MCNode
  malloc <- LowestFree
  Content <- MCContent
  Key <- LastTwoEqual
  Size <- MCSize
ACTION_CONSTRAINT PlayOrFill
CHECK_DEADLOCK FALSE
INVARIANTS
  WellLinked
  RedBlackThroughout
  HeapExact
  WalksAgree
PROPERTIES
  IsSortedSet
  OnlyTheSuccessorMoves
