SPECIFICATION FairSpec
CONSTANTS
  N = 14
  NULL = NULL
  Node <- MCNode
  Key <- SharedKeys
ACTION_CONSTRAINT PlayOrFill
CHECK_DEADLOCK FALSE
INVARIANTS
  TypeOK
  LinksAgree
  RedBlackThroughout
  NoNullDereference
PROPERTIES
  RotationBound
  ImplementsSortedList
  Termination
