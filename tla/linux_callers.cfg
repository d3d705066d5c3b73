SPECIFICATION IterSpec
CONSTANTS
  N = 6
  NULL = NULL
  Node <- MCNode
  Key <- SharedKeys
CHECK_DEADLOCK FALSE
INVARIANTS
  CacheIsFirst
  NothingPassedBy
  NeighboursAgree
  LookupsAgree
  NoUseAfterFree
PROPERTIES
  ReturnsNewLeftmost
