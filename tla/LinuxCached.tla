---------------------------- MODULE LinuxCached ----------------------------
(***************************************************************************)
(* The tree with a cached leftmost node: rb_add_cached, rb_erase_cached    *)
(* and rb_replace_node_cached keep root->rb_leftmost beside the operations *)
(* of LinuxRbtree that they call.                                          *)
(***************************************************************************)
EXTENDS LinuxWalk

VARIABLES
  rb_leftmost,  \* root->rb_leftmost
  leftmost,     \* the local flag of rb_add_cached
  returned      \* what the last operation returned

cache == <<rb_leftmost, leftmost, returned>>
cachedVars == <<vars, cache>>

\* rb_add_cached: the flag falls on the first turn to the right ...
AddCached(n) ==
  /\ Add(n)
  /\ leftmost' = TRUE
  /\ returned' = NULL
  /\ UNCHANGED rb_leftmost

\* Mutant: the flag rises again on a turn to the left.
DescendCachedLastTurn ==
  /\ Descend
  /\ leftmost' = (dir' = "left")
  /\ UNCHANGED <<rb_leftmost, returned>>

DescendCached ==
  /\ Descend
  /\ leftmost' = (leftmost /\ dir' = "left")
  /\ UNCHANGED <<rb_leftmost, returned>>

\* ... and rb_insert_color_cached reads it before it calls rb_insert_color.
LinkCached ==
  /\ Link
  /\ rb_leftmost' = IF leftmost THEN node ELSE rb_leftmost
  /\ returned' = IF leftmost THEN node ELSE NULL
  /\ UNCHANGED leftmost

\* Mutant: the parent takes over, although the first node may have a right child.
EraseCachedParent(n) ==
  /\ EraseOneChild(n) \/ EraseTwoChildren(n)
  /\ rb_leftmost' = IF rb_leftmost = n THEN rb_parent(n) ELSE rb_leftmost
  /\ returned' = IF rb_leftmost = n THEN rb_parent(n) ELSE NULL
  /\ UNCHANGED leftmost

\* rb_erase_cached: the next node takes over before rb_erase runs.
EraseCached(n) ==
  /\ EraseOneChild(n) \/ EraseTwoChildren(n)
  /\ rb_leftmost' = IF rb_leftmost = n THEN rb_next(n) ELSE rb_leftmost
  /\ returned' = IF rb_leftmost = n THEN rb_next(n) ELSE NULL
  /\ UNCHANGED leftmost

ReplaceCached(victim, new) ==
  /\ Replace(victim, new)
  /\ rb_leftmost' = IF rb_leftmost = victim THEN new ELSE rb_leftmost
  /\ returned' = NULL
  /\ UNCHANGED leftmost

\* The rebalancing loops and the search for the successor leave the cache alone.
RebalanceCached ==
  /\ pc \in {"insert", "successor", "erase_color"}
  /\ Run
  /\ UNCHANGED cache

CachedInit ==
  /\ Init
  /\ rb_leftmost = NULL
  /\ leftmost = TRUE
  /\ returned = NULL

CachedNext ==
  \/ \E n \in Node :
       AddCached(n) \/ EraseCached(n) \/ \E m \in Node : ReplaceCached(n, m)
  \/ DescendCached
  \/ LinkCached
  \/ RebalanceCached

CachedSpec == CachedInit /\ [][CachedNext]_cachedVars

-----------------------------------------------------------------------------
(* Correctness. *)

\* rb_first_cached is the same as rb_first (rbtree.h:165), at every moment: a new
\* minimum, the erasure of the minimum by whatever case, a replacement and the
\* rotations in between included.
CacheIsFirst == rb_leftmost = rb_first

\* rb_add_cached returns its node exactly when that is the new leftmost, and
\* rb_erase_cached returns the new leftmost exactly when it erased the old one.
ReturnsNewLeftmost ==
  [][/\ pc' = "insert" /\ pc # "insert" =>
          returned' = IF rb_first' = node THEN node ELSE NULL
     /\ \A n \in InTree : pc = "idle" /\ n \notin InTree' /\ InTree' \subseteq InTree =>
          returned' = IF rb_first = n THEN rb_first' ELSE NULL]_cachedVars
=============================================================================
