------------------------ MODULE LinuxAugmentedCached ------------------------
(***************************************************************************)
(* The augmented tree with a cached leftmost node: the _cached operations  *)
(* of rbtree_augmented.h and insert_augmented_cached of rbtree_test.c keep *)
(* root->rb_leftmost beside the operations of LinuxAugmentedMax.           *)
(***************************************************************************)
EXTENDS LinuxAugmentedMax

VARIABLES
  rb_leftmost,  \* root->rb_leftmost, in NodeOrNil
  leftmost      \* the local flag of insert_augmented_cached

augmentedCachedVars == <<augmentedVars, rb_leftmost, leftmost>>

AddAugmentedCached(n) ==
  /\ AddAugmented(n)
  /\ leftmost' = TRUE
  /\ UNCHANGED rb_leftmost

\* Mutant: the flag follows the last turn alone.
DescendAugmentedCachedLastTurn ==
  /\ DescendAugmented
  /\ leftmost' = (dir' = "left")
  /\ UNCHANGED rb_leftmost

DescendAugmentedCached ==
  /\ DescendAugmented
  /\ leftmost' = (leftmost /\ dir' = "left")
  /\ UNCHANGED rb_leftmost

\* rb_insert_augmented_cached
LinkAugmentedCached ==
  /\ LinkAugmented
  /\ rb_leftmost' = IF leftmost THEN node ELSE rb_leftmost
  /\ UNCHANGED leftmost

\* rb_erase_augmented_cached: the next node takes over before the erasure and
\* its propagations begin.
EraseAugmentedCached(n) ==
  /\ EraseOneChildAugmented(n) \/ EraseTwoChildrenAugmented(n)
  /\ rb_leftmost' = IF rb_leftmost = n THEN rb_next(n) ELSE rb_leftmost
  /\ UNCHANGED leftmost

\* The loops and their callbacks leave the cache alone.
RebalanceAugmentedCached ==
  /\ \/ InsertRotateAugmented
     \/ EraseSuccessorAugmented
     \/ EraseRedSiblingAugmented
     \/ EraseRotateAugmented
     \/ RecolorAugmented
  /\ UNCHANGED <<rb_leftmost, leftmost>>

AugmentedCachedInit == AugmentedInit /\ rb_leftmost = NULL /\ leftmost = TRUE

AugmentedCachedNext ==
  \/ \E n \in Node : AddAugmentedCached(n) \/ EraseAugmentedCached(n)
  \/ DescendAugmentedCached
  \/ LinkAugmentedCached
  \/ RebalanceAugmentedCached

AugmentedCachedSpec ==
  AugmentedCachedInit /\ [][AugmentedCachedNext]_augmentedCachedVars

-----------------------------------------------------------------------------
(* Correctness. *)

\* rb_first_cached is the same as rb_first (rbtree.h:165) although the cached
\* operations of the augmented tree run callbacks between the update of the cache
\* and the end of the erasure or insertion.
AugmentedCacheIsFirst == rb_leftmost = rb_first
=============================================================================
