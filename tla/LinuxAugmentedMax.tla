------------------------- MODULE LinuxAugmentedMax -------------------------
(***************************************************************************)
(* The callbacks that RB_DECLARE_CALLBACKS_MAX declares, as rbtree_test.c  *)
(* uses them: each node holds the largest val of its subtree.              *)
(***************************************************************************)
EXTENDS LinuxAugmented

CONSTANT val  \* the value of each node's own structure

\* augment_callbacks_compute_max, without the store
ComputeMax(aug, ch, n) ==
  LET values == {val[n]} \cup {aug[ch[n][d]] : d \in {e \in Side : ch[n][e] # NULL}}
  IN  CHOOSE v \in values : \A u \in values : u =< v

\* Mutant: the old top is computed before its value is copied.
RotatedMaxLate(aug, ch, old, new) ==
  LET a == [aug EXCEPT ![old] = ComputeMax(aug, ch, old)]
  IN  [a EXCEPT ![new] = a[old]]

\* augment_callbacks_rotate: the new top covers what the old one did.
RotatedMax(aug, ch, old, new) ==
  LET a == [aug EXCEPT ![new] = aug[old]]
  IN  [a EXCEPT ![old] = ComputeMax(a, ch, old)]

\* insert_augmented: if (parent->augmented < val) parent->augmented = val
OnPathMax(a, n) == IF a < val[n] THEN val[n] ELSE a

OwnMax(n) == val[n]

-----------------------------------------------------------------------------
\* check_augmented() of rbtree_test.c, after every turn of every loop and not
\* only at rest: a rotation, the copy to a successor and a propagation that stops
\* early leave no node with a value that is not the maximum of its subtree.
AugmentedIsMax ==
  \A n \in InTree :
    LET values == {val[m] : m \in Subtree(n) \cup Announced(n)}
    IN  augmented[n] \in values /\ \A v \in values : v =< augmented[n]
=============================================================================
