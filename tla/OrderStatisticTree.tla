------------------------- MODULE OrderStatisticTree -------------------------
(***************************************************************************)
(* augment/order-statistic-tree/ostree.h: an augmented tree whose nodes    *)
(* hold the size of their subtree, and the two queries that use it.        *)
(***************************************************************************)
EXTENDS LinuxAugmented

\* augment_compute, without the store
ComputeSize(aug, ch, n) ==
  LET size(d) == IF ch[n][d] = NULL THEN 0 ELSE aug[ch[n][d]]
  IN  1 + size("left") + size("right")

\* Mutant: the one above is computed first.
RotatedSizeDown(aug, ch, old, new) ==
  LET a == [aug EXCEPT ![new] = ComputeSize(aug, ch, new)]
  IN  [a EXCEPT ![old] = ComputeSize(a, ch, old)]

\* augment_rotate: both nodes are computed, the one below first.
RotatedSize(aug, ch, old, new) ==
  LET a == [aug EXCEPT ![old] = ComputeSize(aug, ch, old)]
  IN  [a EXCEPT ![new] = ComputeSize(a, ch, new)]

\* ostree_insert: parent->augmented++
OnPathSize(a, n) == a + 1

OwnSize(n) == 1

LeftSize(n) ==
  IF rb_child[n]["left"] = NULL THEN 0 ELSE augmented[rb_child[n]["left"]]

\* The node with a rank, counted from 1.
ostree_select(rank) ==
  LET walk[k \in Levels] == [n \in NodeOrNil |-> [r \in Nat |->
        IF k = 0 \/ n = NULL \/ r = LeftSize(n) + 1 THEN n
        ELSE IF r < LeftSize(n) + 1
             THEN walk[k - 1][rb_child[n]["left"]][r]
             ELSE walk[k - 1][rb_child[n]["right"]][r - (LeftSize(n) + 1)]]]
  IN  walk[Cardinality(Node)][rb_node][rank]

\* Mutant: what is above the node is not counted.
ostree_rank_below(n) == 1 + LeftSize(n)

\* The rank of a node: what is to its left, below and above it.
ostree_rank(n) ==
  LET walk[k \in Levels] == [m \in Node |->
        LET p == rb_parent(m)
        IN  IF k = 0 \/ m = rb_node THEN 0
            ELSE walk[k - 1][p] +
                   IF m = rb_child[p]["right"] THEN 1 + LeftSize(p) ELSE 0]
  IN  1 + LeftSize(n) + walk[Cardinality(Node)][n]

-----------------------------------------------------------------------------
list == InOrder(rb_child, rb_node)

\* Every node's size is exact after every turn of every loop, and ahead by the
\* new node on the path that ostree_insert has gone down so far.
SizesExact ==
  \A n \in InTree : augmented[n] = Cardinality(Subtree(n) \cup Announced(n))

\* Between operations select and rank invert each other along the sorted list,
\* and there is no node of rank 0 or beyond the end.
SelectAndRankAgree ==
  pc = "idle" =>
    /\ \A i \in DOMAIN list : ostree_select(i) = list[i] /\ ostree_rank(list[i]) = i
    /\ \A i \in {0, Len(list) + 1} : ostree_select(i) = NULL
=============================================================================
