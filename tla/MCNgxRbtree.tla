---------------------------- MODULE MCNgxRbtree ----------------------------
(* An instance of NgxRbtree for TLC. *)
EXTENDS NgxRbtree

CONSTANT N  \* how many nodes the callers own

MCNode == 1..N

\* Keys that ascend with the nodes; some of the last ones are equal, and they lie more
\* than half of the range apart, so that not all of them can be timers at once.
MCKey == [n \in MCNode |-> IF n <= 7 THEN n ELSE <<8, 12, 12, 36, 40, 52, 52>>[n - 7]]

(* A fixup climbs past a black node, or meets a red sibling after it climbed, only *)
(* in trees that are too large for every order of calls.  So the callers either    *)
(* insert and delete the nodes of Play in every order; or they insert all nodes in *)
(* ascending order, into a tree as ngx_rbtree_init left it, and then delete up to   *)
(* Deletions of them in any order.                                                 *)
Play == (N - 5)..N
Deletions == 3

Pristine == insert = "ngx_rbtree_insert_value" /\ parent[sentinel] = NULL

\* The node that a call has taken and not linked yet.
Chosen == IF pc' = "descend" THEN {node'} ELSE {}

PlayOrFill ==
  pc = "idle" =>
    \/ InTree \cup InTree' \cup Chosen \subseteq Play
    \/ InTree = {} /\ InTree' = {1} /\ Pristine
    \/ pc' = "descend" /\ InTree = 1..(node' - 1) /\ Pristine
    \/ Chosen = {} /\ InTree' \subseteq InTree /\ Cardinality(InTree) > N - Deletions
=============================================================================
