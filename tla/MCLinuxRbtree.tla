--------------------------- MODULE MCLinuxRbtree ---------------------------
(* An instance of LinuxRbtree for TLC: the nodes are numbers. *)
EXTENDS LinuxRbtree

CONSTANT N  \* how many nodes the callers own

MCNode == 1..N

\* Three nodes share a key.
SharedKeys == [n \in MCNode |-> n \div 3]

(* The loop of ____rb_erase_color first climbs in a tree of ten nodes, and first  *)
(* meets a red sibling after it climbed in one of fourteen, which is more than    *)
(* every order of calls can be tried on.  So the callers do one of two things from *)
(* the empty tree on: they call everything, in every order, with the nodes of     *)
(* Play; or they add all nodes in ascending order, to a tree that has only so far *)
(* been filled like that, and then erase up to Erasures of them, in any order.    *)
Play == (N - 6)..N
Erasures == 4

\* The node that a call has taken and not linked yet.
Chosen == IF pc' \in {"add", "find_add"} THEN {node'} ELSE {}

PlayOrFill ==
  pc = "idle" =>
    \/ InTree \cup InTree' \cup Chosen \subseteq Play
    \/ pc' = "add" /\ InTree = 1..(node' - 1)
    \/ Chosen = {} /\ InTree' \subseteq InTree /\ Cardinality(InTree) > N - Erasures
=============================================================================
