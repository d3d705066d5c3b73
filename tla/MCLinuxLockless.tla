-------------------------- MODULE MCLinuxLockless --------------------------
(* An instance of LinuxLockless for TLC. *)
EXTENDS LinuxLockless

CONSTANT N  \* how many nodes the writer owns

MCNode == 1..N

(* Rotations with subtrees on all sides, at the root and below it, need more nodes  *)
(* than can be added and erased in every order.  So from the empty tree on the     *)
(* writer either adds, erases and replaces the nodes of Play in every order; or it  *)
(* adds all nodes in ascending order and then erases up to Erasures of them.  The   *)
(* reader looks things up in the first case always, in the second while nodes go.   *)
Play == (N - 2)..N
Erasures == 3

\* The first two nodes of Play have the same key, so that one can replace the other.
TieInPlay == [n \in MCNode |-> IF n = N - 2 THEN N - 1 ELSE n]

\* The node that a call has taken and not linked yet.
Chosen == IF pc' \in {"add", "find_add"} THEN {node'} ELSE {}

PlayOrFill ==
  /\ pc = "idle" /\ vars' # vars =>
       \/ InTree \cup InTree' \cup Chosen \subseteq Play
       \/ pc' = "add" /\ InTree = 1..(node' - 1)
       \/ Chosen = {} /\ InTree' \subseteq InTree /\ Cardinality(InTree) > N - Erasures
  /\ key # key' /\ key' # NULL =>
       \/ InTree \subseteq Play /\ key' \in {Key[n] : n \in Play}
       \/ Cardinality(InTree) >= N - Erasures
=============================================================================
