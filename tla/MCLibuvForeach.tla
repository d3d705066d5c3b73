--------------------------- MODULE MCLibuvForeach ---------------------------
(* An instance of LibuvForeach for TLC. *)
EXTENDS LibuvForeach

CONSTANT N  \* how many elements the callers own

MCNode == 1..N

\* The last two elements have the same key.
LastTwoEqual == [n \in MCNode |-> IF n = N THEN n - 1 ELSE n]

(* A repair climbs past a black element, or meets a red sibling after it climbed, *)
(* only in trees that are too large for every order of calls.  So the callers     *)
(* either insert and remove the elements of Play in every order, those of Looped  *)
(* inside of loops too; or they insert all but the last one in ascending order    *)
(* and then remove up to Removals of them in any order.                           *)
Play == (N - 5)..N
Looped == Play \ {N}
Full == N - 1
Removals == 2

\* The element that a call has taken and not linked yet.
Chosen == IF pc' = "descend" THEN {elm'} ELSE {}

PlayOrFill ==
  /\ pc = "idle" /\ vars' # vars =>
       \/ InTree \cup Chosen \subseteq Play
       \/ pc' = "descend" /\ elm' =< Full /\ InTree = 1..(elm' - 1)
       \/ Chosen = {} /\ Cardinality(InTree) > Full - Removals
  /\ x = NULL /\ x' # NULL => InTree \subseteq Looped
  /\ x' # NULL => Chosen \subseteq Looped
=============================================================================
