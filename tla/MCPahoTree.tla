----------------------------- MODULE MCPahoTree -----------------------------
(* An instance of PahoTree for TLC. *)
EXTENDS PahoTree

CONSTANT N  \* how many contents the callers have

MCContent == 1..N

\* The last two contents compare equal.
LastTwoEqual == [c \in MCContent |-> IF c = N THEN c - 1 ELSE c]

MCSize == [c \in MCContent |-> c]

(* A repair climbs past a black node, or meets a red sibling after it climbed, only *)
(* in trees that are too large for every order of calls.  So the callers either    *)
(* add and remove the contents of Play in every order; or they add all contents but *)
(* the last one in ascending order, where TreeIntCompare compares them, and then    *)
(* remove up to Removals of them in any order.                                      *)
Play == (N - 5)..N
Full == N - 1
Removals == 2

MCNode == 101..(100 + Full)

\* Free memory is all alike, so it does not matter which of it malloc returns.
LowestFree(used) == {n \in MCNode \ used : \A m \in MCNode \ used : n =< m}

Kept == {content[n] : n \in allocated}

PlayOrFill ==
  pc = "idle" =>
    \/ Kept \cup Kept' \subseteq Play
    \/ /\ pc' = "add" /\ compare = "TreeIntCompare"
       /\ Kept = 1..count /\ content'[curnode'] = count' /\ count' =< Full
    \/ pc' # "add" /\ count > Full - Removals
=============================================================================
