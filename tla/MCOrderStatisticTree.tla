------------------------ MODULE MCOrderStatisticTree ------------------------
(* An instance of OrderStatisticTree for TLC. *)
EXTENDS OrderStatisticTree

CONSTANT N  \* how many nodes the callers own

MCNode == 1..N

\* Two nodes share a key.
PairedKeys == [n \in MCNode |-> n \div 2]
=============================================================================
