---------------------------- MODULE MCLinuxIter ----------------------------
(* An instance of LinuxIter for TLC. *)
EXTENDS LinuxIter

CONSTANT N  \* how many nodes the callers own

MCNode == 1..N

\* Up to three nodes share a key.
SharedKeys == [n \in MCNode |-> n \div 3]
=============================================================================
