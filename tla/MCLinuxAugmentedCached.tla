---------------------- MODULE MCLinuxAugmentedCached ----------------------
(* An instance of LinuxAugmentedCached for TLC. *)
EXTENDS LinuxAugmentedCached

CONSTANT N  \* how many nodes the callers own

MCNode == 1..N

\* Two nodes share each key: ties go right, and the first of them stays first.
MCKey == [n \in MCNode |-> (n + 1) \div 2]

\* The values rise and fall along the keys, and some occur twice.
MCVal == [n \in MCNode |-> (n * n) % 5]
=============================================================================
