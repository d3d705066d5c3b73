---------------------------- MODULE MCLinuxTest ----------------------------
(* An instance of LinuxTest for TLC. *)
EXTENDS LinuxTest

CONSTANT N  \* how many nodes the array holds

MCNode == 1..N

\* Two nodes share each key.
PairedKeys == [n \in MCNode |-> (n + 1) \div 2]
=============================================================================
