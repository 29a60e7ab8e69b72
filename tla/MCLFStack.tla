------------------------------ MODULE MCLFStack ------------------------------
(* Small instances of LFStack for TLC. *)
EXTENDS LFStack, TLC

CONSTANTS t1, t2, t3, m1, m2, m3

Symmetry == Permutations(Thread) \cup Permutations(Node)
============================================================================
