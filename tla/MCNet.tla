------------------------------ MODULE MCNet ------------------------------
(* Small instances of Net for TLC. *)
EXTENDS Net, TLC

CONSTANTS i1, i2, s1, s2, c1

Symmetry == Permutations(IO) \cup Permutations(Session)
============================================================================
