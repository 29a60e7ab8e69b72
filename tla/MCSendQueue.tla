---------------------------- MODULE MCSendQueue ----------------------------
(* Small instances of SendQueue for TLC. *)
EXTENDS SendQueue, TLC

CONSTANTS u1, u2, i1, i2, s1, s2, s3, s4, s5

SOVSymmetry == Permutations(SOV)
Symmetry == SOVSymmetry \cup Permutations(User) \cup Permutations(IO)
============================================================================
