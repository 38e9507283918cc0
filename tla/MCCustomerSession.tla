-------------------------- MODULE MCCustomerSession --------------------------
(* Finite instances of CustomerSession for TLC. *)
EXTENDS CustomerSession, TLC

CONSTANTS r1, r2, r3, seeded, new

MCRequests == {r1, r2, r3}
MCUsers == {seeded, new}
MCSeedUsers == {seeded}
Symmetry == Permutations(MCRequests)
=============================================================================
