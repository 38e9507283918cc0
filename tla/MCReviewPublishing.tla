-------------------------- MODULE MCReviewPublishing --------------------------
(* Finite instances of ReviewPublishing for TLC. *)
EXTENDS ReviewPublishing, TLC

CONSTANTS r1, r2, a1, a2, w1, w2, alice, bob

MCRequests == {r1, r2}
MCStatusRequests == {a1, a2}
MCProcesses == {w1, w2}
MCWorkerOf == r1 :> w1 @@ r2 :> w2
MCIds == {1}
MCUnknownIds == {99}
MCCustomers == {alice, bob}
MCCustomerOf == 1 :> alice
Http == {"cancel", "adminUpdateStatus", "adminCancel"}
=============================================================================
