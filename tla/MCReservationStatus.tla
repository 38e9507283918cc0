------------------------- MODULE MCReservationStatus -------------------------
(* Finite instances of ReservationStatus for TLC. *)
EXTENDS ReservationStatus, TLC

CONSTANTS r1, r2, r3, alice, bob

MCRequests == {r1, r2, r3}
MCTwoRequests == {r1, r2}
MCCustomers == {alice, bob}
\* Two rows, one per customer.
MCIds == {1, 2}
MCOneId == {1}
MCUnknownIds == {9}
MCCustomerOf == 1 :> alice @@ 2 :> bob
MCCustomerOfOne == 1 :> alice
Every == Handlers
Http == {"cancel", "adminUpdateStatus", "adminCancel"}
Validated == {"cancel", "updateStatus"}
=============================================================================
