------------------------- MODULE MCReservationBooking -------------------------
(* Finite instances of ReservationBooking for TLC. *)
EXTENDS ReservationBooking, TLC

CONSTANTS r1, r2, w1, w2, d1, d2

MCRequests == {r1, r2}
MCProcesses == {w1, w2}
MCWorkerOf == r1 :> w1 @@ r2 :> w2
MCDates == {d1, d2}
\* The seed script numbers at random: high first numbers, and zero.
MCSeeds == {[date |-> d1, seq |-> 3], [date |-> d2, seq |-> 0]}
MCNoSeeds == {}
=============================================================================
