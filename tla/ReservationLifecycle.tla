------------------------- MODULE ReservationLifecycle -------------------------
(***************************************************************************)
(* What the reservation status handlers promise to a reader of             *)
(* validateStatusTransition: a row's status only ever moves along the      *)
(* transition table, one edge at a time, and two statuses are final.       *)
(***************************************************************************)
CONSTANTS Ids, Edges

VARIABLE status

Init == status \in [Ids -> DOMAIN Edges]

Move(i, s) == status' = [status EXCEPT ![i] = s]

Next == \E i \in Ids : \E s \in Edges[status[i]] : Move(i, s)

Spec == Init /\ [][Next]_status
=============================================================================
