-------------------------- MODULE ReservationStatus --------------------------
(***************************************************************************)
(* The life of reservation rows once they are booked: the four handlers    *)
(* that change a reservation's status, run by concurrent HTTP requests.    *)
(*                                                                         *)
(*   cancel            reservations.service.ts, a customer cancels         *)
(*   updateStatus      reservations.service.ts, validated transition       *)
(*   adminUpdateStatus admin-reservations.service.ts, no validation        *)
(*   adminCancel       admin-reservations.service.ts, no validation        *)
(*                                                                         *)
(* Each is findOne, in-memory change, save(): three database steps (see    *)
(* OrmSave) with no transaction and no lock around them, so handlers of    *)
(* different requests interleave between any two of them.                  *)
(***************************************************************************)
EXTENDS OrmSave

CONSTANTS
    Requests,    \* HTTP requests, each handled once
    Ids,         \* reservations in the table
    UnknownIds,  \* ids a request may name that have no row
    Customers,
    CustomerOf,  \* customer_id of each row; no handler writes it
    Exposed,     \* the handlers that requests reach, a subset of Handlers
    Serial,      \* TRUE: a request starts only when no other is in progress
    Seeded,      \* the timestamp of a row cancelled before this behaviour starts
    Null

Statuses == {"pending", "confirmed", "completed", "cancelled"}
Handlers == {"cancel", "updateStatus", "adminUpdateStatus", "adminCancel"}

\* Mutation: the DTO's enum is not enforced.
AdminStatuses_Unchecked == {"confirmed", "completed", "cancelled", "rejected"}

\* AdminReservationStatusUpdate: what the admin DTO lets a request ask for.
AdminStatuses == {"confirmed", "completed", "cancelled"}

ASSUME StatusConstants ==
    /\ CustomerOf \in [Ids -> Customers]
    /\ UnknownIds \cap Ids = {}
    /\ Exposed \subseteq Handlers
    /\ Serial \in BOOLEAN
    /\ Seeded \notin Requests
    /\ Null \notin Requests \cup {Seeded}

\* "new Date()" taken by a request is told apart by the request that took it.
Stamps == Requests \cup {Seeded, Null}

\* The columns of a reservation that a handler of this module may write.
Rows == [status : Statuses, confirmedAt : Stamps, cancelledAt : Stamps]

VARIABLES
    reservations,  \* the table: Ids -> Rows
    pc,            \* request -> "idle", "save", "write" or "answered"
    job,           \* request -> what it does: handler, target row, goal status
    entity,        \* request -> the row as held in memory after the change
    dirty,         \* request -> the columns save() found to differ
    answer,        \* request -> what its caller is told
    undisturbed    \* history: no other request has written the target row
                   \* since this request read it

vars == <<reservations, pc, job, entity, dirty, answer, undisturbed>>
-----------------------------------------------------------------------------
(* Rows as the seeds and ReservationsService.create leave them: confirmedAt *)
(* is never set by either, cancelledAt only on rows seeded as cancelled.    *)

SeedRow(s) == [status |-> s, confirmedAt |-> Null,
               cancelledAt |-> IF s = "cancelled" THEN Seeded ELSE Null]

NoRow == SeedRow("pending")
NoJob == [handler |-> "none", id |-> Null, goal |-> "none"]

Init ==
    /\ \E start \in [Ids -> Statuses] :
          reservations = [i \in Ids |-> SeedRow(start[i])]
    /\ pc = [r \in Requests |-> "idle"]
    /\ job = [r \in Requests |-> NoJob]
    /\ entity = [r \in Requests |-> NoRow]
    /\ dirty = [r \in Requests |-> {}]
    /\ answer = [r \in Requests |-> "none"]
    /\ undisturbed = [r \in Requests |-> TRUE]
-----------------------------------------------------------------------------
(* The first step of every handler: findOne, the checks, the change.       *)

InProgress(r) == pc[r] \in {"save", "write"}

Arrives(r, handler) ==
    /\ pc[r] = "idle"
    /\ handler \in Exposed
    /\ Serial => \A q \in Requests : ~InProgress(q)

\* An exception before save(): nothing is written.
Refuse(r, why) ==
    /\ pc' = [pc EXCEPT ![r] = "answered"]
    /\ answer' = [answer EXCEPT ![r] = why]
    /\ UNCHANGED <<reservations, job, entity, dirty, undisturbed>>

\* The row was read and changed in memory; save() comes next.
Hold(r, handler, id, row) ==
    /\ pc' = [pc EXCEPT ![r] = "save"]
    /\ job' = [job EXCEPT ![r] = [handler |-> handler, id |-> id, goal |-> row.status]]
    /\ entity' = [entity EXCEPT ![r] = row]
    /\ UNCHANGED <<reservations, dirty, answer, undisturbed>>

\* Mutation: the check for a completed reservation is missing.
CancelRefusal_CompletedAllowed(id, customer) ==
    CASE id \notin Ids                             -> "notFound"
      [] CustomerOf[id] # customer                 -> "forbidden"
      [] reservations[id].status = "cancelled"     -> "alreadyCancelled"
      [] OTHER                                     -> "none"

CancelRefusal(id, customer) ==
    CASE id \notin Ids                             -> "notFound"
      [] CustomerOf[id] # customer                 -> "forbidden"
      [] reservations[id].status = "cancelled"     -> "alreadyCancelled"
      [] reservations[id].status = "completed"     -> "cannotCancelCompleted"
      [] OTHER                                     -> "none"

Cancel(r, id, customer) ==
    /\ Arrives(r, "cancel")
    /\ LET why == CancelRefusal(id, customer)
       IN  \/ why # "none" /\ Refuse(r, why)
           \/ why = "none" /\ Hold(r, "cancel", id,
                 [reservations[id] EXCEPT !.status = "cancelled", !.cancelledAt = r])

\* Mutation: a confirmation can be taken back.
ValidTransitions_Unconfirm ==
    [pending   |-> {"confirmed", "cancelled"},
     confirmed |-> {"completed", "cancelled", "pending"},
     completed |-> {},
     cancelled |-> {}]

ValidTransitions ==
    [pending   |-> {"confirmed", "cancelled"},
     confirmed |-> {"completed", "cancelled"},
     completed |-> {},
     cancelled |-> {}]

UpdateRefusal(id, newStatus) ==
    CASE id \notin Ids -> "notFound"
      [] id \in Ids /\ newStatus \notin ValidTransitions[reservations[id].status]
                       -> "invalidTransition"
      [] OTHER         -> "none"

UpdateStatus(r, id, newStatus) ==
    /\ Arrives(r, "updateStatus")
    /\ LET why == UpdateRefusal(id, newStatus)
       IN  \/ why # "none" /\ Refuse(r, why)
           \/ why = "none" /\ Hold(r, "updateStatus", id,
                 [reservations[id] EXCEPT
                    !.status = newStatus,
                    !.confirmedAt = IF newStatus = "confirmed" THEN r ELSE @])

\* Mutation: the switch falls through from CONFIRMED for lack of a break.
AdminChange_FallThrough(r, row, newStatus) ==
    [row EXCEPT !.status = IF newStatus = "confirmed" THEN "completed" ELSE newStatus,
                !.confirmedAt = IF newStatus = "confirmed" THEN r ELSE @,
                !.cancelledAt = IF newStatus = "cancelled" THEN r ELSE @]

AdminChange(r, row, newStatus) ==
    [row EXCEPT !.status = newStatus,
                !.confirmedAt = IF newStatus = "confirmed" THEN r ELSE @,
                !.cancelledAt = IF newStatus = "cancelled" THEN r ELSE @]

AdminUpdateStatus(r, id, newStatus) ==
    /\ Arrives(r, "adminUpdateStatus")
    /\ \/ id \notin Ids /\ Refuse(r, "notFound")
       \/ id \in Ids /\ Hold(r, "adminUpdateStatus", id,
                             AdminChange(r, reservations[id], newStatus))

AdminCancel(r, id) ==
    /\ Arrives(r, "adminCancel")
    /\ \/ id \notin Ids /\ Refuse(r, "notFound")
       \/ id \in Ids /\ Hold(r, "adminCancel", id,
                             AdminChange(r, reservations[id], "cancelled"))
-----------------------------------------------------------------------------
(* The two statements of save(), the same for every handler.               *)

SaveLoad(r) ==
    /\ pc[r] = "save"
    /\ pc' = [pc EXCEPT ![r] = "write"]
    /\ dirty' = [dirty EXCEPT ![r] = Dirty(entity[r], reservations[job[r].id])]
    /\ UNCHANGED <<reservations, job, entity, answer, undisturbed>>

SaveWrite(r) ==
    LET id == job[r].id
    IN  /\ pc[r] = "write"
        /\ reservations' = [reservations EXCEPT ![id] = Merge(@, entity[r], dirty[r])]
        /\ pc' = [pc EXCEPT ![r] = "answered"]
        /\ answer' = [answer EXCEPT ![r] = "ok"]
        /\ undisturbed' = [q \in Requests |->
              undisturbed[q] /\ ~(q # r /\ InProgress(q) /\ job[q].id = id)]
        /\ UNCHANGED <<job, entity, dirty>>

Handle(r) ==
    \E id \in Ids \cup UnknownIds :
       \/ \E c \in Customers : Cancel(r, id, c)
       \/ \E s \in Statuses : UpdateStatus(r, id, s)
       \/ \E s \in AdminStatuses : AdminUpdateStatus(r, id, s)
       \/ AdminCancel(r, id)

Next == \E r \in Requests : Handle(r) \/ SaveLoad(r) \/ SaveWrite(r)

Spec == Init /\ [][Next]_vars
-----------------------------------------------------------------------------
(* Properties *)

Writes(r) == pc[r] = "write" /\ pc'[r] = "answered"

\* Request r was answered "ok" and was to bring row i to status goal.
DidWrite(r, i, goal) ==
    /\ r \in Requests
    /\ answer[r] = "ok"
    /\ job[r].id = i
    /\ job[r].goal = goal

\* Every variable stays in its type; a request in progress names a real row and
\* holds the row it is going to save.
TypeOK ==
    /\ reservations \in [Ids -> Rows]
    /\ pc \in [Requests -> {"idle", "save", "write", "answered"}]
    /\ job \in [Requests -> [handler : Handlers \cup {"none"}, id : Ids \cup {Null},
                             goal : Statuses \cup {"none"}]]
    /\ entity \in [Requests -> Rows]
    /\ dirty \in [Requests -> SUBSET {"status", "confirmedAt", "cancelledAt"}]
    /\ answer \in [Requests -> {"none", "ok", "notFound", "forbidden", "alreadyCancelled",
                                "cannotCancelCompleted", "invalidTransition"}]
    /\ undisturbed \in [Requests -> BOOLEAN]
    /\ \A r \in Requests : InProgress(r) => job[r].id \in Ids

\* Whatever the interleaving, a reservation that has left "pending" never goes
\* back to it: save() writes back stale columns, but the stale "pending" a
\* handler read is always replaced in memory before the save
\* (reservations.service.ts:189-192, admin-reservations.service.ts:123-137).
NeverBackToPending ==
    [][\A i \in Ids : reservations[i].status # "pending"
                        => reservations'[i].status # "pending"]_vars

\* A request that saw no other write to its row between its read and its UPDATE
\* leaves exactly the row it computed, and if its handler validates (cancel,
\* updateStatus) the status moved along validTransitions
\* (reservations.service.ts:178-188, 495-506).  Overlap is thus the only way a
\* validated handler can break the life cycle.
UndisturbedIsFaithful ==
    [][\A r \in Requests :
          Writes(r) /\ undisturbed[r] =>
             LET before == reservations[job[r].id]
                 after  == reservations'[job[r].id]
             IN  /\ after = entity[r]
                 /\ job[r].handler \in {"cancel", "updateStatus"}
                       => after.status \in ValidTransitions[before.status]]_vars

\* Partial and stale column writes never invent history: whoever's stale copy
\* wrote it back last, a confirmation time found in a row was taken by a request
\* that confirmed that very row and has been answered "ok", and a cancellation
\* time by one that cancelled it, or it was there from the start.
StampsAreOwned ==
    \A i \in Ids :
       /\ reservations[i].confirmedAt # Null
             => DidWrite(reservations[i].confirmedAt, i, "confirmed")
       /\ reservations[i].cancelledAt \notin {Null, Seeded}
             => DidWrite(reservations[i].cancelledAt, i, "cancelled")

\* The validated handlers, run one at a time, implement the life cycle.
Lifecycle == INSTANCE ReservationLifecycle
                WITH Edges <- ValidTransitions,
                     status <- [i \in Ids |-> reservations[i].status]

\* With no overlap and only the validated handlers exposed, every step of the
\* service is a step of the abstract life cycle or leaves all statuses alone
\* (reservations.service.ts:165-197, 465-514).
ImplementsLifecycle == Lifecycle!Spec

\* "completed reservations cannot be cancelled" (ERROR_MESSAGES.RESERVATION.
\* CANNOT_CANCEL_COMPLETED): no customer cancel turns a completed row into a
\* cancelled one.
CompletedIsNotCancelledByCustomer ==
    [][\A r \in Requests :
          Writes(r) /\ job[r].handler = "cancel" =>
             ~ /\ reservations[job[r].id].status = "completed"
               /\ reservations'[job[r].id].status = "cancelled"]_vars

\* "400: invalid status transition" (reservations.controller.ts:178): a row in a
\* final status keeps it.
FinalStatusesAreFinal ==
    [][\A i \in Ids : reservations[i].status \in {"completed", "cancelled"}
                        => reservations'[i].status = reservations[i].status]_vars
=============================================================================
