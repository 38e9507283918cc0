----------------------- MODULE ReservationStatusProofs -----------------------
(***************************************************************************)
(* Machine-checked theorems about ReservationStatus, for every set of      *)
(* requests, rows and customers.                                           *)
(***************************************************************************)
EXTENDS ReservationStatus, TLAPS

\* A row merged from a row and an entity is a row, and each of its columns comes
\* from the entity exactly when the column is among those written.
LEMMA MergeColumns ==
    ASSUME NEW row \in Rows, NEW e \in Rows, NEW cols
    PROVE  /\ Merge(row, e, cols) \in Rows
           /\ Merge(row, e, cols).status
                = IF "status" \in cols THEN e.status ELSE row.status
           /\ Merge(row, e, cols).confirmedAt
                = IF "confirmedAt" \in cols THEN e.confirmedAt ELSE row.confirmedAt
           /\ Merge(row, e, cols).cancelledAt
                = IF "cancelledAt" \in cols THEN e.cancelledAt ELSE row.cancelledAt
  BY DEF Merge, Rows

\* Writing exactly the columns that differ turns the row into the entity.
LEMMA MergeDirtyIsEntity ==
    ASSUME NEW row \in Rows, NEW e \in Rows
    PROVE  Merge(row, e, Dirty(e, row)) = e
  BY DEF Merge, Dirty, Rows

LEMMA DirtyColumns ==
    ASSUME NEW row \in Rows, NEW e \in Rows
    PROVE  Dirty(e, row) \in SUBSET {"status", "confirmedAt", "cancelledAt"}
  BY DEF Dirty, Rows
-----------------------------------------------------------------------------
(* The inductive invariant.                                                *)

\* What a request in progress holds: the goal it will leave in the row, and
\* timestamps that are its own or were honestly found in the row.
Holds(r) ==
    InProgress(r) =>
       /\ job[r].handler \in Exposed
       /\ job[r].goal = entity[r].status
       /\ entity[r].status # "pending"
       /\ \/ entity[r].confirmedAt = Null
          \/ entity[r].confirmedAt = r /\ job[r].goal = "confirmed"
          \/ DidWrite(entity[r].confirmedAt, job[r].id, "confirmed")
       /\ \/ entity[r].cancelledAt \in {Null, Seeded}
          \/ entity[r].cancelledAt = r /\ job[r].goal = "cancelled"
          \/ DidWrite(entity[r].cancelledAt, job[r].id, "cancelled")

\* While nobody else wrote the row, the request's checks and its diff still
\* speak of the row as it is.
Faithful(r) ==
    InProgress(r) /\ undisturbed[r] =>
       /\ job[r].handler \in {"cancel", "updateStatus"}
             => entity[r].status \in ValidTransitions[reservations[job[r].id].status]
       /\ pc[r] = "write" => dirty[r] = Dirty(entity[r], reservations[job[r].id])

\* A request that has not started has left no trace.
Tidy(r) ==
    /\ pc[r] = "idle" => undisturbed[r]
    /\ answer[r] = "ok" => pc[r] = "answered"

\* In serial mode the only request in progress is undisturbed.
Alone(r) ==
    Serial /\ InProgress(r) =>
       /\ undisturbed[r]
       /\ \A q \in Requests : InProgress(q) => q = r

IInv ==
    /\ TypeOK
    /\ StampsAreOwned
    /\ \A r \in Requests : Holds(r) /\ Faithful(r) /\ Tidy(r) /\ Alone(r)

LEMMA InitIInv == Init => IInv
  <1> SUFFICES ASSUME Init PROVE IInv
    OBVIOUS
  <1> USE StatusConstants
  <1>1. \A s \in Statuses : SeedRow(s) \in Rows
    BY DEF SeedRow, Rows, Stamps
  <1>2. TypeOK
    <2>1. reservations \in [Ids -> Rows]
      BY <1>1 DEF Init
    <2>2. NoRow \in Rows
      BY <1>1 DEF NoRow, Statuses
    <2>3. QED
      BY <2>1, <2>2 DEF Init, TypeOK, NoJob, InProgress
  <1>3. StampsAreOwned
    BY DEF Init, StampsAreOwned, SeedRow
  <1>4. QED
    BY <1>2, <1>3 DEF Init, IInv, Holds, Faithful, Tidy, Alone, InProgress

\* Starting a handler: any row the handler may hold keeps the invariant.
LEMMA HoldKeepsIInv ==
    ASSUME IInv,
           NEW r \in Requests, NEW h \in Exposed, NEW id \in Ids, NEW row \in Rows,
           Arrives(r, h),
           Hold(r, h, id, row),
           row.status # "pending",
           \/ row.confirmedAt = r /\ row.status = "confirmed"
           \/ row.confirmedAt = reservations[id].confirmedAt,
           \/ row.cancelledAt = r /\ row.status = "cancelled"
           \/ row.cancelledAt = reservations[id].cancelledAt,
           h \in {"cancel", "updateStatus"}
              => row.status \in ValidTransitions[reservations[id].status]
    PROVE  IInv'
  <1> USE StatusConstants DEF IInv
  <1>1. TypeOK'
    BY DEF TypeOK, Hold, Arrives, InProgress, Rows, Handlers
  <1>2. StampsAreOwned'
    BY DEF TypeOK, StampsAreOwned, DidWrite, Hold, Arrives, Tidy
  <1>3. ASSUME NEW q \in Requests PROVE Holds(q)'
    BY DEF TypeOK, Holds, InProgress, Hold, Arrives, DidWrite, StampsAreOwned, Tidy
  <1>4. ASSUME NEW q \in Requests PROVE Faithful(q)'
    BY DEF TypeOK, Faithful, InProgress, Hold, Arrives
  <1>5. ASSUME NEW q \in Requests PROVE Alone(q)'
    BY DEF TypeOK, Alone, InProgress, Hold, Arrives, Tidy
  <1>6. ASSUME NEW q \in Requests PROVE Tidy(q)'
    BY DEF TypeOK, Tidy, Hold, Arrives
  <1>7. QED
    BY <1>1, <1>2, <1>3, <1>4, <1>5, <1>6

\* A refusal touches nothing but the program counter and the answer.
LEMMA RefuseKeepsIInv ==
    ASSUME IInv, NEW r \in Requests, NEW why, pc[r] = "idle", Refuse(r, why),
           why \in {"notFound", "forbidden", "alreadyCancelled",
                    "cannotCancelCompleted", "invalidTransition"}
    PROVE  IInv'
  BY DEF IInv, TypeOK, StampsAreOwned, DidWrite, Holds, Faithful, Tidy, Alone,
         InProgress, Refuse

LEMMA SaveLoadKeepsIInv ==
    ASSUME IInv, NEW r \in Requests, SaveLoad(r)
    PROVE  IInv'
  <1> USE DEF IInv
  <1>1. Dirty(entity[r], reservations[job[r].id])
           \in SUBSET {"status", "confirmedAt", "cancelledAt"}
    BY DirtyColumns DEF TypeOK, SaveLoad, InProgress
  <1>2. TypeOK'
    BY <1>1 DEF TypeOK, SaveLoad, InProgress
  <1>3. ASSUME NEW q \in Requests PROVE Faithful(q)'
    BY DEF TypeOK, Faithful, InProgress, SaveLoad
  <1>4. ASSUME NEW q \in Requests PROVE Holds(q)' /\ Tidy(q)' /\ Alone(q)'
    BY DEF TypeOK, Holds, Tidy, Alone, InProgress, SaveLoad, DidWrite
  <1>5. StampsAreOwned'
    BY DEF StampsAreOwned, SaveLoad, DidWrite
  <1>6. QED
    BY <1>2, <1>3, <1>4, <1>5

\* The row a write leaves: each column from the entity or as it was.
LEMMA SaveWriteRow ==
    ASSUME IInv, NEW r \in Requests, SaveWrite(r)
    PROVE  LET i == job[r].id IN
           /\ i \in Ids
           /\ reservations' = [reservations EXCEPT
                                 ![i] = Merge(reservations[i], entity[r], dirty[r])]
           /\ reservations'[i] \in Rows
           /\ reservations'[i].status \in {entity[r].status, reservations[i].status}
           /\ reservations'[i].confirmedAt
                 \in {entity[r].confirmedAt, reservations[i].confirmedAt}
           /\ reservations'[i].cancelledAt
                 \in {entity[r].cancelledAt, reservations[i].cancelledAt}
           /\ undisturbed[r] => reservations'[i] = entity[r]
  <1> DEFINE i == job[r].id
  <1>1. i \in Ids /\ reservations[i] \in Rows /\ entity[r] \in Rows
    BY DEF IInv, TypeOK, SaveWrite, InProgress
  <1>2. reservations' = [reservations EXCEPT
                           ![i] = Merge(reservations[i], entity[r], dirty[r])]
    BY DEF SaveWrite
  <1>3. reservations'[i] = Merge(reservations[i], entity[r], dirty[r])
    BY <1>1, <1>2 DEF IInv, TypeOK
  <1>4. undisturbed[r] => dirty[r] = Dirty(entity[r], reservations[i])
    BY DEF IInv, Faithful, SaveWrite, InProgress
  <1>5. undisturbed[r] => reservations'[i] = entity[r]
    BY <1>1, <1>3, <1>4, MergeDirtyIsEntity
  <1>6. /\ reservations'[i] \in Rows
        /\ reservations'[i].status \in {entity[r].status, reservations[i].status}
        /\ reservations'[i].confirmedAt
              \in {entity[r].confirmedAt, reservations[i].confirmedAt}
        /\ reservations'[i].cancelledAt
              \in {entity[r].cancelledAt, reservations[i].cancelledAt}
    BY <1>1, <1>3, MergeColumns
  <1>7. QED
    BY <1>1, <1>2, <1>5, <1>6

LEMMA SaveWriteKeepsIInv ==
    ASSUME IInv, NEW r \in Requests, SaveWrite(r)
    PROVE  IInv'
  <1> DEFINE i == job[r].id
  <1> USE DEF IInv
  <1>1. /\ i \in Ids
        /\ reservations' \in [Ids -> Rows]
        /\ \A j \in Ids \ {i} : reservations'[j] = reservations[j]
    BY SaveWriteRow DEF TypeOK
  <1>2. TypeOK'
    BY <1>1 DEF TypeOK, SaveWrite, InProgress
  <1>3. answer' = [answer EXCEPT ![r] = "ok"] /\ job' = job
    BY DEF SaveWrite
  <1>4. \A x, j, goal : DidWrite(x, j, goal) => DidWrite(x, j, goal)'
    BY <1>3 DEF DidWrite, TypeOK
  <1>5. DidWrite(r, i, job[r].goal)'
    BY <1>3 DEF DidWrite, TypeOK
  <1>6. Holds(r) /\ InProgress(r)
    BY DEF SaveWrite, InProgress
  <1>7. StampsAreOwned'
    <2> SUFFICES ASSUME NEW j \in Ids
                 PROVE  /\ reservations'[j].confirmedAt # Null
                             => DidWrite(reservations[j].confirmedAt, j, "confirmed")'
                        /\ reservations'[j].cancelledAt \notin {Null, Seeded}
                             => DidWrite(reservations[j].cancelledAt, j, "cancelled")'
      BY DEF StampsAreOwned
    <2>1. CASE j # i
      BY <2>1, <1>1, <1>3 DEF StampsAreOwned, DidWrite, TypeOK
    <2>2. CASE j = i
      <3>1. reservations'[i].confirmedAt
               \in {entity[r].confirmedAt, reservations[i].confirmedAt}
        BY SaveWriteRow
      <3>2. reservations'[i].cancelledAt
               \in {entity[r].cancelledAt, reservations[i].cancelledAt}
        BY SaveWriteRow
      <3>3. QED
        BY <2>2, <3>1, <3>2, <1>3, <1>5, <1>6, <1>1
           DEF StampsAreOwned, Holds, DidWrite, TypeOK
    <2>3. QED
      BY <2>1, <2>2
  <1>8. ASSUME NEW q \in Requests PROVE Holds(q)'
    BY <1>3 DEF Holds, SaveWrite, InProgress, TypeOK, DidWrite
  <1>9. ASSUME NEW q \in Requests PROVE Faithful(q)'
    <2>1. CASE q = r
      BY <2>1 DEF Faithful, SaveWrite, InProgress, TypeOK
    <2>2. CASE q # r /\ InProgress(q) /\ job[q].id = i
      BY <2>2 DEF Faithful, SaveWrite, InProgress, TypeOK
    <2>3. CASE q # r /\ ~(InProgress(q) /\ job[q].id = i)
      BY <2>3, <1>1 DEF Faithful, SaveWrite, InProgress, TypeOK
    <2>4. QED
      BY <2>1, <2>2, <2>3
  <1>10. ASSUME NEW q \in Requests PROVE Tidy(q)'
    BY DEF Tidy, SaveWrite, InProgress, TypeOK
  <1>11. ASSUME NEW q \in Requests PROVE Alone(q)'
    BY DEF Alone, SaveWrite, InProgress, TypeOK
  <1>12. QED
    BY <1>2, <1>7, <1>8, <1>9, <1>10, <1>11

\* The rows that validated and admin handlers hold are rows.
LEMMA ChangedRows ==
    ASSUME NEW row \in Rows, NEW r \in Requests, NEW s \in Statuses
    PROVE  /\ [row EXCEPT !.status = "cancelled", !.cancelledAt = r] \in Rows
           /\ [row EXCEPT !.status = s,
                          !.confirmedAt = IF s = "confirmed" THEN r ELSE @] \in Rows
           /\ AdminChange(r, row, s) \in Rows
  BY DEF Rows, Stamps, Statuses, AdminChange

LEMMA HandleKeepsIInv ==
    ASSUME IInv, NEW r \in Requests, Handle(r)
    PROVE  IInv'
  <1> USE StatusConstants
  <1>1. PICK id \in Ids \cup UnknownIds :
           \/ \E c \in Customers : Cancel(r, id, c)
           \/ \E s \in Statuses : UpdateStatus(r, id, s)
           \/ \E s \in AdminStatuses : AdminUpdateStatus(r, id, s)
           \/ AdminCancel(r, id)
    BY DEF Handle
  <1>2. \A j \in Ids : reservations[j] \in Rows
    BY DEF IInv, TypeOK
  <1>3. ASSUME NEW c \in Customers, Cancel(r, id, c) PROVE IInv'
    <2>1. CASE CancelRefusal(id, c) # "none"
      <3>1. CancelRefusal(id, c) \in {"notFound", "forbidden", "alreadyCancelled",
                                      "cannotCancelCompleted", "none"}
        BY DEF CancelRefusal
      <3>2. QED
        BY <1>3, <2>1, <3>1, RefuseKeepsIInv DEF Cancel, Arrives
    <2>2. CASE CancelRefusal(id, c) = "none"
      <3> DEFINE row == [reservations[id] EXCEPT !.status = "cancelled", !.cancelledAt = r]
      <3>1. /\ id \in Ids
            /\ reservations[id].status \in {"pending", "confirmed"}
        BY <1>2, <2>2 DEF CancelRefusal, Rows, Statuses
      <3>2. row \in Rows /\ "cancelled" \in Statuses
        BY <1>2, <3>1, ChangedRows DEF Statuses
      <3>3. /\ row.status = "cancelled" /\ row.cancelledAt = r
            /\ row.confirmedAt = reservations[id].confirmedAt
        BY <1>2, <3>1 DEF Rows
      <3>4. row.status \in ValidTransitions[reservations[id].status]
        BY <3>1, <3>3 DEF ValidTransitions
      <3>5. Arrives(r, "cancel") /\ Hold(r, "cancel", id, row) /\ "cancel" \in Exposed
        BY <1>3, <2>2 DEF Cancel, Arrives
      <3>6. QED
        BY <3>1, <3>2, <3>3, <3>4, <3>5, HoldKeepsIInv
    <2>3. QED
      BY <2>1, <2>2
  <1>4. ASSUME NEW s \in Statuses, UpdateStatus(r, id, s) PROVE IInv'
    <2>1. CASE UpdateRefusal(id, s) # "none"
      <3>1. UpdateRefusal(id, s) \in {"notFound", "invalidTransition", "none"}
        BY DEF UpdateRefusal
      <3>2. QED
        BY <1>4, <2>1, <3>1, RefuseKeepsIInv DEF UpdateStatus, Arrives
    <2>2. CASE UpdateRefusal(id, s) = "none"
      <3> DEFINE row == [reservations[id] EXCEPT
                           !.status = s,
                           !.confirmedAt = IF s = "confirmed" THEN r ELSE @]
      <3>1. id \in Ids /\ s \in ValidTransitions[reservations[id].status]
        BY <2>2 DEF UpdateRefusal
      <3>2. row \in Rows
        BY <1>2, <3>1, ChangedRows
      <3>3. /\ row.status = s
            /\ row.cancelledAt = reservations[id].cancelledAt
            /\ row.confirmedAt = IF s = "confirmed" THEN r
                                 ELSE reservations[id].confirmedAt
        BY <1>2, <3>1 DEF Rows
      <3>4. s # "pending"
        BY <1>2, <3>1 DEF ValidTransitions, Rows, Statuses
      <3>5. /\ Arrives(r, "updateStatus") /\ "updateStatus" \in Exposed
            /\ Hold(r, "updateStatus", id, row)
        BY <1>4, <2>2 DEF UpdateStatus, Arrives
      <3>6. QED
        BY <3>1, <3>2, <3>3, <3>4, <3>5, HoldKeepsIInv
    <2>3. QED
      BY <2>1, <2>2
  <1>5. ASSUME NEW s \in AdminStatuses, NEW h \in {"adminUpdateStatus", "adminCancel"},
               Arrives(r, h), id \in Ids,
               Hold(r, h, id, AdminChange(r, reservations[id], s))
        PROVE  IInv'
    <2> DEFINE row == AdminChange(r, reservations[id], s)
    <2>1. row \in Rows
      BY <1>2, <1>5, ChangedRows DEF AdminStatuses, Statuses
    <2>2. /\ row.status = s /\ s # "pending"
          /\ row.cancelledAt = IF s = "cancelled" THEN r ELSE reservations[id].cancelledAt
          /\ row.confirmedAt = IF s = "confirmed" THEN r ELSE reservations[id].confirmedAt
      BY <1>2, <1>5 DEF Rows, AdminChange, AdminStatuses
    <2>3. h \in Exposed /\ h \notin {"cancel", "updateStatus"}
      BY <1>5 DEF Arrives
    <2>4. QED
      BY <1>5, <2>1, <2>2, <2>3, HoldKeepsIInv
  <1>6. ASSUME NEW s \in AdminStatuses, AdminUpdateStatus(r, id, s) PROVE IInv'
    <2>1. CASE id \notin Ids
      BY <1>6, <2>1, RefuseKeepsIInv DEF AdminUpdateStatus, Arrives
    <2>2. CASE id \in Ids
      BY <1>5, <1>6, <2>2 DEF AdminUpdateStatus
    <2>3. QED
      BY <2>1, <2>2
  <1>7. ASSUME AdminCancel(r, id) PROVE IInv'
    <2>1. CASE id \notin Ids
      BY <1>7, <2>1, RefuseKeepsIInv DEF AdminCancel, Arrives
    <2>2. CASE id \in Ids
      BY <1>5, <1>7, <2>2 DEF AdminCancel, AdminStatuses
    <2>3. QED
      BY <2>1, <2>2
  <1>8. QED
    BY <1>1, <1>3, <1>4, <1>6, <1>7

LEMMA NextKeepsIInv == IInv /\ [Next]_vars => IInv'
  <1> SUFFICES ASSUME IInv, [Next]_vars PROVE IInv'
    OBVIOUS
  <1>1. ASSUME NEW r \in Requests, Handle(r) PROVE IInv'
    BY <1>1, HandleKeepsIInv
  <1>2. ASSUME NEW r \in Requests, SaveLoad(r) PROVE IInv'
    BY <1>2, SaveLoadKeepsIInv
  <1>3. ASSUME NEW r \in Requests, SaveWrite(r) PROVE IInv'
    BY <1>3, SaveWriteKeepsIInv
  <1>4. CASE UNCHANGED vars
    BY <1>4 DEF vars, IInv, TypeOK, StampsAreOwned, DidWrite, Holds, Faithful, Tidy,
                Alone, InProgress
  <1>5. QED
    BY <1>1, <1>2, <1>3, <1>4 DEF Next
-----------------------------------------------------------------------------
(* The theorems.                                                           *)

LEMMA IInvHolds == Spec => []IInv
  BY InitIInv, NextKeepsIInv, PTL DEF Spec

\* Type correctness of the status handlers, for any number of requests and rows.
THEOREM TypeCorrect == Spec => []TypeOK
  <1>1. IInv => TypeOK
    BY DEF IInv
  <1>2. QED
    BY <1>1, IInvHolds, PTL

\* Timestamps are owned by an answered request of the right kind, whatever the
\* number of overlapping requests and however stale the copies they save.
THEOREM StampsOwned == Spec => []StampsAreOwned
  <1>1. IInv => StampsAreOwned
    BY DEF IInv
  <1>2. QED
    BY <1>1, IInvHolds, PTL

\* What a step may do to one row.
LEMMA StepOnRow ==
    ASSUME IInv, [Next]_vars, NEW i \in Ids
    PROVE  \/ reservations'[i] = reservations[i]
           \/ \E r \in Requests : SaveWrite(r) /\ job[r].id = i
  <1>1. ASSUME NEW r \in Requests, SaveWrite(r), job[r].id # i
        PROVE  reservations'[i] = reservations[i]
    BY <1>1, SaveWriteRow DEF IInv, TypeOK
  <1>2. ASSUME NEW r \in Requests, Handle(r) \/ SaveLoad(r)
        PROVE  reservations' = reservations
    BY <1>2 DEF Handle, SaveLoad, Cancel, UpdateStatus, AdminUpdateStatus, AdminCancel,
                Refuse, Hold
  <1>3. QED
    BY <1>1, <1>2 DEF Next, vars

\* A step takes no row back to "pending".
LEMMA StepNeverBack ==
    ASSUME IInv, [Next]_vars, NEW i \in Ids, reservations[i].status # "pending"
    PROVE  reservations'[i].status # "pending"
  <1>1. CASE reservations'[i] = reservations[i]
    BY <1>1
  <1>2. ASSUME NEW r \in Requests, SaveWrite(r), job[r].id = i
        PROVE  reservations'[i].status # "pending"
    <2>1. reservations'[i].status \in {entity[r].status, reservations[i].status}
      BY <1>2, SaveWriteRow
    <2>2. entity[r].status # "pending"
      BY <1>2 DEF IInv, Holds, SaveWrite, InProgress
    <2>3. QED
      BY <2>1, <2>2
  <1>3. QED
    BY <1>1, <1>2, StepOnRow

\* No interleaving of cancellations and administrative changes takes a
\* reservation back to pending.
THEOREM NeverBack == Spec => NeverBackToPending
  <1>1. IInv /\ [Next]_vars =>
           [\A i \in Ids : reservations[i].status # "pending"
                              => reservations'[i].status # "pending"]_vars
    BY StepNeverBack
  <1>2. QED
    BY <1>1, IInvHolds, PTL DEF Spec, NeverBackToPending

\* A request whose row nobody else wrote meanwhile writes exactly what it
\* computed, and a validated handler then follows the transition table.
LEMMA UndisturbedStep ==
    ASSUME IInv, Next, NEW r \in Requests, Writes(r), undisturbed[r]
    PROVE  LET before == reservations[job[r].id]
               after  == reservations'[job[r].id]
           IN  /\ after = entity[r]
               /\ job[r].handler \in {"cancel", "updateStatus"}
                     => after.status \in ValidTransitions[before.status]
  <1>1. SaveWrite(r)
    <2>1. ASSUME NEW q \in Requests, Handle(q) PROVE FALSE
      BY <2>1 DEF Writes, Handle, Cancel, UpdateStatus, AdminUpdateStatus, AdminCancel,
                  Arrives, Refuse, Hold, IInv, TypeOK
    <2>2. ASSUME NEW q \in Requests, SaveLoad(q) PROVE FALSE
      BY <2>2 DEF Writes, SaveLoad, IInv, TypeOK
    <2>3. ASSUME NEW q \in Requests, SaveWrite(q) PROVE q = r
      BY <2>3 DEF Writes, SaveWrite, IInv, TypeOK
    <2>4. QED
      BY <2>1, <2>2, <2>3 DEF Next
  <1>2. reservations'[job[r].id] = entity[r]
    BY <1>1, SaveWriteRow
  <1>3. Faithful(r) /\ InProgress(r)
    BY <1>1 DEF IInv, SaveWrite, InProgress
  <1>4. QED
    BY <1>2, <1>3 DEF Faithful

\* Where no other write came between its read and its UPDATE, a handler leaves the row as
\* it meant to, after a transition the table allows.
THEOREM Undisturbed == Spec => UndisturbedIsFaithful
  <1> DEFINE A == \A r \in Requests :
                    Writes(r) /\ undisturbed[r] =>
                       LET before == reservations[job[r].id]
                           after  == reservations'[job[r].id]
                       IN  /\ after = entity[r]
                           /\ job[r].handler \in {"cancel", "updateStatus"}
                                 => after.status \in ValidTransitions[before.status]
  <1>1. IInv /\ [Next]_vars => [A]_vars
    BY UndisturbedStep
  <1>2. QED
    BY <1>1, IInvHolds, PTL DEF Spec, UndisturbedIsFaithful

\* With requests handled one at a time and only validated handlers exposed,
\* the service implements the abstract life cycle: the initial state maps to an
\* initial state and every step to a transition of the table or to a stutter.
THEOREM SerialServiceImplementsLifecycle ==
    ASSUME Serial = TRUE, Exposed \subseteq {"cancel", "updateStatus"}
    PROVE  Spec => ImplementsLifecycle
  <1> DEFINE bar == [i \in Ids |-> reservations[i].status]
  <1>1. Init => Lifecycle!Init
    BY DEF Init, Lifecycle!Init, SeedRow, ValidTransitions, Statuses
  <1>2. ASSUME IInv, [Next]_vars PROVE [Lifecycle!Next]_bar
    <2>1. CASE \A i \in Ids : reservations'[i] = reservations[i]
      BY <2>1
    <2>2. ASSUME NEW i \in Ids, NEW r \in Requests, SaveWrite(r), job[r].id = i
          PROVE  Lifecycle!Next
      <3>1. InProgress(r) /\ Next /\ Writes(r)
        BY <2>2, <1>2 DEF SaveWrite, Next, InProgress, Writes, IInv, TypeOK
      <3>2. undisturbed[r]
        BY <3>1, <1>2 DEF IInv, Alone
      <3>3. job[r].handler \in {"cancel", "updateStatus"}
        BY <3>1, <1>2 DEF IInv, Holds
      <3>4. reservations'[i].status \in ValidTransitions[reservations[i].status]
        BY <1>2, <2>2, <3>1, <3>2, <3>3, UndisturbedStep
      <3>5. \A j \in Ids \ {i} : reservations'[j] = reservations[j]
        BY <1>2, <2>2, SaveWriteRow DEF IInv, TypeOK
      <3>6. bar' = [bar EXCEPT ![i] = reservations'[i].status]
        BY <3>5
      <3>7. bar[i] = reservations[i].status
        OBVIOUS
      <3>8. \E s \in ValidTransitions[bar[i]] : bar' = [bar EXCEPT ![i] = s]
        BY <3>4, <3>6, <3>7
      <3>9. QED
        BY <3>8 DEF Lifecycle!Next, Lifecycle!Move
    <2>3. QED
      BY <1>2, <2>1, <2>2, StepOnRow
  <1>3. QED
    BY <1>1, <1>2, IInvHolds, PTL DEF Spec, ImplementsLifecycle, Lifecycle!Spec
=============================================================================
