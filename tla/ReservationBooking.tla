-------------------------- MODULE ReservationBooking --------------------------
(***************************************************************************)
(* ReservationsService.create: booking a reservation.                      *)
(*                                                                         *)
(* Several requests book at once, in several processes of the PM2 cluster. *)
(* Each checks its service, uploads its photos, reads the reservation      *)
(* numbers of its estimate date, takes the next one and inserts its row,   *)
(* with no transaction around the read and the insert; the unique index on *)
(* reservation_number is all that keeps two requests apart.                *)
(***************************************************************************)
EXTENDS Integers, FiniteSetsExt, UploadThenSave

CONSTANTS
    Services,
    ActiveServices,  \* the services with isActive
    Dates,
    Times,
    Seeds,           \* reservation numbers already in the table
    NoOne            \* the creator of a row that was there from the start

Numbers == [date : Dates, seq : Nat]

ASSUME BookingConstants ==
    /\ ActiveServices \subseteq Services
    /\ Seeds \subseteq Numbers
    /\ NoOne \notin Requests

\* The finitely many numbers seeded for a date have a highest one.
ASSUME SeedsBounded ==
    \A d \in Dates : (\E n \in Seeds : n.date = d)
       => \E top \in Seeds : /\ top.date = d
                             /\ \A n \in Seeds : n.date = d => n.seq <= top.seq

VARIABLES
    reservations,  \* the table
    form,          \* request -> the date and time it books
    number         \* request -> the reservation number it has taken

vars == <<reservations, form, number, frameVars>>

Forms == [date : Dates, time : Times]
NoForm == [date |-> NoOne, time |-> NoOne]
NoNumber == [date |-> NoOne, seq |-> 0]

\* The columns the properties speak of; status is always "pending" here.
RowsBy(creators) == [number : Numbers, date : Dates, time : Times \cup {NoOne},
                     photos : SUBSET Photos, by : creators]

SeedRow(n) == [number |-> n, date |-> n.date, time |-> NoOne, photos |-> {}, by |-> NoOne]

Init ==
    /\ reservations = {SeedRow(n) : n \in Seeds}
    /\ form = [r \in Requests |-> NoForm]
    /\ number = [r \in Requests |-> NoNumber]
    /\ FrameInit
-----------------------------------------------------------------------------
(* Reservation numbers, ReservationCodeUtil.                               *)

\* The sequences in use on a date among "rows": those found by estimateDate, of
\* which those count whose number starts with that date.
SequencesOn(rows, d) ==
    {row.number.seq : row \in {x \in rows : x.date = d /\ x.number.date = d}}

\* Mutation: the numbers are counted, not compared.
NextSequence_Count(seqs) == Cardinality(seqs) + 1

NextSequence(seqs) == IF seqs = {} THEN 1 ELSE Max(seqs) + 1

\* Mutation: reservation_number has lost its unique index.
Taken_NotUnique(n) == FALSE

\* The unique index on reservation_number.
Taken(n) == \E row \in reservations : row.number = n
-----------------------------------------------------------------------------
(* The handler.                                                            *)

\* The service is looked up, then all photos are sent.
Create(r, service, f, files) ==
    /\ pc[r] = "idle"
    /\ form' = [form EXCEPT ![r] = f]
    /\ \/ service \notin ActiveServices /\ Refuse(r)
       \/ service \in ActiveServices /\ StartUploads(r, files)
    /\ UNCHANGED <<reservations, number>>

\* Mutation: generate() is left its default date, the current day.
TakeNumber_Today(r) ==
    /\ StartSave(r)
    /\ \E today \in Dates :
          number' = [number EXCEPT ![r] =
             [date |-> today, seq |-> NextSequence(SequencesOn(reservations, form[r].date))]]
    /\ UNCHANGED <<reservations, form>>

\* find({ where: { estimateDate } }), getNextSequence, generate.
TakeNumber(r) ==
    /\ StartSave(r)
    /\ number' = [number EXCEPT ![r] =
          [date |-> form[r].date, seq |-> NextSequence(SequencesOn(reservations, form[r].date))]]
    /\ UNCHANGED <<reservations, form>>

\* That query fails (no connection, or a date PostgreSQL refuses): it stands
\* outside the try that cleans up.
ReadFails(r) == FailUnsaved(r) /\ UNCHANGED <<reservations, form, number>>

NewRow(r) == [number |-> number[r], date |-> form[r].date, time |-> form[r].time,
              photos |-> photos[r], by |-> r]

Insert(r) ==
    /\ Commit(r)
    /\ ~Taken(number[r])
    /\ reservations' = reservations \cup {NewRow(r)}
    /\ UNCHANGED <<form, number>>

\* The unique index rejects the row.
NumberConflict(r) ==
    /\ Reject(r)
    /\ Taken(number[r])
    /\ UNCHANGED <<reservations, form, number>>

Arrive(r) == \E s \in Services, f \in Forms, files \in SUBSET Photos : Create(r, s, f, files)

HandlerStep(r) ==
    \/ TakeNumber(r)
    \/ ReadFails(r)
    \/ Insert(r)
    \/ NumberConflict(r)
    \/ FrameStep(r) /\ UNCHANGED <<reservations, form, number>>

StoreStep(r) == Settle(r) /\ UNCHANGED <<reservations, form, number>>

Die(w) == Crash(w) /\ UNCHANGED <<reservations, form, number>>

Next ==
    \/ \E r \in Requests : Arrive(r) \/ HandlerStep(r) \/ StoreStep(r)
    \/ \E w \in Processes : Die(w)

\* Promises settle and the event loop runs what they release; clients need not
\* come and workers need not die.
Fairness == \A r \in Requests : WF_vars(HandlerStep(r)) /\ WF_vars(StoreStep(r))

Spec == Init /\ [][Next]_vars /\ Fairness
-----------------------------------------------------------------------------
(* Properties *)

\* Every variable stays in its type, and a request past its number query holds a
\* number of its own date.
TypeOK ==
    /\ reservations \subseteq RowsBy(Requests \cup {NoOne})
    /\ form \in [Requests -> Forms \cup {NoForm}]
    /\ number \in [Requests -> Numbers \cup {NoNumber}]
    /\ FrameTypeOK
    /\ \A r \in Requests :
          /\ InProgress(r) => form[r] \in Forms
          /\ pc[r] \in {"saving", "committed"} => number[r] \in Numbers
                                                 /\ number[r].date = form[r].date

\* Numbers are given out without gaps: whenever a row enters the table, its number is
\* of its own date, and the first of it or one more than the highest there at that very
\* moment, however old the list it was computed from (reservations.service.ts:89-123).
NumbersAreConsecutive ==
    [][\A row \in reservations' \ reservations :
          LET given == {x.number.seq : x \in {y \in reservations : y.number.date = row.date}}
          IN  /\ row.number.date = row.date
              /\ \/ given = {} /\ row.number.seq = 1
                 \/ \E last \in given : /\ \A seq \in given : seq <= last
                                         /\ row.number.seq = last + 1]_vars

\* A row never points at a photo that is not stored, unless its own request set
\* out to delete it: only a commit whose acknowledgement was lost can leave a row
\* whose photos the roll-back removes (reservations.service.ts:73-85, 129-135).
PhotosOfRowsAreStored ==
    \A row \in reservations, p \in Photos :
       p \in row.photos =>
          <<row.by, p>> \in blobs \/ upload[row.by][p] \in {"deleting", "deleted", "kept"}

\* An object no row refers to has a reason to be in the store: its request is
\* still at work or died, failed before it came to save (the paths out of create()
\* with no roll-back), or could not delete it
\* (reservations.service.ts:82-93, 714-726).
OrphansAreExplained ==
    \A r \in Requests, p \in Photos :
       <<r, p>> \in blobs =>
          \/ \E row \in reservations : row.by = r /\ p \in row.photos
          \/ OrphanHasCause(r, p)

\* What the caller is told is true of the table: "ok" means one row, with what was
\* asked and every photo stored; a failure before the save means no row.
AnswersAreTrue ==
    \A r \in Requests :
       LET rows == {row \in reservations : row.by = r}
       IN  /\ answer[r] = "ok" => /\ rows = {NewRow(r)}
                                /\ photos[r] \subseteq {p \in Photos : <<r, p>> \in blobs}
           /\ answer[r] \in {"refused", "uploadFailed", "notSaved"} => rows = {}

\* Every booking that starts ends, unless its process dies: no failed upload,
\* number conflict or failed delete leaves the caller waiting.
EveryBookingEnds ==
    \A r \in Requests : InProgress(r) ~> pc[r] \in {"answered", "dead"}

\* "Double booking is prevented" (README.md:446): no two live reservations share
\* a date and a time.
NoDoubleBooking ==
    \A x, y \in reservations :
       x.by # NoOne /\ y.by # NoOne /\ x.date = y.date /\ x.time = y.time => x = y
=============================================================================
