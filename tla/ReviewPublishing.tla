--------------------------- MODULE ReviewPublishing ---------------------------
(***************************************************************************)
(* ReviewsService.create and AdminReviewsService.delete, running beside    *)
(* the status handlers of the reservations they read.                      *)
(*                                                                         *)
(* A customer may review a reservation of his own once it is completed.    *)
(* The reservation, then the reviews are looked up before the uploads;     *)
(* neither is looked at again before the insert, and the unique index on   *)
(* reservation_id is what keeps two requests apart.                        *)
(***************************************************************************)
EXTENDS UploadThenSave

CONSTANTS
    StatusRequests,                          \* requests that change a status
    Ids, UnknownIds, Customers, CustomerOf,  \* see ReservationStatus
    Exposed, Serial, Seeded, Null,
    NoOne                                    \* the author's request of a seeded review

VARIABLES
    reviews,  \* the table
    target,   \* request -> the reservation it reviews
    \* The variables of ReservationStatus; those marked by "status" belong to the
    \* requests in StatusRequests.
    reservations, statusPc, statusAnswer, job, entity, dirty, undisturbed

Status == INSTANCE ReservationStatus
             WITH Requests <- StatusRequests, pc <- statusPc, answer <- statusAnswer

ASSUME ReviewConstants == NoOne \notin Requests /\ Status!StatusConstants

reviewVars == <<reviews, target, frameVars>>
statusVars == <<reservations, statusPc, statusAnswer, job, entity, dirty, undisturbed>>
vars == <<reviewVars, statusVars>>

\* customer_id of a review is the one of the request's token.
Reviews == [reservation : Ids, customer : Customers, images : SUBSET Photos,
            by : Requests \cup {NoOne}]

SeedReview(i) == [reservation |-> i, customer |-> CustomerOf[i], images |-> {}, by |-> NoOne]

NoTarget == [reservation |-> Null, customer |-> Null]

\* Seeds: reservations in any status, reviews of some that are completed.
Init ==
    /\ Status!Init
    /\ \E seeded \in SUBSET {i \in Ids : reservations[i].status = "completed"} :
          reviews = {SeedReview(i) : i \in seeded}
    /\ target = [r \in Requests |-> NoTarget]
    /\ FrameInit
-----------------------------------------------------------------------------
\* Mutation: any own reservation may be reviewed.
MayReview_AnyStatus(id, customer) ==
    id \in Ids /\ CustomerOf[id] = customer

\* It exists, is the customer's own, and completed.
MayReview(id, customer) ==
    id \in Ids /\ CustomerOf[id] = customer /\ reservations[id].status = "completed"

\* Mutation: whose reservation it is goes unchecked, and unlooked-up.
FindReservation_Anyones(r, id, customer) ==
    /\ pc[r] = "idle"
    /\ \/ id \notin Ids /\ Refuse(r) /\ UNCHANGED target
       \/ /\ id \in Ids /\ reservations[id].status = "completed"
          /\ StartChecks(r)
          /\ target' = [target EXCEPT ![r] = [reservation |-> id, customer |-> customer]]
    /\ UNCHANGED <<reviews, statusVars>>

FindReservation(r, id, customer) ==
    /\ pc[r] = "idle"
    /\ \/ ~MayReview(id, customer) /\ Refuse(r) /\ UNCHANGED target
       \/ /\ MayReview(id, customer)
          /\ StartChecks(r)
          /\ target' = [target EXCEPT ![r] = [reservation |-> id, customer |-> customer]]
    /\ UNCHANGED <<reviews, statusVars>>

Reviewed(i) == \E review \in reviews : review.reservation = i

\* Has the reservation a review already?  If not, the images are sent.
FindReview(r, files) ==
    /\ pc[r] = "checking"
    /\ \/ Reviewed(target[r].reservation) /\ Refuse(r)
       \/ ~Reviewed(target[r].reservation) /\ StartUploads(r, files)
    /\ UNCHANGED <<reviews, target, statusVars>>

Save(r) == StartSave(r) /\ UNCHANGED <<reviews, target, statusVars>>

NewReview(r) == [reservation |-> target[r].reservation, customer |-> target[r].customer,
                 images |-> photos[r], by |-> r]

\* Mutation: reservation_id has lost its unique index.
Rejected_NotUnique(r) == FALSE

\* The unique index on reservation_id.
Rejected(r) == Reviewed(target[r].reservation)

Insert(r) ==
    /\ Commit(r)
    /\ ~Rejected(r)
    /\ reviews' = reviews \cup {NewReview(r)}
    /\ UNCHANGED <<target, statusVars>>

Duplicate(r) ==
    /\ Reject(r)
    /\ Rejected(r)
    /\ UNCHANGED <<reviews, target, statusVars>>

\* An administrator deletes a review by its id, for good; its images stay.  The
\* lookup before only decides between 200 and 404.
Delete(review) ==
    /\ review \in reviews
    /\ reviews' = reviews \ {review}
    /\ UNCHANGED <<target, frameVars, statusVars>>

Arrive(r) == \E id \in Ids \cup UnknownIds, c \in Customers : FindReservation(r, id, c)

HandlerStep(r) ==
    \/ \E files \in SUBSET Photos : FindReview(r, files)
    \/ Save(r)
    \/ Insert(r)
    \/ Duplicate(r)
    \/ FrameStep(r) /\ UNCHANGED <<reviews, target, statusVars>>

StoreStep(r) == Settle(r) /\ UNCHANGED <<reviews, target, statusVars>>

Die(w) == Crash(w) /\ UNCHANGED <<reviews, target, statusVars>>

StatusStep == Status!Next /\ UNCHANGED reviewVars

Next ==
    \/ \E r \in Requests : Arrive(r) \/ HandlerStep(r) \/ StoreStep(r)
    \/ \E w \in Processes : Die(w)
    \/ \E review \in reviews : Delete(review)
    \/ StatusStep

Spec == Init /\ [][Next]_vars
-----------------------------------------------------------------------------
(* Properties *)

\* Every variable stays in its type, and whoever got past the first check, or has
\* a review, is the customer of that reservation.
TypeOK ==
    /\ reviews \subseteq Reviews
    /\ target \in [Requests -> [reservation : Ids, customer : Customers] \cup {NoTarget}]
    /\ FrameTypeOK
    /\ \A r \in Requests : InProgress(r) =>
          /\ target[r].reservation \in Ids
          /\ target[r].customer = CustomerOf[target[r].reservation]
    /\ \A review \in reviews : review.customer = CustomerOf[review.reservation]

\* An object no review refers to has a reason to be in the store: one of those a
\* reservation's photo can have, or an administrator deleted its review, which
\* leaves the images (admin-reviews.service.ts:67-77).
OrphansAreExplained ==
    \A r \in Requests, p \in Photos :
       <<r, p>> \in blobs =>
          \/ \E review \in reviews : review.by = r /\ p \in review.images
          \/ OrphanHasCause(r, p)
          \/ r \in saved /\ answer[r] = "ok"

\* What the caller is told is true of the table.  "ok": the review is there as it
\* was sent, with all its images stored, or was there and an administrator deleted
\* it.  A failure before the save: no review.  And however many customers' requests
\* passed the check together, a reservation has one review at most
\* (reviews.service.ts:63-69, 87-111).
AnswersAreTrue ==
    /\ \A r \in Requests :
          LET mine == {review \in reviews : review.by = r}
          IN  /\ answer[r] = "ok" =>
                    /\ r \in saved
                    /\ mine \subseteq {NewReview(r)}
                    /\ photos[r] \subseteq {p \in Photos : <<r, p>> \in blobs}
              /\ answer[r] \in {"refused", "uploadFailed", "notSaved"} => mine = {}
    /\ \A x, y \in reviews : x.reservation = y.reservation => x = y

\* The status a review was allowed on is stale when the row is written: the
\* reservation may have been cancelled, or confirmed again, since.  What can not
\* happen, by any order of the handlers of both services, is a review of a
\* reservation that is still, or again, pending
\* (reviews.service.ts:55-60, 87-97; admin-reservations.service.ts:109-156).
ReviewedIsNotPending ==
    \A review \in reviews : reservations[review.reservation].status # "pending"
=============================================================================
