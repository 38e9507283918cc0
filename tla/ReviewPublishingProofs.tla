------------------------ MODULE ReviewPublishingProofs ------------------------
(***************************************************************************)
(* Machine-checked theorems about ReviewPublishing, for every set of       *)
(* requests, photos, processes, reservations and customers.  The frame of  *)
(* the handler and the status handlers beside it bring their own           *)
(* invariants, proved in UploadThenSaveProofs and ReservationStatusProofs. *)
(***************************************************************************)
EXTENDS ReviewPublishing, UploadThenSaveProofs

\* The proofs about the status handlers, for the variables they have here.
SP == INSTANCE ReservationStatusProofs
        WITH Requests <- StatusRequests, pc <- statusPc, answer <- statusAnswer

-----------------------------------------------------------------------------
(* The two components inside.                                              *)

LEMMA StatusAssumptions == SP!StatusConstants
  BY ReviewConstants DEF Status!StatusConstants, SP!StatusConstants, Status!Handlers,
                         SP!Handlers

\* Both instances of ReservationStatus take the same steps.
LEMMA SameStatus == Status!Init = SP!Init /\ Status!Next = SP!Next /\ Status!vars = SP!vars
  <1> USE DEF Status!Statuses, SP!Statuses, Status!SeedRow, SP!SeedRow
  <1>1. Status!Init = SP!Init
    BY DEF Status!Init, SP!Init, Status!NoRow, SP!NoRow, Status!NoJob, SP!NoJob
  <1>2. Status!Next = SP!Next
    BY DEF Status!Next, SP!Next, Status!Handle, SP!Handle, Status!SaveLoad, SP!SaveLoad,
           Status!SaveWrite, SP!SaveWrite, Status!Dirty, SP!Dirty, Status!Merge, SP!Merge,
           Status!Cancel, SP!Cancel, Status!UpdateStatus, SP!UpdateStatus,
           Status!AdminUpdateStatus, SP!AdminUpdateStatus, Status!AdminCancel, SP!AdminCancel,
           Status!AdminChange, SP!AdminChange, Status!AdminStatuses, SP!AdminStatuses,
           Status!Arrives, SP!Arrives, Status!InProgress, SP!InProgress, Status!Hold, SP!Hold,
           Status!Refuse, SP!Refuse, Status!CancelRefusal, SP!CancelRefusal,
           Status!UpdateRefusal, SP!UpdateRefusal, Status!ValidTransitions,
           SP!ValidTransitions
  <1>3. Status!vars = SP!vars
    BY DEF Status!vars, SP!vars
  <1>4. QED
    BY <1>1, <1>2, <1>3

\* A step of the whole is a step of either part, or none.
LEMMA PartsStep ==
    ASSUME [Next]_vars
    PROVE  /\ [FrameNext]_frameVars
           /\ [SP!Next]_(SP!vars)
  <1> USE DEF FrameNext, FrameMove, Moves
  <1>1. CASE Status!Next /\ UNCHANGED reviewVars
    BY <1>1, SameStatus DEF reviewVars, frameVars
  <1>2. CASE UNCHANGED vars
    BY <1>2 DEF vars, reviewVars, frameVars, statusVars, SP!vars
  <1>3. CASE FrameNext /\ UNCHANGED statusVars
    BY <1>3 DEF statusVars, SP!vars
  <1>4. ASSUME NEW r \in Requests, Arrive(r) PROVE FrameNext /\ UNCHANGED statusVars
    BY <1>4 DEF Arrive, FindReservation
  <1>5. ASSUME NEW r \in Requests, HandlerStep(r) PROVE FrameNext /\ UNCHANGED statusVars
    BY <1>5 DEF HandlerStep, FindReview, Save, Insert, Duplicate, FrameStep
  <1>6. ASSUME NEW r \in Requests, StoreStep(r) PROVE FrameNext /\ UNCHANGED statusVars
    BY <1>6 DEF StoreStep
  <1>7. ASSUME NEW w \in Processes, Die(w) PROVE FrameNext /\ UNCHANGED statusVars
    BY <1>7 DEF Die
  <1>8. ASSUME NEW review \in reviews, Delete(review)
        PROVE  UNCHANGED frameVars /\ UNCHANGED statusVars
    BY <1>8 DEF Delete
  <1>9. QED
    BY <1>1, <1>2, <1>3, <1>4, <1>5, <1>6, <1>7, <1>8
       DEF Next, StatusStep, statusVars, SP!vars

PartsInv == FrameInv /\ SP!IInv

LEMMA PartsStart == Init => PartsInv
  BY FrameStarts, SameStatus, StatusAssumptions, SP!InitIInv DEF Init, PartsInv

LEMMA PartsKeepInv == PartsInv /\ [Next]_vars => PartsInv'
  <1> SUFFICES ASSUME PartsInv, [Next]_vars PROVE PartsInv'
    OBVIOUS
  <1>1. FrameInv'
    BY PartsStep, FrameKeepsInv DEF PartsInv
  <1>2. SP!IInv'
    BY PartsStep, StatusAssumptions, SP!NextKeepsIInv DEF PartsInv
  <1>3. QED
    BY <1>1, <1>2 DEF PartsInv

LEMMA PartsInvHold == Spec => []PartsInv
  BY PartsStart, PartsKeepInv, PTL DEF Spec

\* No step takes a reservation back to "pending".
LEMMA NeverBack ==
    ASSUME PartsInv, [Next]_vars, NEW i \in Ids, reservations[i].status # "pending"
    PROVE  reservations'[i].status # "pending"
  BY PartsStep, StatusAssumptions, SP!StepNeverBack DEF PartsInv
-----------------------------------------------------------------------------
(* The reviews.                                                            *)

\* A reservation that was, once, seen completed by a customer of its own.
Reviewable(i, customer) ==
    /\ i \in Ids
    /\ customer = CustomerOf[i]
    /\ reservations[i].status # "pending"

\* Whoever is past the first check names a reservation he may review; every review
\* is of such a one, alone on it, and the one its request sent.
ReviewInv ==
    /\ target \in [Requests -> [reservation : Ids, customer : Customers] \cup {NoTarget}]
    /\ \A r \in Requests : InProgress(r) =>
          Reviewable(target[r].reservation, target[r].customer)
    /\ reviews \subseteq Reviews
    /\ \A review \in reviews : Reviewable(review.reservation, review.customer)
    /\ \A x, y \in reviews : x.reservation = y.reservation => x = y
    /\ \A review \in reviews, r \in Requests :
          review.by = r => r \in saved /\ review = NewReview(r)

LEMMA InitReviews == Init => ReviewInv
  <1> SUFFICES ASSUME Init PROVE ReviewInv
    OBVIOUS
  <1>1. PICK seeded \in SUBSET {i \in Ids : reservations[i].status = "completed"} :
           reviews = {SeedReview(i) : i \in seeded}
    BY DEF Init
  <1>2. CustomerOf \in [Ids -> Customers] /\ NoOne \notin Requests
    BY ReviewConstants DEF Status!StatusConstants
  <1>3. ASSUME NEW review \in reviews
        PROVE  /\ review \in Reviews /\ review = SeedReview(review.reservation)
               /\ Reviewable(review.reservation, review.customer)
               /\ review.by = NoOne
    <2>1. PICK i \in seeded : review = SeedReview(i)
      BY <1>1
    <2>2. i \in Ids /\ reservations[i].status = "completed" /\ CustomerOf[i] \in Customers
      BY <1>2
    <2>3. /\ review.reservation = i /\ review.customer = CustomerOf[i]
          /\ review.images = {} /\ review.by = NoOne
      BY <2>1 DEF SeedReview
    <2>4. QED
      BY <2>1, <2>2, <2>3 DEF Reviewable, Reviews, SeedReview
  <1>4. target \in [Requests -> [reservation : Ids, customer : Customers] \cup {NoTarget}]
    BY DEF Init
  <1>5. \A r \in Requests : ~InProgress(r)
    BY DEF Init, FrameInit, InProgress
  <1>6. \A x, y \in reviews : x.reservation = y.reservation => x = y
    BY <1>3
  <1>7. QED
    BY <1>2, <1>3, <1>4, <1>5, <1>6 DEF ReviewInv

\* Steps that add no review and give no request a target or a commit.
LEMMA QuietStep ==
    ASSUME PartsInv, ReviewInv, [Next]_vars,
           reviews' \subseteq reviews, target' = target, saved' = saved,
           \A q \in Requests : InProgress(q)' => InProgress(q),
           \A q \in saved : photos'[q] = photos[q]
    PROVE  ReviewInv'
  <1>1. ASSUME NEW q \in Requests, InProgress(q)'
        PROVE  Reviewable(target[q].reservation, target[q].customer)'
    BY <1>1, NeverBack DEF ReviewInv, Reviewable
  <1>2. ASSUME NEW review \in reviews'
        PROVE  Reviewable(review.reservation, review.customer)'
    BY <1>2, NeverBack DEF ReviewInv, Reviewable
  <1>3. ASSUME NEW review \in reviews', NEW q \in Requests, review.by = q
        PROVE  q \in saved' /\ review = NewReview(q)'
    BY <1>3 DEF ReviewInv, NewReview
  <1>4. QED
    BY <1>1, <1>2, <1>3 DEF ReviewInv

\* A request passes the first check.
LEMMA FindReservationKeepsReviews ==
    ASSUME PartsInv, ReviewInv, [Next]_vars, NEW r \in Requests,
           NEW id \in Ids \cup UnknownIds, NEW c \in Customers, FindReservation(r, id, c)
    PROVE  ReviewInv'
  <1>0. FrameTypeOK /\ FlowInv(r)
    BY DEF PartsInv, FrameInv
  <1>1. CASE Refuse(r) /\ UNCHANGED target
    <2>1. \A q \in Requests : InProgress(q)' => InProgress(q)
      BY <1>0, <1>1 DEF Refuse, Answer, Goto, FrameTypeOK, InProgress
    <2>2. QED
      BY <1>1, <2>1, QuietStep DEF FindReservation, Refuse
  <1>2. CASE /\ MayReview(id, c) /\ StartChecks(r)
             /\ target' = [target EXCEPT ![r] = [reservation |-> id, customer |-> c]]
    <2>1. /\ reviews' = reviews /\ saved' = saved /\ photos' = photos
          /\ reservations' = reservations /\ r \notin saved
          /\ \A q \in Requests \ {r} : pc'[q] = pc[q] /\ target'[q] = target[q]
          /\ target'[r] = [reservation |-> id, customer |-> c]
      BY <1>0, <1>2 DEF FindReservation, StartChecks, Goto, FrameTypeOK, FlowInv, statusVars,
                        ReviewInv
    <2>2. /\ Reviewable(id, c)
          /\ [reservation |-> id, customer |-> c] \in [reservation : Ids, customer : Customers]
      BY <1>2 DEF MayReview, Reviewable
    <2>3. target' \in [Requests -> [reservation : Ids, customer : Customers] \cup {NoTarget}]
      BY <1>2, <2>2 DEF ReviewInv
    <2>4. ASSUME NEW q \in Requests, InProgress(q)'
          PROVE  Reviewable(target[q].reservation, target[q].customer)'
      <3>1. CASE q = r
        BY <2>1, <2>2, <3>1 DEF Reviewable
      <3>2. CASE q # r
        BY <2>1, <2>4, <3>2 DEF Reviewable, ReviewInv, InProgress
      <3>3. QED
        BY <3>1, <3>2
    <2>5. ASSUME NEW review \in reviews', NEW q \in Requests, review.by = q
          PROVE  q \in saved' /\ review = NewReview(q)'
      BY <2>1, <2>5 DEF ReviewInv, NewReview
    <2>6. \A review \in reviews' : Reviewable(review.reservation, review.customer)'
      BY <2>1 DEF ReviewInv, Reviewable
    <2>7. QED
      BY <2>1, <2>3, <2>4, <2>5, <2>6 DEF ReviewInv
  <1>3. QED
    BY <1>1, <1>2 DEF FindReservation

LEMMA InsertKeepsReviews ==
    ASSUME PartsInv, ReviewInv, [Next]_vars, NEW r \in Requests, Insert(r)
    PROVE  ReviewInv'
  <1>1. FrameTypeOK /\ FlowInv(r)
    BY DEF PartsInv, FrameInv
  <1>2. /\ reviews' = reviews \cup {NewReview(r)} /\ saved' = saved \cup {r}
        /\ target' = target /\ photos' = photos /\ reservations' = reservations
        /\ r \notin saved /\ InProgress(r) /\ ~Reviewed(target[r].reservation)
        /\ \A q \in Requests : InProgress(q)' <=> InProgress(q)
    BY <1>1 DEF Insert, Commit, Goto, statusVars, FrameTypeOK, FlowInv, InProgress, Rejected
  <1>3. /\ NewReview(r).by = r
        /\ NewReview(r).reservation = target[r].reservation
        /\ NewReview(r).customer = target[r].customer
        /\ \A q : NewReview(q)' = NewReview(q)
    BY <1>2 DEF NewReview
  <1>4. Reviewable(target[r].reservation, target[r].customer)
    BY <1>2 DEF ReviewInv
  <1>5. NewReview(r) \in Reviews
    <2>1. target[r].reservation \in Ids /\ target[r].customer \in Customers
      BY <1>4, ReviewConstants DEF Reviewable, Status!StatusConstants
    <2>2. QED
      BY <1>1, <2>1 DEF NewReview, Reviews, FrameTypeOK
  <1>6. \A x, y \in reviews' : x.reservation = y.reservation => x = y
    BY <1>2, <1>3 DEF ReviewInv, Reviewed
  <1>7. \A review \in reviews' : Reviewable(review.reservation, review.customer)'
    BY <1>2, <1>3, <1>4 DEF ReviewInv, Reviewable
  <1>8. ASSUME NEW q \in Requests, InProgress(q)'
        PROVE  Reviewable(target[q].reservation, target[q].customer)'
    BY <1>2, <1>8 DEF ReviewInv, Reviewable
  <1>9. ASSUME NEW review \in reviews', NEW q \in Requests, review.by = q
        PROVE  q \in saved' /\ review = NewReview(q)'
    BY <1>2, <1>3, <1>9 DEF ReviewInv
  <1>10. QED
    BY <1>2, <1>5, <1>6, <1>7, <1>8, <1>9 DEF ReviewInv

LEMMA NextKeepsReviews == PartsInv /\ ReviewInv /\ [Next]_vars => ReviewInv'
  <1> SUFFICES ASSUME PartsInv, ReviewInv, [Next]_vars PROVE ReviewInv'
    OBVIOUS
  <1> DEFINE Quiet == /\ reviews' \subseteq reviews /\ target' = target /\ saved' = saved
                      /\ \A q \in Requests : InProgress(q)' => InProgress(q)
                      /\ \A q \in saved : photos'[q] = photos[q]
  <1>1. Quiet => ReviewInv'
    BY QuietStep
  <1>2. FrameTypeOK /\ \A q \in Requests : FlowInv(q)
    BY DEF PartsInv, FrameInv
  <1>3. ASSUME NEW r \in Requests, NEW files \in SUBSET Photos, FindReview(r, files) PROVE Quiet
    BY <1>2, <1>3 DEF FindReview, Refuse, StartUploads, Answer, Goto, InProgress, FrameTypeOK,
                      FlowInv
  <1>4. ASSUME NEW r \in Requests, Save(r) \/ FrameStep(r) \/ Reject(r) \/ Settle(r),
               UNCHANGED <<reviews, target>>
        PROVE  Quiet
    BY <1>2, <1>4 DEF Save, StartSave, Uploaded, FrameStep, Reject, Settle, UploadFails,
                      ConnectionLost, Reply, CleanupEnds, RollBack, Answer, Goto, InProgress,
                      FrameTypeOK
  <1>5. ASSUME NEW w \in Processes, Die(w) PROVE Quiet
    BY <1>5 DEF Die, Crash, InProgress
  <1>6. ASSUME NEW review \in reviews, Delete(review) PROVE Quiet
    BY <1>6 DEF Delete, frameVars, InProgress
  <1>7. CASE UNCHANGED reviewVars
    <2>1. reviews' = reviews /\ target' = target /\ saved' = saved /\ pc' = pc /\ photos' = photos
      BY <1>7 DEF reviewVars, frameVars
    <2>2. QED
      BY <1>1, <2>1 DEF InProgress
  <1>8. QED
    BY <1>1, <1>3, <1>4, <1>5, <1>6, <1>7, FindReservationKeepsReviews, InsertKeepsReviews
       DEF Next, Arrive, HandlerStep, Save, Duplicate, StoreStep, StatusStep, vars

LEMMA ReviewInvHolds == Spec => []ReviewInv
  BY InitReviews, NextKeepsReviews, PartsInvHold, PTL DEF Spec
-----------------------------------------------------------------------------

\* Type correctness, and that whoever passed the check, or has a review, is the
\* customer of that reservation.
THEOREM TypeCorrect == Spec => []TypeOK
  <1>1. PartsInv /\ ReviewInv => TypeOK
    <2> SUFFICES ASSUME PartsInv, ReviewInv PROVE TypeOK
      OBVIOUS
    <2>1. ASSUME NEW r \in Requests, InProgress(r)
          PROVE  /\ target[r].reservation \in Ids
                 /\ target[r].customer = CustomerOf[target[r].reservation]
      BY <2>1 DEF ReviewInv, Reviewable
    <2>2. QED
      BY <2>1 DEF TypeOK, PartsInv, FrameInv, ReviewInv, Reviewable
  <1>2. QED
    BY <1>1, PartsInvHold, ReviewInvHolds, PTL

\* An object without a review has one of the listed reasons to be there.
THEOREM OrphansExplained == Spec => []OrphansAreExplained
  <1>1. PartsInv => OrphansAreExplained
    BY UnsavedOrphans DEF PartsInv, FrameInv, FlowInv, OrphansAreExplained
  <1>2. QED
    BY <1>1, PartsInvHold, PTL

\* What an author is told is true of the reviews and of the store, and no
\* reservation gets two reviews however many requests pass the check together.
THEOREM AnswersTrue == Spec => []AnswersAreTrue
  <1>1. PartsInv /\ ReviewInv => AnswersAreTrue
    <2> SUFFICES ASSUME PartsInv, ReviewInv PROVE AnswersAreTrue
      OBVIOUS
    <2>1. ASSUME NEW r \in Requests
          PROVE  LET mine == {review \in reviews : review.by = r}
                 IN  /\ answer[r] = "ok" =>
                           /\ r \in saved
                           /\ mine \subseteq {NewReview(r)}
                           /\ photos[r] \subseteq {p \in Photos : <<r, p>> \in blobs}
                     /\ answer[r] \in {"refused", "uploadFailed", "notSaved"} => mine = {}
      <3>1. /\ FlowInv(r) /\ photos[r] \subseteq Photos
            /\ \A p \in Photos : PhotoInv(r, p)
        BY DEF PartsInv, FrameInv, FrameTypeOK
      <3>2. QED
        BY <3>1 DEF ReviewInv, FlowInv, PhotoInv
    <2>2. \A x, y \in reviews : x.reservation = y.reservation => x = y
      BY DEF ReviewInv
    <2>3. QED
      BY <2>1, <2>2 DEF AnswersAreTrue
  <1>2. QED
    BY <1>1, PartsInvHold, ReviewInvHolds, PTL

\* No review is of a reservation that is still, or again, pending, whatever the
\* status handlers did between the check and the insert, and after it.
THEOREM NoPendingReviewed == Spec => []ReviewedIsNotPending
  <1>1. ReviewInv => ReviewedIsNotPending
    BY DEF ReviewInv, Reviewable, ReviewedIsNotPending
  <1>2. QED
    BY <1>1, ReviewInvHolds, PTL
=============================================================================
