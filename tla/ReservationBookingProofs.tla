----------------------- MODULE ReservationBookingProofs -----------------------
(***************************************************************************)
(* Machine-checked theorems about ReservationBooking, for every set of     *)
(* requests, processes, photos, dates and seeded numbers.                  *)
(***************************************************************************)
EXTENDS ReservationBooking, UploadThenSaveProofs

-----------------------------------------------------------------------------
(* Facts about the numbering operators.                                    *)

\* "top" is the highest element of S.
IsTop(top, S) == top \in S /\ \A x \in S : x <= top

LEMMA MaxIsTop ==
    ASSUME NEW S \in SUBSET Nat, NEW top, IsTop(top, S)
    PROVE  Max(S) = top
  <1>1. \A m \in S : (\A y \in S : m >= y) => m = top
    BY DEF IsTop
  <1>2. top \in S /\ \A y \in S : top >= y
    BY DEF IsTop
  <1>3. QED
    BY <1>1, <1>2 DEF Max

\* The next sequence of a set with a top is new, and becomes the top.
LEMMA NextIsNewTop ==
    ASSUME NEW S \in SUBSET Nat, S = {} \/ \E top \in S : IsTop(top, S)
    PROVE  /\ NextSequence(S) \in Nat
           /\ NextSequence(S) \notin S
           /\ IsTop(NextSequence(S), S \cup {NextSequence(S)})
  <1>1. CASE S = {}
    BY <1>1 DEF NextSequence, IsTop
  <1>2. CASE S # {}
    <2>1. PICK top \in S : IsTop(top, S)
      BY <1>2
    <2>2. NextSequence(S) = top + 1 /\ top \in Nat
      BY <1>2, <2>1, MaxIsTop DEF NextSequence
    <2>3. QED
      BY <2>2, <2>1 DEF IsTop
  <1>3. QED
    BY <1>1, <1>2

\* It is the first, or one more than the top.
LEMMA NextFollowsTop ==
    ASSUME NEW S \in SUBSET Nat, S = {} \/ \E top \in S : IsTop(top, S)
    PROVE  \/ S = {} /\ NextSequence(S) = 1
           \/ \E last \in S : (\A seq \in S : seq <= last) /\ NextSequence(S) = last + 1
  <1>1. CASE S = {}
    BY <1>1 DEF NextSequence
  <1>2. CASE S # {}
    BY <1>2, MaxIsTop DEF NextSequence, IsTop
  <1>3. QED
    BY <1>1, <1>2
-----------------------------------------------------------------------------
(* The inductive invariant.                                                *)

\* Each date's sequences are natural numbers with a highest one.
Bounded(d) ==
    /\ SequencesOn(reservations, d) \in SUBSET Nat
    /\ \/ SequencesOn(reservations, d) = {}
       \/ \E top \in SequencesOn(reservations, d) : IsTop(top, SequencesOn(reservations, d))

\* Every row is numbered for its own date.
RowsNumbered == \A row \in reservations : row.number.date = row.date

\* The number a saving request holds is given out already, or is the next one.
ClaimIsTakenOrNext(r) ==
    pc[r] = "saving" =>
       \/ number[r].seq \in SequencesOn(reservations, form[r].date)
       \/ number[r].seq = NextSequence(SequencesOn(reservations, form[r].date))

NumberingInv ==
    /\ TypeOK
    /\ RowsNumbered
    /\ \A d \in Dates : Bounded(d)
    /\ \A r \in Requests : ClaimIsTakenOrNext(r)

LEMMA InitTypeOK == Init => TypeOK
  <1> SUFFICES ASSUME Init PROVE TypeOK
    OBVIOUS
  <1>1. reservations \subseteq RowsBy(Requests \cup {NoOne})
    BY BookingConstants DEF Init, SeedRow, RowsBy, Numbers
  <1>2. FrameTypeOK
    BY FrameStarts DEF Init, FrameInv
  <1>3. /\ form \in [Requests -> Forms \cup {NoForm}]
        /\ number \in [Requests -> Numbers \cup {NoNumber}]
    BY DEF Init
  <1>4. QED
    BY <1>1, <1>2, <1>3 DEF Init, FrameInit, TypeOK, InProgress

LEMMA InitNumbering == Init => NumberingInv
  <1> SUFFICES ASSUME Init PROVE NumberingInv
    OBVIOUS
  <1>1. TypeOK
    BY InitTypeOK
  <1>2. RowsNumbered
    BY DEF Init, RowsNumbered, SeedRow
  <1>3. ASSUME NEW d \in Dates PROVE Bounded(d)
    <2>1. \A x : x \in SequencesOn(reservations, d) <=> \E n \in Seeds : n.date = d /\ n.seq = x
      <3>1. reservations = {SeedRow(n) : n \in Seeds}
        BY DEF Init
      <3>2. \A n : SeedRow(n).date = n.date /\ SeedRow(n).number = n
        BY DEF SeedRow
      <3>3. QED
        BY <3>1, <3>2 DEF SequencesOn
    <2>2. SequencesOn(reservations, d) \in SUBSET Nat
      BY <2>1, BookingConstants DEF Numbers
    <2>3. CASE \E n \in Seeds : n.date = d
      <3>1. PICK top \in Seeds : /\ top.date = d
                                 /\ \A n \in Seeds : n.date = d => n.seq <= top.seq
        BY <2>3, SeedsBounded
      <3>2. IsTop(top.seq, SequencesOn(reservations, d))
        BY <2>1, <3>1 DEF IsTop
      <3>3. QED
        BY <2>2, <3>2 DEF Bounded, IsTop
    <2>4. CASE ~ \E n \in Seeds : n.date = d
      BY <2>1, <2>2, <2>4 DEF Bounded
    <2>5. QED
      BY <2>3, <2>4
  <1>4. \A r \in Requests : ClaimIsTakenOrNext(r)
    BY DEF Init, FrameInit, ClaimIsTakenOrNext
  <1>5. QED
    BY <1>1, <1>2, <1>3, <1>4 DEF NumberingInv

\* As far as the frame sees it, booking does nothing but the steps of the frame.
LEMMA BookingIsFramed == [Next]_vars => [FrameNext]_frameVars
  <1> SUFFICES ASSUME [Next]_vars PROVE [FrameNext]_frameVars
    OBVIOUS
  <1> USE DEF FrameNext, FrameMove, Moves
  <1>1. ASSUME NEW r \in Requests, Arrive(r) PROVE FrameNext
    BY <1>1 DEF Arrive, Create
  <1>2. ASSUME NEW r \in Requests, HandlerStep(r) PROVE FrameNext
    BY <1>2 DEF HandlerStep, TakeNumber, ReadFails, Insert, NumberConflict, FrameStep
  <1>3. ASSUME NEW r \in Requests, StoreStep(r) PROVE FrameNext
    BY <1>3 DEF StoreStep
  <1>4. ASSUME NEW w \in Processes, Die(w) PROVE FrameNext
    BY <1>4 DEF Die
  <1>5. CASE UNCHANGED vars
    BY <1>5 DEF vars
  <1>6. QED
    BY <1>1, <1>2, <1>3, <1>4, <1>5 DEF Next

LEMMA FrameInvHolds == Spec => []FrameInv
  <1>1. Init => FrameInv
    BY FrameStarts DEF Init
  <1>2. FrameInv /\ [Next]_vars => FrameInv'
    BY BookingIsFramed, FrameKeepsInv
  <1>3. QED
    BY <1>1, <1>2, PTL DEF Spec

\* The row a saving request inserts is a row.
LEMMA NewRowType ==
    ASSUME TypeOK, NEW r \in Requests, pc[r] \in {"saving", "committed"}
    PROVE  /\ NewRow(r) \in RowsBy(Requests \cup {NoOne})
           /\ number[r] \in Numbers /\ form[r] \in Forms
           /\ number[r].date = form[r].date
  BY DEF TypeOK, FrameTypeOK, NewRow, RowsBy, InProgress, Forms

\* The number taken is a number of the form's date.
LEMMA TakenNumber ==
    ASSUME TypeOK, \A d \in Dates : Bounded(d), NEW r \in Requests, TakeNumber(r)
    PROVE  /\ number'[r] \in Numbers
           /\ number'[r].date = form[r].date
           /\ number'[r].seq = NextSequence(SequencesOn(reservations, form[r].date))
  <1>1. form[r] \in Forms /\ form[r].date \in Dates
    BY DEF TypeOK, TakeNumber, StartSave, Uploaded, InProgress, Forms
  <1>2. NextSequence(SequencesOn(reservations, form[r].date)) \in Nat
    BY <1>1, NextIsNewTop DEF Bounded
  <1>3. number'[r] = [date |-> form[r].date, seq |-> NextSequence(SequencesOn(reservations, form[r].date))]
    BY DEF TypeOK, TakeNumber
  <1>4. QED
    BY <1>1, <1>2, <1>3 DEF Numbers

LEMMA NextKeepsTypeOK ==
    ASSUME FrameInv, TypeOK, \A d \in Dates : Bounded(d), [Next]_vars
    PROVE  TypeOK'
  <1>1. FrameTypeOK'
    BY BookingIsFramed, FrameKeepsInv DEF FrameInv
  <1>2. ASSUME NEW r \in Requests, NEW s \in Services, NEW f \in Forms,
               NEW files \in SUBSET Photos, Create(r, s, f, files)
        PROVE  TypeOK'
    <2>1. form' \in [Requests -> Forms \cup {NoForm}] /\ form'[r] = f
      BY <1>2 DEF Create, TypeOK
    <2>2. /\ pc'[r] \notin {"saving", "committed"}
          /\ \A q \in Requests \ {r} : pc'[q] = pc[q]
      BY <1>2 DEF Create, TypeOK, FrameTypeOK, Refuse, StartUploads, Answer, Goto
    <2>3. QED
      BY <1>1, <1>2, <2>1, <2>2 DEF Create, TypeOK, InProgress
  <1>3. ASSUME NEW r \in Requests, FrameStep(r) \/ FailUnsaved(r) \/ Reject(r) \/ Settle(r),
               UNCHANGED <<reservations, form, number>>
        PROVE  TypeOK'
    <2>1. \A q \in Requests : pc'[q] = pc[q] \/ pc'[q] = "answered"
                              \/ (InProgress(q) /\ pc'[q] = "cleaning")
      BY <1>3 DEF FrameStep, FailUnsaved, Reject, Settle, UploadFails, ConnectionLost, Reply,
                  CleanupEnds, RollBack, Answer, Goto, TypeOK, FrameTypeOK, InProgress
    <2>2. QED
      BY <1>1, <1>3, <2>1 DEF TypeOK, InProgress
  <1>4. ASSUME NEW r \in Requests, TakeNumber(r) PROVE TypeOK'
    <2>1. number' \in [Requests -> Numbers \cup {NoNumber}]
      <3>1. \A q \in Requests : number'[q] \in Numbers \cup {NoNumber}
        BY <1>4, TakenNumber DEF TypeOK, TakeNumber
      <3>2. QED
        BY <1>4, <3>1 DEF TypeOK, TakeNumber
    <2>2. /\ InProgress(r) /\ \A q \in Requests \ {r} : pc'[q] = pc[q] /\ number'[q] = number[q]
      BY <1>4 DEF TakeNumber, StartSave, Uploaded, Goto, TypeOK, FrameTypeOK, InProgress
    <2>3. number'[r] \in Numbers /\ number'[r].date = form[r].date
      BY <1>4, TakenNumber
    <2>4. QED
      BY <1>1, <1>4, <2>1, <2>2, <2>3 DEF TakeNumber, TypeOK, InProgress
  <1>5. ASSUME NEW r \in Requests, Insert(r) PROVE TypeOK'
    <2>1. reservations' \subseteq RowsBy(Requests \cup {NoOne})
      BY <1>5, NewRowType DEF Insert, Commit, TypeOK
    <2>2. pc[r] = "saving" /\ \A q \in Requests : pc'[q] = pc[q] \/ q = r
      BY <1>5 DEF Insert, Commit, Goto, TypeOK, FrameTypeOK
    <2>3. QED
      BY <1>1, <1>5, <2>1, <2>2 DEF Insert, TypeOK, InProgress
  <1>6. ASSUME NEW w \in Processes, Die(w) PROVE TypeOK'
    <2>1. \A q \in Requests : pc'[q] = pc[q] \/ pc'[q] = "dead"
      BY <1>6 DEF Die, Crash
    <2>2. QED
      BY <1>1, <1>6, <2>1 DEF Die, TypeOK, InProgress
  <1>7. CASE UNCHANGED vars
    BY <1>1, <1>7 DEF vars, frameVars, TypeOK, InProgress
  <1>8. QED
    BY <1>2, <1>3, <1>4, <1>5, <1>6, <1>7
       DEF Next, Arrive, HandlerStep, StoreStep, ReadFails, NumberConflict

\* Inserting a row: it is the next of its date, and the only change to the table.
LEMMA InsertIsNext ==
    ASSUME NumberingInv, NEW r \in Requests, Insert(r)
    PROVE  LET d == form[r].date IN
           /\ d \in Dates
           /\ number[r].seq = NextSequence(SequencesOn(reservations, d))
           /\ SequencesOn(reservations', d) = SequencesOn(reservations, d) \cup {number[r].seq}
           /\ \A e \in Dates \ {d} : SequencesOn(reservations', e) = SequencesOn(reservations, e)
  <1> DEFINE d == form[r].date
  <1>1. /\ number[r] \in Numbers /\ d \in Dates /\ number[r].date = d
    BY NewRowType DEF NumberingInv, Insert, Commit, Forms
  <1>2. number[r].seq \notin SequencesOn(reservations, d)
    <2> SUFFICES ASSUME number[r].seq \in SequencesOn(reservations, d) PROVE FALSE
      OBVIOUS
    <2>1. PICK row \in reservations : /\ row.number.date = d
                                      /\ row.number.seq = number[r].seq
      BY DEF SequencesOn
    <2>2. row.number \in Numbers
      BY <2>1 DEF NumberingInv, TypeOK, RowsBy
    <2>3. row.number = number[r]
      BY <1>1, <2>1, <2>2 DEF Numbers
    <2>4. QED
      BY <2>3 DEF Insert, Taken
  <1>3. number[r].seq = NextSequence(SequencesOn(reservations, d))
    BY <1>2 DEF NumberingInv, ClaimIsTakenOrNext, Insert, Commit
  <1>4. /\ reservations' = reservations \cup {NewRow(r)}
        /\ NewRow(r).number = number[r] /\ NewRow(r).date = d
    BY DEF Insert, NewRow
  <1>5. \A rows, e, x : x \in SequencesOn(rows, e) <=>
           \E row \in rows : row.date = e /\ row.number.date = e /\ row.number.seq = x
    BY DEF SequencesOn
  <1>6. ASSUME NEW e, NEW x
        PROVE  x \in SequencesOn(reservations', e)
                 <=> x \in SequencesOn(reservations, e) \/ (e = d /\ x = number[r].seq)
    <2>1. x \in SequencesOn(reservations', e) <=>
            \E row \in reservations' : row.date = e /\ row.number.date = e /\ row.number.seq = x
      BY <1>5
    <2>2. x \in SequencesOn(reservations, e) <=>
            \E row \in reservations : row.date = e /\ row.number.date = e /\ row.number.seq = x
      BY <1>5
    <2>3. QED
      BY <1>1, <1>4, <2>1, <2>2
  <1>7. SequencesOn(reservations', d) = SequencesOn(reservations, d) \cup {number[r].seq}
    BY <1>6
  <1>8. ASSUME NEW e \in Dates \ {d}
        PROVE  SequencesOn(reservations', e) = SequencesOn(reservations, e)
    <2>1. \A x : x \in SequencesOn(reservations', e) <=> x \in SequencesOn(reservations, e)
      BY <1>6
    <2>2. QED
      BY <2>1
  <1>9. QED
    BY <1>1, <1>3, <1>7, <1>8

LEMMA InsertKeepsNumbering ==
    ASSUME NumberingInv, TypeOK', NEW r \in Requests, Insert(r)
    PROVE  NumberingInv'
  <1> DEFINE d == form[r].date
             n == number[r].seq
  <1>1. /\ d \in Dates /\ n = NextSequence(SequencesOn(reservations, d))
        /\ SequencesOn(reservations', d) = SequencesOn(reservations, d) \cup {n}
        /\ \A e \in Dates \ {d} : SequencesOn(reservations', e) = SequencesOn(reservations, e)
    BY InsertIsNext
  <1>2. /\ Bounded(d)
        /\ n \in Nat /\ IsTop(n, SequencesOn(reservations, d) \cup {n})
    BY <1>1, NextIsNewTop DEF NumberingInv, Bounded
  <1>3. ASSUME NEW e \in Dates PROVE Bounded(e)'
    <2>1. CASE e = d
      BY <1>1, <1>2, <2>1 DEF Bounded
    <2>2. CASE e # d
      BY <1>1, <2>2 DEF Bounded, NumberingInv
    <2>3. QED
      BY <2>1, <2>2
  <1>4. RowsNumbered'
    BY NewRowType DEF NumberingInv, RowsNumbered, Insert, Commit, NewRow
  <1>5. ASSUME NEW q \in Requests PROVE ClaimIsTakenOrNext(q)'
    <2>1. CASE pc'[q] # "saving"
      BY <2>1 DEF ClaimIsTakenOrNext
    <2>2. CASE pc'[q] = "saving"
      <3>1. /\ pc[q] = "saving" /\ form' = form /\ number' = number
        BY <2>2 DEF Insert, Commit, Goto, NumberingInv, TypeOK, FrameTypeOK
      <3>2. form[q].date \in Dates
        BY <3>1, NewRowType DEF NumberingInv, Forms
      <3>3. \/ number[q].seq \in SequencesOn(reservations, form[q].date)
            \/ number[q].seq = NextSequence(SequencesOn(reservations, form[q].date))
        BY <3>1 DEF NumberingInv, ClaimIsTakenOrNext
      <3>4. CASE form[q].date = d
        BY <1>1, <3>1, <3>3, <3>4 DEF ClaimIsTakenOrNext
      <3>5. CASE form[q].date # d
        BY <1>1, <3>1, <3>2, <3>3, <3>5 DEF ClaimIsTakenOrNext
      <3>6. QED
        BY <3>4, <3>5
    <2>3. QED
      BY <2>1, <2>2
  <1>6. QED
    BY <1>3, <1>4, <1>5 DEF NumberingInv

\* Outside Insert the table stands still, and only TakeNumber starts a claim.
LEMMA OtherStepsKeepNumbering ==
    ASSUME NumberingInv, TypeOK', reservations' = reservations,
           \A q \in Requests : pc'[q] = "saving" =>
              \/ pc[q] = "saving" /\ number'[q] = number[q] /\ form'[q] = form[q]
              \/ form'[q] = form[q] /\ TakeNumber(q)
    PROVE  NumberingInv'
  <1>1. \A e \in Dates : Bounded(e)'
    BY DEF NumberingInv, Bounded
  <1>2. RowsNumbered'
    BY DEF NumberingInv, RowsNumbered
  <1>3. ASSUME NEW q \in Requests PROVE ClaimIsTakenOrNext(q)'
    BY TakenNumber DEF NumberingInv, ClaimIsTakenOrNext
  <1>4. QED
    BY <1>1, <1>2, <1>3 DEF NumberingInv

\* What a step that is not an Insert does to the table and to the claims.
LEMMA OtherSteps ==
    ASSUME TypeOK, [Next]_vars, \A r \in Requests : ~Insert(r)
    PROVE  /\ reservations' = reservations
           /\ \A q \in Requests : pc'[q] = "saving" =>
                \/ pc[q] = "saving" /\ number'[q] = number[q] /\ form'[q] = form[q]
                \/ form'[q] = form[q] /\ TakeNumber(q)
  <1> DEFINE Calm == /\ reservations' = reservations
                     /\ \A q \in Requests : pc'[q] = "saving" =>
                          \/ pc[q] = "saving" /\ number'[q] = number[q] /\ form'[q] = form[q]
                          \/ form'[q] = form[q] /\ TakeNumber(q)
  <1>1. ASSUME NEW r \in Requests, NEW s \in Services, NEW f \in Forms,
               NEW files \in SUBSET Photos, Create(r, s, f, files)
        PROVE  Calm
    BY <1>1 DEF Create, Refuse, StartUploads, Answer, Goto, TypeOK, FrameTypeOK
  <1>2. ASSUME NEW r \in Requests, FrameStep(r) \/ FailUnsaved(r) \/ Reject(r) \/ Settle(r),
               UNCHANGED <<reservations, form, number>>
        PROVE  Calm
    BY <1>2 DEF FrameStep, FailUnsaved, Reject, Settle, UploadFails, ConnectionLost, Reply,
                CleanupEnds, RollBack, Answer, Goto, TypeOK, FrameTypeOK
  <1>3. ASSUME NEW r \in Requests, TakeNumber(r) PROVE Calm
    <2>1. \A q \in Requests \ {r} : pc'[q] = pc[q] /\ number'[q] = number[q]
      BY <1>3 DEF TakeNumber, StartSave, Goto, TypeOK, FrameTypeOK
    <2>2. reservations' = reservations /\ form' = form
      BY <1>3 DEF TakeNumber
    <2>3. QED
      BY <1>3, <2>1, <2>2
  <1>4. ASSUME NEW w \in Processes, Die(w) PROVE Calm
    BY <1>4 DEF Die, Crash, TypeOK, FrameTypeOK
  <1>5. CASE UNCHANGED vars
    BY <1>5 DEF vars, frameVars
  <1>6. QED
    BY <1>1, <1>2, <1>3, <1>4, <1>5
       DEF Next, Arrive, HandlerStep, StoreStep, ReadFails, NumberConflict

LEMMA NextKeepsNumbering == FrameInv /\ NumberingInv /\ [Next]_vars => NumberingInv'
  <1> SUFFICES ASSUME FrameInv, NumberingInv, [Next]_vars PROVE NumberingInv'
    OBVIOUS
  <1>1. TypeOK'
    BY NextKeepsTypeOK DEF NumberingInv
  <1>2. CASE \E r \in Requests : Insert(r)
    BY <1>1, <1>2, InsertKeepsNumbering
  <1>3. CASE \A r \in Requests : ~Insert(r)
    <2>1. /\ reservations' = reservations
          /\ \A q \in Requests : pc'[q] = "saving" =>
                \/ pc[q] = "saving" /\ number'[q] = number[q] /\ form'[q] = form[q]
                \/ form'[q] = form[q] /\ TakeNumber(q)
      BY <1>3, OtherSteps DEF NumberingInv
    <2>2. QED
      BY <1>1, <2>1, OtherStepsKeepNumbering
  <1>4. QED
    BY <1>2, <1>3

LEMMA NumberingInvHolds == Spec => []NumberingInv
  BY InitNumbering, NextKeepsNumbering, FrameInvHolds, PTL DEF Spec

\* Type correctness of the booking handler.
THEOREM TypeCorrect == Spec => []TypeOK
  <1>1. NumberingInv => TypeOK
    BY DEF NumberingInv
  <1>2. QED
    BY <1>1, NumberingInvHolds, PTL

\* Reservation numbers are given out without gaps and never twice, however many
\* bookings overlap and however stale the list each took its number from.
THEOREM NumbersConsecutive == Spec => NumbersAreConsecutive
  <1> DEFINE given(row) == {x.number.seq : x \in {y \in reservations : y.number.date = row.date}}
             A == \A row \in reservations' \ reservations :
                     /\ row.number.date = row.date
                     /\ \/ given(row) = {} /\ row.number.seq = 1
                        \/ \E last \in given(row) : /\ \A seq \in given(row) : seq <= last
                                                     /\ row.number.seq = last + 1
  <1>1. ASSUME NumberingInv, [Next]_vars PROVE A
    <2>1. CASE \A r \in Requests : ~Insert(r)
      BY <1>1, <2>1, OtherSteps DEF NumberingInv
    <2>2. ASSUME NEW r \in Requests, Insert(r) PROVE A
      <3>1. reservations' = reservations \cup {NewRow(r)}
        BY <2>2 DEF Insert
      <3>2. /\ NewRow(r).date = form[r].date
            /\ NewRow(r).number.seq = NextSequence(SequencesOn(reservations, form[r].date))
            /\ form[r].date \in Dates
        BY <1>1, <2>2, InsertIsNext DEF NewRow
      <3>3. NewRow(r).number.date = NewRow(r).date
        BY <1>1, <2>2, NewRowType DEF NumberingInv, Insert, Commit, NewRow
      <3>4. given(NewRow(r)) = SequencesOn(reservations, form[r].date)
        BY <1>1, <3>2 DEF SequencesOn, NumberingInv, RowsNumbered
      <3>5. Bounded(form[r].date)
        BY <1>1, <3>2 DEF NumberingInv
      <3>6. \/ given(NewRow(r)) = {} /\ NewRow(r).number.seq = 1
            \/ \E last \in given(NewRow(r)) : /\ \A seq \in given(NewRow(r)) : seq <= last
                                              /\ NewRow(r).number.seq = last + 1
        BY <3>2, <3>4, <3>5, NextFollowsTop DEF Bounded
      <3>7. QED
        BY <3>1, <3>3, <3>6
    <2>3. QED
      BY <2>1, <2>2
  <1>2. NumberingInv /\ [Next]_vars => [A]_vars
    BY <1>1
  <1>3. QED
    BY <1>2, NumberingInvHolds, PTL DEF Spec, NumbersAreConsecutive
-----------------------------------------------------------------------------
(* Photos, rows and answers.                                               *)

\* The table holds one row for each request that committed, the one it asked for,
\* beside the rows that were seeded, which have no photos.
TableInv ==
    /\ \A row \in reservations : row.by = NoOne => row.photos = {}
    /\ \A r \in Requests :
          /\ r \in saved => NewRow(r) \in reservations
          /\ \A row \in reservations : row.by = r => r \in saved /\ row = NewRow(r)

LEMMA InitTable == Init => TableInv
  BY BookingConstants DEF Init, FrameInit, TableInv, SeedRow

\* The row of r is what it was, and r has not committed meanwhile.
LEMMA QuietStep ==
    ASSUME TableInv, reservations' = reservations, saved' = saved,
           \A q \in saved : NewRow(q)' = NewRow(q), saved \subseteq Requests
    PROVE  TableInv'
  BY DEF TableInv

LEMMA NextKeepsTable == FrameInv /\ NumberingInv /\ TableInv /\ [Next]_vars => TableInv'
  <1> SUFFICES ASSUME FrameInv, NumberingInv, TableInv, [Next]_vars PROVE TableInv'
    OBVIOUS
  <1> DEFINE Quiet == /\ reservations' = reservations /\ saved' = saved
                      /\ \A q \in saved : /\ form'[q] = form[q] /\ number'[q] = number[q]
                                          /\ photos'[q] = photos[q]
  <1>1. saved \subseteq Requests /\ form \in [Requests -> Forms \cup {NoForm}]
        /\ number \in [Requests -> Numbers \cup {NoNumber}] /\ FrameTypeOK
    BY DEF NumberingInv, TypeOK, FrameTypeOK
  <1>2. ASSUME Quiet PROVE TableInv'
    <2>1. \A q \in saved : NewRow(q)' = NewRow(q)
      BY <1>2 DEF NewRow
    <2>2. QED
      BY <1>1, <1>2, <2>1, QuietStep
  <1>3. ASSUME NEW r \in Requests, pc[r] \in {"idle", "checking", "uploading"} PROVE r \notin saved
    BY <1>3 DEF FrameInv, FlowInv
  <1>4. ASSUME NEW r \in Requests, NEW s \in Services, NEW f \in Forms,
               NEW files \in SUBSET Photos, Create(r, s, f, files)
        PROVE  Quiet
    BY <1>1, <1>3, <1>4 DEF Create, Refuse, StartUploads, FrameTypeOK
  <1>5. ASSUME NEW r \in Requests, TakeNumber(r) PROVE Quiet
    BY <1>1, <1>3, <1>5 DEF TakeNumber, StartSave, Uploaded
  <1>6. ASSUME NEW r \in Requests, FrameStep(r) \/ FailUnsaved(r) \/ Reject(r) \/ Settle(r),
               UNCHANGED <<reservations, form, number>>
        PROVE  Quiet
    BY <1>6 DEF FrameStep, FailUnsaved, Reject, Settle, UploadFails, ConnectionLost, Reply,
                CleanupEnds, RollBack
  <1>7. ASSUME NEW w \in Processes, Die(w) PROVE Quiet
    BY <1>7 DEF Die, Crash
  <1>8. CASE UNCHANGED vars
    <2>1. reservations' = reservations /\ form' = form /\ number' = number
          /\ photos' = photos /\ saved' = saved
      BY <1>8 DEF vars, frameVars
    <2>2. QED
      BY <1>2, <2>1
  <1>9. ASSUME NEW r \in Requests, Insert(r) PROVE TableInv'
    <2>1. /\ reservations' = reservations \cup {NewRow(r)} /\ saved' = saved \cup {r}
          /\ r \notin saved /\ \A q : NewRow(q)' = NewRow(q)
      BY <1>9 DEF Insert, Commit, NewRow, FrameInv, FlowInv
    <2>2. NewRow(r).by = r
      BY DEF NewRow
    <2>3. QED
      BY <1>9, <2>1, <2>2, BookingConstants DEF TableInv
  <1>10. QED
    BY <1>2, <1>4, <1>5, <1>6, <1>7, <1>8, <1>9
       DEF Next, Arrive, HandlerStep, StoreStep, ReadFails, NumberConflict

LEMMA TableInvHolds == Spec => []TableInv
  BY InitTable, NextKeepsTable, FrameInvHolds, NumberingInvHolds, PTL DEF Spec

\* A row never points at a photo that is not stored, unless the photo's own
\* request set out to delete it after losing the answer to its commit.
THEOREM PhotosStored == Spec => []PhotosOfRowsAreStored
  <1>1. FrameInv /\ TypeOK /\ TableInv => PhotosOfRowsAreStored
    <2> SUFFICES ASSUME FrameInv, TypeOK, TableInv,
                        NEW row \in reservations, NEW p \in Photos, p \in row.photos
                 PROVE  <<row.by, p>> \in blobs
                          \/ upload[row.by][p] \in {"deleting", "deleted", "kept"}
      BY DEF PhotosOfRowsAreStored
    <2>1. PICK r \in Requests : r = row.by
      <3>1. row.by \in Requests \cup {NoOne}
        BY DEF TypeOK, RowsBy
      <3>2. row.by # NoOne
        BY DEF TableInv
      <3>3. QED
        BY <3>1, <3>2
    <2>2. r \in saved /\ p \in photos[r]
      <3>1. r \in saved /\ row = NewRow(r)
        BY <2>1 DEF TableInv
      <3>2. NewRow(r).photos = photos[r]
        BY DEF NewRow
      <3>3. QED
        BY <3>1, <3>2
    <2>3. QED
      BY <2>1, <2>2 DEF FrameInv, PhotoInv
  <1>2. QED
    BY <1>1, FrameInvHolds, TypeCorrect, TableInvHolds, PTL

\* An object without a row has one of the listed reasons to be there.
THEOREM OrphansExplained == Spec => []OrphansAreExplained
  <1>1. FrameInv /\ TableInv => OrphansAreExplained
    <2> SUFFICES ASSUME FrameInv, TableInv, NEW r \in Requests, NEW p \in Photos,
                        <<r, p>> \in blobs
                 PROVE  \/ \E row \in reservations : row.by = r /\ p \in row.photos
                        \/ OrphanHasCause(r, p)
      BY DEF OrphansAreExplained
    <2>1. p \in photos[r] /\ (OrphanHasCause(r, p) \/ answer[r] = "ok")
      BY UnsavedOrphans
    <2>2. ASSUME answer[r] = "ok" PROVE NewRow(r) \in reservations
      BY <2>2 DEF FrameInv, FlowInv, TableInv
    <2>3. QED
      BY <2>1, <2>2 DEF NewRow
  <1>2. QED
    BY <1>1, FrameInvHolds, TableInvHolds, PTL

\* What a caller is told about its booking is true of the table and of the store.
THEOREM AnswersTrue == Spec => []AnswersAreTrue
  <1>1. FrameInv /\ TableInv => AnswersAreTrue
    <2> SUFFICES ASSUME FrameInv, TableInv, NEW r \in Requests
                 PROVE  LET rows == {row \in reservations : row.by = r}
                        IN  /\ answer[r] = "ok" =>
                                 /\ rows = {NewRow(r)}
                                 /\ photos[r] \subseteq {p \in Photos : <<r, p>> \in blobs}
                            /\ answer[r] \in {"refused", "uploadFailed", "notSaved"}
                                 => rows = {}
      BY DEF AnswersAreTrue
    <2>1. /\ FlowInv(r) /\ photos[r] \subseteq Photos
          /\ \A p \in Photos : PhotoInv(r, p)
      BY DEF FrameInv, FrameTypeOK
    <2>2. NewRow(r).by = r
      BY DEF NewRow
    <2>3. QED
      BY <2>1, <2>2 DEF TableInv, FlowInv, PhotoInv
  <1>2. QED
    BY <1>1, FrameInvHolds, TableInvHolds, PTL
=============================================================================
