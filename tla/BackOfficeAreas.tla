---------------------------- MODULE BackOfficeAreas ----------------------------
(***************************************************************************)
(* Machine-checked facts about the frame of the back office, for any       *)
(* handlers, and about the areas films, services, icons and accounts, each *)
(* by its own specification.  BackOfficeProofs has the promotions, the     *)
(* portfolios and the whole.                                               *)
(***************************************************************************)
EXTENDS FilmOptimizer, ServiceCatalog, Icons, AdminAccounts, FiniteSetTheorems, TLAPS

\* Among finitely many things, one has the highest number.
LEMMA HighestOfFinite ==
    ASSUME NEW D, IsFiniteSet(D), D # {}, NEW f, \A x \in D : f[x] \in Int
    PROVE  \E x \in D : \A y \in D : f[y] <= f[x]
  <1> DEFINE Highest(T) == \E x \in T : \A y \in T : f[y] <= f[x]
             Bad == {T \in FiniteSubsetsOf(D) : T # {} /\ ~Highest(T)}
  <1> SUFFICES ASSUME ~Highest(D) PROVE FALSE
    OBVIOUS
  <1>1. D \in Bad
    BY DEF FiniteSubsetsOf
  <1>2. IsWellFoundedOn(StrictSubsetOrdering(D), FiniteSubsetsOf(D))
    BY FS_StrictSubsetOrderingWellFounded
  <1>3. PICK T \in Bad : \A U \in Bad : ~(<<U, T>> \in StrictSubsetOrdering(D))
    <2>1. Bad \subseteq FiniteSubsetsOf(D) /\ Bad # {}
      BY <1>1
    <2> HIDE DEF Bad
    <2>2. QED
      BY <1>2, <2>1, WFMin
  <1>4. PICK x \in T : TRUE
    BY <1>3
  <1>5. T \ {x} \in FiniteSubsetsOf(D)
    BY <1>3, FS_RemoveElement DEF FiniteSubsetsOf
  <1>6. <<T \ {x}, T>> \in StrictSubsetOrdering(D)
    BY <1>3, <1>4 DEF StrictSubsetOrdering, FiniteSubsetsOf
  <1>7. T \ {x} \notin Bad
    BY <1>3, <1>6
  <1>8. T \subseteq D /\ T # {} /\ ~Highest(T)
    BY <1>3 DEF FiniteSubsetsOf
  <1>9. CASE T \ {x} = {}
    <2>1. T = {x} /\ f[x] \in Int
      BY <1>4, <1>8, <1>9
    <2>2. QED
      BY <1>8, <2>1
  <1>10. CASE T \ {x} # {}
    <2>1. PICK y \in T \ {x} : \A z \in T \ {x} : f[z] <= f[y]
      BY <1>5, <1>7, <1>10
    <2>2. \A z \in T : f[z] \in Int
      BY <1>8
    <2>3. IF f[x] <= f[y] THEN \A z \in T : f[z] <= f[y] ELSE \A z \in T : f[z] <= f[x]
      BY <1>4, <2>1, <2>2
    <2>4. QED
      BY <1>4, <1>8, <2>1, <2>3
  <1>11. QED
    BY <1>9, <1>10
-----------------------------------------------------------------------------
(* The frame.                                                              *)

Arrived == {r \in Requests : pc[r] # "idle"}

\* The frame's own invariant: who has an answer has been answered, whoever arrived
\* found only answered requests behind it, and finitely many have arrived.
HttpInv ==
    /\ DOMAIN pc = Requests /\ DOMAIN job = Requests /\ DOMAIN held = Requests
    /\ answer \in [Requests -> Answers]
    /\ earlier \in [Requests -> SUBSET Requests]
    /\ \A r \in Requests : answer[r] # "none" <=> pc[r] = "answered"
    /\ \A r \in Requests : earlier[r] \subseteq Answered
    /\ IsFiniteSet(Arrived)

\* The first step of a handler that serves r, and a later one.
Starts(r, j) ==
    \/ \E statement, keep : statement \notin {"idle", "answered"} /\ Begin(r, j, statement, keep)
    \/ \E what \in Answers \ {"none"} : Serve(r, j, what)

Goes(r) ==
    /\ InProgress(r)
    /\ \/ \E statement, keep :
             statement \notin {"idle", "answered"} /\ Continue(r, statement, keep)
       \/ \E what \in Answers \ {"none"} : Answer(r, what)

LEMMA HttpStarts == HttpInit => HttpInv
  <1> SUFFICES ASSUME HttpInit PROVE HttpInv
    OBVIOUS
  <1>1. Arrived = {}
    BY DEF HttpInit, Arrived
  <1>2. IsFiniteSet(Arrived)
    BY <1>1, FS_EmptySet
  <1>3. QED
    BY <1>2 DEF HttpInit, HttpInv, Answers, Answered

\* What a start changes: only the request's own fields, and it finds behind it exactly
\* the answered ones.
LEMMA StartFacts ==
    ASSUME HttpInv, NEW r \in Requests, NEW j, Starts(r, j)
    PROVE  /\ pc[r] = "idle" /\ answer[r] = "none"
           /\ pc'[r] # "idle" /\ job'[r] = j /\ earlier'[r] = Answered
           /\ DOMAIN pc' = Requests /\ DOMAIN job' = Requests /\ DOMAIN held' = Requests
           /\ answer' \in [Requests -> Answers] /\ earlier' \in [Requests -> SUBSET Requests]
           /\ answer'[r] # "none" <=> pc'[r] = "answered"
           /\ \A q \in Requests \ {r} :
                 /\ pc'[q] = pc[q] /\ job'[q] = job[q] /\ held'[q] = held[q]
                 /\ answer'[q] = answer[q] /\ earlier'[q] = earlier[q]
  <1>1. pc[r] = "idle" /\ answer[r] = "none"
    BY DEF HttpInv, Starts, Begin, Serve, Arrive
  <1>2. CASE \E statement, keep :
                statement \notin {"idle", "answered"} /\ Begin(r, j, statement, keep)
    BY <1>1, <1>2 DEF HttpInv, Begin, Arrive, Answered
  <1>3. CASE \E what \in Answers \ {"none"} : Serve(r, j, what)
    BY <1>1, <1>3 DEF HttpInv, Serve, Arrive, Answered
  <1>4. QED
    BY <1>2, <1>3 DEF Starts

LEMMA GoFacts ==
    ASSUME HttpInv, NEW r \in Requests, Goes(r)
    PROVE  /\ pc[r] \notin {"idle", "answered"} /\ pc'[r] # "idle"
           /\ answer[r] = "none"
           /\ answer'[r] # "none" <=> pc'[r] = "answered"
           /\ DOMAIN pc' = Requests /\ DOMAIN held' = Requests
           /\ answer' \in [Requests -> Answers]
           /\ job' = job /\ earlier' = earlier
           /\ \A q \in Requests \ {r} :
                 pc'[q] = pc[q] /\ held'[q] = held[q] /\ answer'[q] = answer[q]
  <1>1. pc[r] \notin {"idle", "answered"} /\ answer[r] = "none"
    BY DEF HttpInv, Goes, InProgress
  <1>2. CASE \E statement, keep :
                statement \notin {"idle", "answered"} /\ Continue(r, statement, keep)
    BY <1>1, <1>2 DEF HttpInv, Continue
  <1>3. CASE \E what \in Answers \ {"none"} : Answer(r, what)
    BY <1>1, <1>3 DEF HttpInv, Answer
  <1>4. QED
    BY <1>2, <1>3 DEF Goes

LEMMA StartKeepsHttpInv ==
    ASSUME HttpInv, NEW r \in Requests, NEW j, Starts(r, j)
    PROVE  HttpInv'
  <1>1. Answered \subseteq Answered'
    BY StartFacts DEF Answered
  <1>2. Arrived' = Arrived \cup {r}
    BY StartFacts DEF Arrived
  <1>3. IsFiniteSet(Arrived')
    BY <1>2, FS_AddElement DEF HttpInv
  <1>4. \A q \in Requests : earlier'[q] \subseteq Answered'
    BY <1>1, StartFacts DEF HttpInv
  <1>5. QED
    BY <1>3, <1>4, StartFacts DEF HttpInv

LEMMA GoKeepsHttpInv ==
    ASSUME HttpInv, NEW r \in Requests, Goes(r)
    PROVE  HttpInv' /\ Arrived' = Arrived
  <1>1. Answered \subseteq Answered'
    BY GoFacts DEF Answered
  <1>2. Arrived' = Arrived
    BY GoFacts DEF Arrived
  <1>3. QED
    BY <1>1, <1>2, GoFacts DEF HttpInv

\* The types of the frame's variables, for any handlers that ask for something.
LEMMA HttpTypesStart == HttpInit => HttpTypeOK
  BY DEF HttpInit, HttpTypeOK, Answers, Answered, InProgress

LEMMA StartKeepsHttpTypes ==
    ASSUME HttpInv, HttpTypeOK, NEW r \in Requests, NEW j, j # Nothing, Starts(r, j)
    PROVE  HttpTypeOK'
  <1>1. HttpInv'
    BY StartKeepsHttpInv
  <1>2. (job'[r] = Nothing <=> pc'[r] = "idle") /\ (~InProgress(r)' => held'[r] = Nothing)
    <2>1. pc[r] = "idle" /\ held[r] = Nothing
      BY StartFacts DEF HttpTypeOK, InProgress
    <2>2. pc'[r] # "idle" /\ job'[r] = j
      BY StartFacts
    <2>3. ~InProgress(r)' => held'[r] = held[r]
      BY <2>2 DEF Starts, Begin, Serve, InProgress, HttpInv
    <2>4. QED
      BY <2>1, <2>2, <2>3
  <1>3. \A q \in Requests \ {r} :
           (job'[q] = Nothing <=> pc'[q] = "idle") /\ (~InProgress(q)' => held'[q] = Nothing)
    BY StartFacts DEF HttpTypeOK, InProgress
  <1>4. QED
    BY <1>1, <1>2, <1>3 DEF HttpTypeOK, HttpInv

LEMMA GoKeepsHttpTypes ==
    ASSUME HttpInv, HttpTypeOK, NEW r \in Requests, Goes(r)
    PROVE  HttpTypeOK'
  <1>1. HttpInv'
    BY GoKeepsHttpInv
  <1>2. (job'[r] = Nothing <=> pc'[r] = "idle") /\ (~InProgress(r)' => held'[r] = Nothing)
    <2>1. job[r] # Nothing /\ job' = job /\ pc'[r] # "idle"
      BY GoFacts DEF HttpTypeOK
    <2>2. ~InProgress(r)' => held'[r] = Nothing
      BY <2>1 DEF Goes, Continue, Answer, InProgress, HttpInv
    <2>3. QED
      BY <2>1, <2>2
  <1>3. \A q \in Requests \ {r} :
           (job'[q] = Nothing <=> pc'[q] = "idle") /\ (~InProgress(q)' => held'[q] = Nothing)
    BY GoFacts DEF HttpTypeOK, InProgress
  <1>4. QED
    BY <1>1, <1>2, <1>3 DEF HttpTypeOK, HttpInv

\* Requests that overlap go on overlapping, and a newcomer overlaps all that are in
\* progress.
LEMMA StartOverlaps ==
    ASSUME HttpInv, NEW r \in Requests, NEW j, Starts(r, j)
    PROVE  /\ \A a, b : Overlap(a, b) => Overlap(a, b)'
           /\ \A a, b \in Requests \ {r} : Overlap(a, b)' => Overlap(a, b)
           /\ \A a \in Requests : InProgress(a) => Overlap(a, r)' /\ Overlap(r, a)'
           /\ \A a \in Requests \ {r} : Overlap(a, r)' => InProgress(a)
           /\ \A a \in Requests \ {r} : Overlap(r, a)' => InProgress(a)
  <1>1. r \notin Answered /\ \A a \in Requests : r \notin earlier[a]
    BY StartFacts DEF HttpInv, Answered
  <1>2. \A a \in Requests : InProgress(a) => a # r /\ a \notin Answered /\ pc[a] # "idle"
    BY StartFacts DEF InProgress, Answered
  <1>3. QED
    BY <1>1, <1>2, StartFacts DEF Overlap, Answered, InProgress

\* Later steps decide nothing about overlaps; two that are in progress overlap.
LEMMA GoOverlaps ==
    ASSUME HttpInv, NEW r \in Requests, Goes(r)
    PROVE  \A a, b : Overlap(a, b)' <=> Overlap(a, b)
  BY GoFacts DEF Overlap

LEMMA InProgressOverlap ==
    ASSUME HttpInv, NEW a \in Requests, NEW b \in Requests, a # b, InProgress(a), InProgress(b)
    PROVE  Overlap(a, b)
  BY DEF HttpInv, InProgress, Answered, Overlap

\* Who has arrived has arrived, with what it asked for and found behind it, and an answer
\* stands, as do overlaps.
ArrivedStay ==
    /\ \A a, b : Overlap(a, b) => Overlap(a, b)'
    /\ \A q \in Arrived :
          /\ q \in Arrived' /\ job'[q] = job[q] /\ earlier'[q] = earlier[q]
          /\ answer[q] # "none" => answer'[q] = answer[q]

LEMMA StepsLeaveArrived ==
    ASSUME HttpInv, NEW r \in Requests, NEW j, Starts(r, j) \/ Goes(r) \/ UNCHANGED httpVars
    PROVE  ArrivedStay
  <1>1. CASE Starts(r, j)
    <2>1. \A a, b : Overlap(a, b) => Overlap(a, b)'
      BY <1>1, StartOverlaps
    <2>2. r \notin Arrived
      BY <1>1, StartFacts DEF Arrived
    <2>3. QED
      BY <1>1, <2>1, <2>2, StartFacts DEF ArrivedStay, Arrived
  <1>2. CASE Goes(r)
    <2>1. \A a, b : Overlap(a, b) => Overlap(a, b)'
      BY <1>2, GoOverlaps
    <2>2. QED
      BY <1>2, <2>1, GoFacts DEF ArrivedStay, Arrived
  <1>3. CASE UNCHANGED httpVars
    BY <1>3 DEF httpVars, ArrivedStay, Arrived, Overlap
  <1>4. QED
    BY <1>1, <1>2, <1>3
-----------------------------------------------------------------------------
(* Films                                                                   *)

\* The project that the pieces of a request are of.
HomeOf(r) ==
    IF r = Nobody THEN Nobody
    ELSE IF job[r].op = "addPieces" THEN job[r].project ELSE r

Known(x) == x[1] \in Arrived \cup {Nobody}

PieceRow(x, row) == row \in PieceRows /\ row.project = HomeOf(x[1])

\* The row that a save of a piece is to write, before save()'s load and after.
HeldPiece(s) == IF pc[s] = "write" THEN held[s].entity ELSE held[s]

\* What a request holds from one statement to the next.
FilmWork(r) ==
    /\ SavesPiece(r) /\ InProgress(r) =>
          /\ PieceRow(job[r].piece, HeldPiece(r))
          /\ pc[r] \in {"load", "write"}
          /\ pc[r] = "write" => "project" \notin held[r].dirty
    /\ pc[r] = "insertPieces" =>
          /\ job[r].op \in {"createProject", "addPieces"}
          /\ held[r].project = HomeOf(r)
          /\ held[r].from \in Nat

PieceOps == {"updatePiece", "togglePieceComplete", "deletePiece"}

FilmInv ==
    /\ HttpInv
    /\ FilmTypeOK
    /\ \A r \in Arrived : job[r] \in FilmJobs
    /\ \A r \in Arrived : job[r].op \in PieceOps => Known(job[r].piece)
    /\ \A x \in DOMAIN pieces : Known(x) /\ pieces[x].project = HomeOf(x[1])
    /\ \A r \in Requests : FilmWork(r)

LEMMA NextOrderIsNumber ==
    ASSUME FilmInv, NEW p
    PROVE  NextOrder(p) \in Nat
  <1> DEFINE orders == {pieces[x].order : x \in PiecesOf(p)}
             order == [x \in PiecesOf(p) |-> pieces[x].order]
  <1>1. \A x \in PiecesOf(p) : pieces[x].order \in Nat
    BY DEF PiecesOf, FilmInv, FilmTypeOK, PieceRows
  <1>2. IsFiniteSet(PiecesOf(p))
    <2>1. PiecesOf(p) \subseteq (Arrived \cup {Nobody}) \X (1 .. MaxPieces)
      BY DEF PiecesOf, FilmInv, FilmTypeOK, PieceIds, Known
    <2>2. IsFiniteSet(Arrived \cup {Nobody}) /\ IsFiniteSet(1 .. MaxPieces)
      BY FS_AddElement, FS_Interval, FilmConstants DEF FilmInv, HttpInv
    <2>3. IsFiniteSet((Arrived \cup {Nobody}) \X (1 .. MaxPieces))
      BY <2>2, FS_Product
    <2>4. QED
      BY <2>1, <2>3, FS_Subset
  <1>3. CASE orders = {}
    BY <1>3 DEF NextOrder
  <1>4. CASE orders # {}
    <2>0. PiecesOf(p) # {} /\ \A x \in PiecesOf(p) : order[x] \in Int
      BY <1>1, <1>4
    <2>1. PICK x \in PiecesOf(p) : \A y \in PiecesOf(p) : order[y] <= order[x]
      BY <1>2, <2>0, HighestOfFinite
    <2>2. pieces[x].order \in orders /\ \A o \in orders : o <= pieces[x].order
      BY <2>1
    <2>3. PICK m \in orders : m = CHOOSE n \in orders : \A o \in orders : o <= n
      BY <2>2
    <2>4. m \in Nat
      BY <1>1
    <2>5. NextOrder(p) = 1 + m
      BY <1>4, <2>3 DEF NextOrder
    <2>6. QED
      BY <2>4, <2>5
  <1>5. QED
    BY <1>3, <1>4

\* Who has arrived keeps asking for the same, so that pieces keep their homes.
LEMMA StartKeepsHomes ==
    ASSUME HttpInv, NEW r \in Requests, NEW j, Starts(r, j)
    PROVE  /\ Arrived' = Arrived \cup {r} /\ r \notin Arrived
           /\ \A q \in Arrived \cup {Nobody} : HomeOf(q)' = HomeOf(q)
           /\ \A q \in Arrived : job'[q] = job[q]
  <1>1. Arrived' = Arrived \cup {r} /\ r \notin Arrived /\ \A q \in Arrived : job'[q] = job[q]
    BY StartFacts DEF Arrived
  <1>2. \A q \in Arrived \cup {Nobody} : HomeOf(q)' = HomeOf(q)
    BY <1>1 DEF HomeOf
  <1>3. QED
    BY <1>1, <1>2

LEMMA StartKeepsFilmInv ==
    ASSUME FilmInv, NEW r \in Requests, NEW j \in FilmJobs, Starts(r, j), FilmWork(r)',
           j.op \in PieceOps => Known(j.piece), FilmTypeOK',
           \A x \in DOMAIN pieces' : x \in DOMAIN pieces /\ pieces'[x] = pieces[x]
    PROVE  FilmInv'
  <1>1. HttpInv' /\ HttpInv
    BY StartKeepsHttpInv DEF FilmInv
  <1>2. /\ Arrived' = Arrived \cup {r} /\ r \notin Arrived
        /\ \A q \in Arrived \cup {Nobody} : HomeOf(q)' = HomeOf(q)
        /\ \A q \in Arrived : job'[q] = job[q]
        /\ job'[r] = j
    BY <1>1, StartKeepsHomes, StartFacts
  <1>3. \A x : Known(x) => Known(x)' /\ HomeOf(x[1])' = HomeOf(x[1])
    BY <1>2 DEF Known
  <1>4. \A q \in Arrived' :
           job'[q] \in FilmJobs /\ (job'[q].op \in PieceOps => Known(job[q].piece)')
    BY <1>2, <1>3 DEF FilmInv
  <1>5. ASSUME NEW q \in Requests \ {r} PROVE FilmWork(q)'
    <2>1. /\ pc'[q] = pc[q] /\ job'[q] = job[q] /\ held'[q] = held[q] /\ FilmWork(q)
      BY <1>1, StartFacts DEF FilmInv
    <2>2. HeldPiece(q)' = HeldPiece(q)
      BY <2>1 DEF HeldPiece
    <2>3. SavesPiece(q) => Known(job[q].piece)
      BY <2>1 DEF FilmInv, SavesPiece, PieceOps, Arrived
    <2>4. pc[q] # "idle" => HomeOf(q)' = HomeOf(q)
      BY <1>2 DEF Arrived
    <2>5. QED
      BY <1>3, <2>1, <2>2, <2>3, <2>4 DEF FilmWork, SavesPiece, InProgress, PieceRow
  <1>6. \A x \in DOMAIN pieces' : Known(x)' /\ pieces'[x].project = HomeOf(x[1])'
    BY <1>3 DEF FilmInv
  <1>7. QED
    BY <1>1, <1>4, <1>5, <1>6 DEF FilmInv

LEMMA GoKeepsHomes ==
    ASSUME HttpInv, NEW r \in Requests, Goes(r)
    PROVE  /\ Arrived' = Arrived /\ job' = job
           /\ \A q : HomeOf(q)' = HomeOf(q)
           /\ \A x : Known(x)' <=> Known(x)
           /\ \A x, row : PieceRow(x, row)' <=> PieceRow(x, row)
  <1>1. Arrived' = Arrived /\ job' = job
    BY GoKeepsHttpInv, GoFacts
  <1>2. QED
    BY <1>1 DEF HomeOf, Known, PieceRow

\* The tables and the foreign keys between them.
FilmTablesOK ==
    /\ films \subseteq Creators
    /\ DOMAIN projects \subseteq Creators
    /\ \A p \in DOMAIN projects : projects[p] \in films
    /\ DOMAIN pieces \subseteq PieceIds
    /\ \A x \in DOMAIN pieces :
          Known(x) /\ PieceRow(x, pieces[x]) /\ pieces[x].project \in DOMAIN projects

LEMMA GoKeepsFilmInv ==
    ASSUME FilmInv, NEW r \in Requests, Goes(r), FilmWork(r)', FilmTablesOK'
    PROVE  FilmInv'
  <1>1. HttpInv' /\ HttpInv /\ HttpTypeOK'
    BY GoKeepsHttpInv, GoKeepsHttpTypes DEF FilmInv, FilmTypeOK
  <1>2. /\ Arrived' = Arrived /\ job' = job
        /\ \A x : Known(x)' <=> Known(x)
        /\ \A q : HomeOf(q)' = HomeOf(q)
        /\ \A x, row : PieceRow(x, row)' <=> PieceRow(x, row)
    BY <1>1, GoKeepsHomes
  <1>3. ASSUME NEW q \in Requests \ {r} PROVE FilmWork(q)'
    <2>1. /\ pc'[q] = pc[q] /\ held'[q] = held[q] /\ FilmWork(q)
      BY <1>1, GoFacts DEF FilmInv
    <2>2. HeldPiece(q)' = HeldPiece(q)
      BY <2>1 DEF HeldPiece
    <2>3. QED
      BY <1>2, <2>1, <2>2 DEF FilmWork, SavesPiece, InProgress, PieceRow
  <1>4. \A q \in Arrived' :
           job'[q] \in FilmJobs /\ (job'[q].op \in PieceOps => Known(job[q].piece)')
    BY <1>2 DEF FilmInv
  <1>5. FilmTypeOK' /\ \A x \in DOMAIN pieces' : Known(x)' /\ pieces'[x].project = HomeOf(x[1])'
    BY <1>1, <1>2 DEF FilmTablesOK, FilmTypeOK, PieceRow
  <1>6. QED
    BY <1>1, <1>3, <1>4, <1>5 DEF FilmInv

\* A request that only reads, or is answered at once, and its first statement.
LEMMA FilmRequestKeeps ==
    ASSUME FilmInv, NEW r \in Requests, FilmRequest(r)
    PROVE  FilmInv'
  <1> USE DEF Starts, Begin, Serve, Arrive, Answers, FilmJobs, PieceOps
  <1>0. /\ r \in Creators /\ KnownFilms \subseteq Creators
        /\ HttpInv /\ HttpTypeOK /\ pc[r] = "idle" /\ DOMAIN pc = Requests /\ DOMAIN job = Requests
    BY DEF KnownFilms, Creators, FilmInv, FilmTypeOK, HttpInv, FilmRequest, CreateFilm, UpdateFilm,
           DeleteFilm
  <1>1. CASE CreateFilm(r)
    <2> DEFINE j == [op |-> "createFilm"]
    <2>1. j \in FilmJobs /\ Starts(r, j) /\ films' = films \cup {r} /\ UNCHANGED <<projects, pieces>>
      BY <1>1 DEF CreateFilm
    <2>2. pc'[r] = "answered" /\ job'[r] = j
      BY <1>0, <1>1 DEF CreateFilm
    <2>3. FilmWork(r)' /\ j.op \notin PieceOps
      BY <2>2 DEF FilmWork, InProgress
    <2>4. j # Nothing
      BY <2>1, NothingIsNoFilmJob
    <2>5. HttpTypeOK'
      BY <1>0, <2>1, <2>4, StartKeepsHttpTypes
    <2>6. FilmTypeOK'
      BY <1>0, <2>1, <2>5 DEF FilmTypeOK, FilmInv
    <2>7. QED
      BY <2>1, <2>3, <2>6, StartKeepsFilmInv
  <1>2. ASSUME NEW f \in KnownFilms, UpdateFilm(r, f) \/ DeleteFilm(r, f)
        PROVE  FilmInv'
    <2>1. PICK j : /\ j \in [op : {"updateFilm", "deleteFilm"}, film : Creators]
                   /\ Starts(r, j) /\ UNCHANGED filmTables
                   /\ pc'[r] \in {"answered", "load", "remove"} /\ job'[r] = j
      BY <1>0, <1>2 DEF UpdateFilm, DeleteFilm
    <2>2. FilmWork(r)' /\ j.op \notin PieceOps /\ j \in FilmJobs
      BY <2>1 DEF FilmWork, InProgress, SavesPiece
    <2>3. HttpTypeOK'
      BY <1>0, <2>1, <2>2, NothingIsNoFilmJob, StartKeepsHttpTypes
    <2>4. FilmTypeOK'
      BY <2>1, <2>3 DEF FilmTypeOK, FilmInv, filmTables
    <2>5. QED
      BY <2>1, <2>2, <2>4, StartKeepsFilmInv DEF filmTables
  <1>3. QED
    BY <1>1, <1>2 DEF FilmRequest

\* What is asked of a film, a project or a piece leaves the tables alone at first.
LEMMA StartsQuietly ==
    ASSUME FilmInv, NEW r \in Requests, NEW j \in FilmJobs, Starts(r, j), UNCHANGED filmTables,
           FilmWork(r)', j.op \in PieceOps => Known(j.piece)
    PROVE  FilmInv'
  <1>1. HttpTypeOK'
    BY NothingIsNoFilmJob, StartKeepsHttpTypes DEF FilmInv, FilmTypeOK
  <1>2. FilmTypeOK'
    BY <1>1 DEF FilmTypeOK, FilmInv, filmTables
  <1>3. QED
    BY <1>2, StartKeepsFilmInv DEF filmTables

LEMMA ProjectRequestKeeps ==
    ASSUME FilmInv, NEW r \in Requests, ProjectRequest(r)
    PROVE  FilmInv'
  <1>0. /\ r \in Creators /\ KnownFilms \subseteq Creators /\ KnownProjects \subseteq Creators
        /\ films \subseteq Creators
        /\ HttpInv /\ HttpTypeOK /\ DOMAIN pc = Requests /\ DOMAIN job = Requests
        /\ DOMAIN held = Requests
    BY DEF KnownFilms, KnownProjects, Creators, FilmInv, FilmTypeOK, HttpInv
  <1>1. ASSUME NEW f \in KnownFilms, NEW n \in 0 .. MaxPieces, NEW input \in PieceInputs,
               CreateProject(r, f, n, input)
        PROVE  FilmInv'
    <2>1. PICK j : j = [op |-> "createProject", film |-> f, count |-> n, input |-> input]
      OBVIOUS
    <2>2. j \in FilmJobs /\ j.op = "createProject"
      BY <1>0, <2>1 DEF FilmJobs
    <2>3. Starts(r, j) /\ UNCHANGED filmTables /\ pc'[r] \in {"answered", "insert"} /\ job'[r] = j
      BY <1>0, <1>1, <2>1 DEF CreateProject, Starts, Begin, Serve, Arrive, Answers
    <2>4. FilmWork(r)'
      BY <2>2, <2>3 DEF FilmWork, InProgress, SavesPiece
    <2>5. QED
      BY <2>2, <2>3, <2>4, StartsQuietly DEF PieceOps
  <1>2. ASSUME NEW p \in KnownProjects, NEW f \in films \cup {Nothing}, UpdateProject(r, p, f)
        PROVE  FilmInv'
    <2>1. PICK j : j = [op |-> "updateProject", project |-> p, film |-> f]
      OBVIOUS
    <2>2. j \in FilmJobs /\ j.op = "updateProject"
      BY <1>0, <2>1 DEF FilmJobs
    <2>3. /\ Starts(r, j) /\ UNCHANGED filmTables
          /\ pc'[r] \in {"answered", "load", "checkFilm"} /\ job'[r] = j
      BY <1>0, <1>2, <2>1 DEF UpdateProject, Starts, Begin, Serve, Arrive, Answers
    <2>4. FilmWork(r)'
      BY <2>2, <2>3 DEF FilmWork, InProgress, SavesPiece
    <2>5. QED
      BY <2>2, <2>3, <2>4, StartsQuietly DEF PieceOps
  <1>3. ASSUME NEW p \in KnownProjects, DeleteProject(r, p) PROVE FilmInv'
    <2>1. PICK j : j = [op |-> "deleteProject", project |-> p]
      OBVIOUS
    <2>2. j \in FilmJobs /\ j.op = "deleteProject"
      BY <1>0, <2>1 DEF FilmJobs
    <2>3. Starts(r, j) /\ UNCHANGED filmTables /\ pc'[r] \in {"answered", "remove"} /\ job'[r] = j
      BY <1>0, <1>3, <2>1 DEF DeleteProject, Starts, Begin, Serve, Arrive, Answers
    <2>4. FilmWork(r)'
      BY <2>2, <2>3 DEF FilmWork, InProgress, SavesPiece
    <2>5. QED
      BY <2>2, <2>3, <2>4, StartsQuietly DEF PieceOps
  <1>4. ASSUME NEW p \in KnownProjects, NEW n \in 1 .. MaxPieces, NEW input \in PieceInputs,
               AddPieces(r, p, n, input)
        PROVE  FilmInv'
    <2>1. PICK j : j = [op |-> "addPieces", project |-> p, count |-> n, input |-> input]
      OBVIOUS
    <2>2. j \in FilmJobs /\ j.op = "addPieces" /\ j.project = p
      BY <1>0, <2>1 DEF FilmJobs
    <2>3. /\ Starts(r, j) /\ UNCHANGED filmTables /\ job'[r] = j
          /\ pc'[r] = "answered" \/ held'[r] = [project |-> p, from |-> NextOrder(p)]
      BY <1>0, <1>4, <2>1 DEF AddPieces, Starts, Begin, Serve, Arrive, Answers
    <2>4. NextOrder(p) \in Nat
      BY NextOrderIsNumber
    <2>5. HomeOf(r)' = p
      BY <2>2, <2>3, RequestConstants DEF HomeOf
    <2>6. FilmWork(r)'
      BY <2>2, <2>3, <2>4, <2>5 DEF FilmWork, InProgress, SavesPiece
    <2>7. QED
      BY <2>2, <2>3, <2>6, StartsQuietly DEF PieceOps
  <1>5. QED
    BY <1>1, <1>2, <1>3, <1>4 DEF ProjectRequest

LEMMA PieceRequestKeeps ==
    ASSUME FilmInv, NEW r \in Requests, PieceRequest(r)
    PROVE  FilmInv'
  <1>0. /\ r \in Creators /\ KnownProjects \subseteq Creators
        /\ HttpInv /\ HttpTypeOK /\ DOMAIN pc = Requests /\ DOMAIN job = Requests
        /\ DOMAIN held = Requests
        /\ \A x \in KnownPieces : x \in PieceIds /\ Known(x)
        /\ \A x \in DOMAIN pieces : PieceRow(x, pieces[x])
    <2>1. <<Nobody, 1>> \in PieceIds /\ Known(<<Nobody, 1>>)
      BY FilmConstants DEF PieceIds, Known, Creators
    <2>2. QED
      BY <2>1 DEF KnownProjects, KnownPieces, Creators, FilmInv, FilmTypeOK, HttpInv, PieceRow
  <1>1. ASSUME NEW p \in KnownProjects, NEW x \in KnownPieces,
               NEW j \in FilmJobs, j.op \in PieceOps, j.piece = x,
               Starts(r, j), UNCHANGED filmTables, job'[r] = j, pc'[r] \in {"answered", "load", "remove"},
               pc'[r] = "load" => PieceRow(x, held'[r]),
               pc'[r] = "remove" => j.op = "deletePiece"
        PROVE  FilmInv'
    <2>1. \A row : PieceRow(x, row) => PieceRow(x, row)'
      BY <1>0, <1>1, StartKeepsHomes DEF PieceRow, Known
    <2>2. FilmWork(r)'
      <3>1. pc'[r] = "load" => PieceRow(x, HeldPiece(r))'
        BY <1>1, <2>1 DEF HeldPiece
      <3>2. QED
        BY <1>1, <3>1 DEF FilmWork, InProgress, SavesPiece
    <2>3. QED
      BY <1>0, <1>1, <2>2, StartsQuietly
  <1>2. ASSUME NEW p \in KnownProjects, NEW x \in KnownPieces, NEW done \in BOOLEAN \cup {Nothing},
               UpdatePiece(r, p, x, done)
        PROVE  FilmInv'
    <2>1. PICK j : j = [op |-> "updatePiece", project |-> p, piece |-> x, done |-> done]
      OBVIOUS
    <2>2. j \in FilmJobs /\ j.op \in PieceOps /\ j.piece = x
      BY <1>0, <2>1 DEF FilmJobs, PieceOps
    <2>3. /\ Starts(r, j) /\ UNCHANGED filmTables /\ job'[r] = j /\ pc'[r] \in {"answered", "load"}
          /\ pc'[r] = "load" =>
                /\ x \in DOMAIN pieces
                /\ held'[r] = IF done = Nothing THEN pieces[x]
                                                ELSE [pieces[x] EXCEPT !.done = done]
      BY <1>0, <1>2, <2>1 DEF UpdatePiece, Piece, Starts, Begin, Serve, Arrive, Answers
    <2>4. pc'[r] = "load" => PieceRow(x, held'[r])
      BY <1>0, <2>3 DEF PieceRow, PieceRows
    <2>5. QED
      BY <1>1, <2>2, <2>3, <2>4
  <1>3. ASSUME NEW p \in KnownProjects, NEW x \in KnownPieces, NEW fixed \in BOOLEAN,
               TogglePieceComplete(r, p, x, fixed)
        PROVE  FilmInv'
    <2>1. PICK j : j = [op |-> "togglePieceComplete", project |-> p, piece |-> x, fixed |-> fixed]
      OBVIOUS
    <2>2. j \in FilmJobs /\ j.op \in PieceOps /\ j.piece = x
      BY <1>0, <2>1 DEF FilmJobs, PieceOps
    <2>3. /\ Starts(r, j) /\ UNCHANGED filmTables /\ job'[r] = j /\ pc'[r] \in {"answered", "load"}
          /\ pc'[r] = "load" => x \in DOMAIN pieces /\ held'[r] = Toggled(pieces[x], fixed)
      BY <1>0, <1>3, <2>1 DEF TogglePieceComplete, Piece, Starts, Begin, Serve, Arrive, Answers
    <2>4. pc'[r] = "load" => PieceRow(x, held'[r])
      BY <1>0, <2>3 DEF PieceRow, PieceRows, Toggled
    <2>5. QED
      BY <1>1, <2>2, <2>3, <2>4
  <1>4. ASSUME NEW p \in KnownProjects, NEW x \in KnownPieces, DeletePiece(r, p, x)
        PROVE  FilmInv'
    <2>1. PICK j : j = [op |-> "deletePiece", project |-> p, piece |-> x]
      OBVIOUS
    <2>2. j \in FilmJobs /\ j.op = "deletePiece" /\ j.piece = x
      BY <1>0, <2>1 DEF FilmJobs
    <2>3. /\ Starts(r, j) /\ UNCHANGED filmTables /\ job'[r] = j /\ pc'[r] \in {"answered", "remove"}
      BY <1>0, <1>4, <2>1 DEF DeletePiece, Starts, Begin, Serve, Arrive, Answers
    <2>4. QED
      BY <1>1, <2>2, <2>3 DEF PieceOps
  <1>5. QED
    BY <1>2, <1>3, <1>4 DEF PieceRequest

\* A step that is not one of a piece's save holds nothing of a piece.
LEMMA WorksElsewhere ==
    ASSUME FilmInv, NEW r \in Requests, Goes(r),
           job[r].op \notin {"updatePiece", "togglePieceComplete"}, pc'[r] # "insertPieces"
    PROVE  FilmWork(r)'
  BY GoFacts DEF FilmWork, SavesPiece, FilmInv

LEMMA FilmStepKeeps ==
    ASSUME FilmInv, NEW r \in Requests,
           LoadFilm(r) \/ WriteFilm(r) \/ RemoveFilm(r)
    PROVE  FilmInv'
  <1>0. /\ HttpInv /\ DOMAIN pc = Requests /\ DOMAIN job = Requests /\ FilmTablesOK
        /\ job[r] \in FilmJobs /\ job[r].op \in {"updateFilm", "deleteFilm"}
        /\ job[r].film \in Creators
    <2>1. HttpInv /\ r \in Arrived /\ job[r].op \in {"updateFilm", "deleteFilm"} /\ job[r] \in FilmJobs
      BY DEF LoadFilm, WriteFilm, RemoveFilm, At, FilmInv, Arrived
    <2>2. job[r].film \in Creators
      BY <2>1 DEF FilmJobs
    <2>3. FilmTablesOK
      BY DEF FilmTablesOK, FilmInv, FilmTypeOK, PieceRow
    <2>4. QED
      BY <2>1, <2>2, <2>3 DEF HttpInv
  <1>1. Goes(r) /\ pc'[r] \in {"write", "answered"}
    BY <1>0 DEF LoadFilm, WriteFilm, RemoveFilm, At, Goes, InProgress, Continue, Answer, Answers
  <1>2. \A x, row : (Known(x) => Known(x)') /\ (PieceRow(x, row) => PieceRow(x, row)')
    BY <1>0, <1>1, GoKeepsHomes
  <1>3. CASE LoadFilm(r) \/ WriteFilm(r)
    <2>1. UNCHANGED <<projects, pieces>> /\ films \subseteq films' /\ films' \subseteq films \cup {job[r].film}
      BY <1>3 DEF LoadFilm, WriteFilm, filmTables
    <2>2. FilmTablesOK'
      BY <1>0, <1>2, <2>1 DEF FilmTablesOK
    <2>3. QED
      BY <1>0, <1>1, <2>2, WorksElsewhere, GoKeepsFilmInv
  <1>4. CASE RemoveFilm(r)
    <2> DEFINE f == job[r].film
    <2>1. /\ films' = films \ {f}
          /\ \A p \in DOMAIN projects' : p \in DOMAIN projects /\ projects'[p] = projects[p] /\ projects[p] # f
          /\ \A p \in DOMAIN projects : projects[p] # f => p \in DOMAIN projects'
          /\ \A x \in DOMAIN pieces' : /\ x \in DOMAIN pieces /\ pieces'[x] = pieces[x]
                                       /\ pieces[x].project \notin ProjectsOf(f)
      BY <1>4 DEF RemoveFilm, DropProjects, Keep, ProjectsOf
    <2>2. FilmTablesOK'
      BY <1>0, <1>2, <2>1 DEF FilmTablesOK, ProjectsOf
    <2>3. QED
      BY <1>0, <1>1, <2>2, WorksElsewhere, GoKeepsFilmInv
  <1>5. QED
    BY <1>3, <1>4

LEMMA ProjectStepKeeps ==
    ASSUME FilmInv, NEW r \in Requests,
           \/ InsertProject(r) \/ CheckFilm(r) \/ LoadProject(r) \/ WriteProject(r)
           \/ RemoveProject(r) \/ Reread(r)
    PROVE  FilmInv'
  <1>0. /\ HttpInv /\ DOMAIN pc = Requests /\ DOMAIN job = Requests /\ DOMAIN held = Requests
        /\ FilmTablesOK /\ r \in Arrived /\ job[r] \in FilmJobs /\ r \in Creators /\ r # Nobody
    BY RequestConstants
       DEF InsertProject, CheckFilm, LoadProject, WriteProject, RemoveProject, Reread, At, FilmInv,
           HttpInv, Arrived, Creators, FilmTablesOK, FilmTypeOK, PieceRow
  <1>1. Goes(r)
    BY DEF InsertProject, CheckFilm, LoadProject, WriteProject, RemoveProject, Reread, At, Goes,
           InProgress, Continue, Answer, Answers
  <1>2. \A x, row : (Known(x) => Known(x)') /\ (PieceRow(x, row) => PieceRow(x, row)')
    BY <1>0, <1>1, GoKeepsHomes
  <1>3. CASE InsertProject(r)
    <2>1. \/ UNCHANGED filmTables
          \/ /\ job[r].film \in films /\ projects' = Put(projects, r, job[r].film)
             /\ UNCHANGED <<films, pieces>>
      BY <1>3 DEF InsertProject, filmTables
    <2>2. FilmTablesOK'
      BY <1>0, <1>2, <2>1 DEF FilmTablesOK, Put, filmTables
    <2>3. job[r].op = "createProject"
      BY <1>3 DEF InsertProject, At
    <2>4. pc'[r] = "insertPieces" => held'[r] = [project |-> r, from |-> 0]
      BY <1>0, <1>3 DEF InsertProject, Continue, Answer
    <2>5. HomeOf(r)' = r
      BY <1>0, <1>1, <2>3, GoFacts DEF HomeOf
    <2>6. FilmWork(r)'
      BY <1>1, <2>3, <2>4, <2>5, GoFacts, <1>0 DEF FilmWork, SavesPiece
    <2>7. QED
      BY <1>1, <2>2, <2>6, GoKeepsFilmInv
  <1>4. CASE CheckFilm(r) \/ LoadProject(r) \/ RemoveProject(r)
    <2>1. job[r].op \in {"updateProject", "deleteProject"} /\ pc'[r] # "insertPieces"
      BY <1>0, <1>4 DEF CheckFilm, LoadProject, RemoveProject, At, Continue, Answer
    <2>2. CASE UNCHANGED filmTables
      <3>1. FilmTablesOK'
        BY <1>0, <1>2, <2>2 DEF FilmTablesOK, filmTables
      <3>2. QED
        BY <1>1, <2>1, <3>1, WorksElsewhere, GoKeepsFilmInv
    <2>3. CASE RemoveProject(r)
      <3> DEFINE p == job[r].project
      <3>1. /\ films' = films
            /\ \A q \in DOMAIN projects' : q \in DOMAIN projects /\ projects'[q] = projects[q]
            /\ \A q \in DOMAIN projects \ {p} : q \in DOMAIN projects'
            /\ \A x \in DOMAIN pieces' : /\ x \in DOMAIN pieces /\ pieces'[x] = pieces[x]
                                         /\ pieces[x].project # p
        BY <2>3 DEF RemoveProject, DropProjects, Keep
      <3>2. FilmTablesOK'
        BY <1>0, <1>2, <3>1 DEF FilmTablesOK
      <3>3. QED
        BY <1>1, <2>1, <3>2, WorksElsewhere, GoKeepsFilmInv
    <2>4. QED
      BY <1>4, <2>2, <2>3 DEF CheckFilm, LoadProject
  <1>5. CASE WriteProject(r)
    <2>1. job[r].op = "updateProject" /\ job[r].project \in Creators
      BY <1>0, <1>5 DEF WriteProject, At, FilmJobs
    <2>2. \/ UNCHANGED filmTables
          \/ /\ held[r].film \in films /\ projects' = Put(projects, job[r].project, held[r].film)
             /\ UNCHANGED <<films, pieces>>
      BY <1>5 DEF WriteProject, filmTables
    <2>3. FilmTablesOK'
      BY <1>0, <1>2, <2>1, <2>2 DEF FilmTablesOK, Put, filmTables
    <2>4. pc'[r] # "insertPieces"
      BY <1>0, <1>5 DEF WriteProject, Continue, Answer
    <2>5. QED
      BY <1>1, <2>1, <2>3, <2>4, WorksElsewhere, GoKeepsFilmInv
  <1>6. CASE Reread(r)
    <2>1. UNCHANGED filmTables /\ pc'[r] = "answered"
      BY <1>0, <1>6 DEF Reread, Answer
    <2>2. FilmTablesOK'
      BY <1>0, <1>2, <2>1 DEF FilmTablesOK, filmTables
    <2>3. FilmWork(r)'
      BY <2>1 DEF FilmWork, InProgress
    <2>4. QED
      BY <1>1, <2>2, <2>3, GoKeepsFilmInv
  <1>7. QED
    BY <1>3, <1>4, <1>5, <1>6

LEMMA PieceStepKeeps ==
    ASSUME FilmInv, NEW r \in Requests,
           InsertPieces(r) \/ LoadPiece(r) \/ WritePiece(r) \/ RemovePiece(r)
    PROVE  FilmInv'
  <1>0. /\ HttpInv /\ DOMAIN pc = Requests /\ DOMAIN job = Requests /\ DOMAIN held = Requests
        /\ FilmTablesOK /\ r \in Arrived /\ job[r] \in FilmJobs /\ r \in Creators /\ r # Nobody
        /\ FilmWork(r)
    BY RequestConstants DEF InsertPieces, LoadPiece, WritePiece, RemovePiece, At, FilmInv,
           HttpInv, Arrived, Creators, FilmTablesOK, FilmTypeOK, PieceRow
  <1>1. Goes(r)
    BY DEF InsertPieces, LoadPiece, WritePiece, RemovePiece, At, Goes,
           InProgress, Continue, Answer, Answers
  <1>2. \A x, row : (Known(x) => Known(x)') /\ (PieceRow(x, row) => PieceRow(x, row)')
    BY <1>0, <1>1, GoKeepsHomes
  <1>3. CASE InsertPieces(r)
    <2>1. /\ job[r].op \in {"createProject", "addPieces"}
          /\ held[r].project = HomeOf(r) /\ held[r].from \in Nat
      BY <1>0, <1>3 DEF InsertPieces, FilmWork
    <2>2. job[r].count \in 0 .. MaxPieces /\ job[r].input \in CuttingPieceInputs
      BY <1>0, <2>1, FilmConstants DEF FilmJobs
    <2>3. ASSUME NEW k \in 1 .. job[r].count, held[r].project \in DOMAIN projects
          PROVE  /\ <<r, k>> \in PieceIds /\ Known(<<r, k>>)
                 /\ PieceRow(<<r, k>>, NewPiece(r, k)) /\ NewPiece(r, k).project = held[r].project
      <3>1. held[r].project \in Creators /\ held[r].from + k - 1 \in Nat
        BY <1>0, <2>1, <2>2, <2>3, FilmConstants DEF FilmTablesOK
      <3>2. k \in 1 .. MaxPieces
        BY <2>2, FilmConstants
      <3>3. NewPiece(r, k) \in PieceRows /\ NewPiece(r, k).project = held[r].project
        BY <2>2, <3>1 DEF NewPiece, PieceRows, CuttingPieceInputs
      <3>4. QED
        BY <1>0, <2>1, <3>2, <3>3 DEF PieceIds, Known, PieceRow
    <2>4. /\ films' = films /\ projects' = projects
          /\ \A x \in DOMAIN pieces' :
                \/ x \in DOMAIN pieces /\ pieces'[x] = pieces[x]
                \/ /\ held[r].project \in DOMAIN projects
                   /\ \E k \in 1 .. job[r].count : x = <<r, k>> /\ pieces'[x] = NewPiece(r, k)
      BY <1>3 DEF InsertPieces
    <2>5. \A x \in DOMAIN pieces' :
             x \in PieceIds /\ Known(x) /\ PieceRow(x, pieces'[x]) /\ pieces'[x].project \in DOMAIN projects
      BY <1>0, <2>3, <2>4 DEF FilmTablesOK
    <2>6. FilmTablesOK'
      BY <1>0, <1>2, <2>4, <2>5 DEF FilmTablesOK
    <2>7. pc'[r] \in {"answered", "reread"}
      BY <1>0, <1>3 DEF InsertPieces, Continue, Answer
    <2>8. QED
      BY <1>1, <2>1, <2>6, <2>7, WorksElsewhere, GoKeepsFilmInv
  <1>4. CASE LoadPiece(r)
    <2> DEFINE x == job[r].piece
    <2>1. PieceRow(x, held[r])
      BY <1>0, <1>4 DEF LoadPiece, FilmWork, SavesPiece, InProgress, HeldPiece
    <2>2. /\ pc'[r] = "write" /\ job' = job /\ UNCHANGED filmTables
          /\ held'[r] = [there |-> x \in DOMAIN pieces, entity |-> held[r],
                         dirty |-> IF x \in DOMAIN pieces THEN Dirty(held[r], pieces[x]) ELSE {}]
      BY <1>0, <1>4 DEF LoadPiece, Continue
    <2>3. "project" \notin held'[r].dirty
      BY <1>0, <2>1, <2>2 DEF FilmTablesOK, PieceRow, Dirty
    <2>4. PieceRow(x, HeldPiece(r))'
      <3>1. PICK row : row = held[r]
        OBVIOUS
      <3>2. PieceRow(x, row)'
        BY <1>2, <2>1, <2>2, <3>1 DEF PieceRow, HomeOf
      <3>3. HeldPiece(r)' = row
        BY <2>2, <3>1 DEF HeldPiece
      <3>4. QED
        BY <3>2, <3>3
    <2>5. FilmTablesOK'
      BY <1>0, <1>2, <2>2 DEF FilmTablesOK, filmTables
    <2>6. FilmWork(r)'
      BY <2>2, <2>3, <2>4 DEF FilmWork, HeldPiece
    <2>7. QED
      BY <1>1, <2>5, <2>6, GoKeepsFilmInv
  <1>5. CASE WritePiece(r)
    <2> DEFINE x == job[r].piece
               row == held[r].entity
    <2>1. PieceRow(x, row) /\ "project" \notin held[r].dirty
      BY <1>0, <1>5 DEF WritePiece, FilmWork, SavesPiece, InProgress, HeldPiece
    <2>2. x \in PieceIds /\ Known(x)
      BY <1>0, <1>5 DEF WritePiece, SavesPiece, FilmJobs, FilmInv, PieceOps
    <2>3. UNCHANGED <<films, projects>>
      BY <1>5 DEF WritePiece
    <2>4. \A y \in DOMAIN pieces' :
             \/ y \in DOMAIN pieces /\ pieces'[y] = pieces[y]
             \/ y = x /\ x \in DOMAIN pieces /\ pieces'[x] = Merge(pieces[x], row, held[r].dirty)
             \/ y = x /\ pieces'[x] = row /\ row.project \in DOMAIN projects
      BY <1>5 DEF WritePiece, Put
    <2>5. x \in DOMAIN pieces =>
             /\ PieceRow(x, Merge(pieces[x], row, held[r].dirty))
             /\ Merge(pieces[x], row, held[r].dirty).project = pieces[x].project
      BY <1>0, <2>1 DEF FilmTablesOK, PieceRow, PieceRows, Merge
    <2>6. \A y \in DOMAIN pieces' :
             /\ y \in PieceIds /\ Known(y) /\ PieceRow(y, pieces'[y])
             /\ pieces'[y].project \in DOMAIN projects
      <3> HIDE DEF x, row
      <3>1. QED
        BY <1>0, <2>1, <2>2, <2>4, <2>5 DEF FilmTablesOK
    <2>7. FilmTablesOK'
      BY <1>0, <1>2, <2>3, <2>6 DEF FilmTablesOK
    <2>8. pc'[r] = "answered"
      BY <1>0, <1>5 DEF WritePiece, Answer
    <2>9. FilmWork(r)'
      BY <2>8 DEF FilmWork, InProgress
    <2>10. QED
      BY <1>1, <2>7, <2>9, GoKeepsFilmInv
  <1>6. CASE RemovePiece(r)
    <2>1. /\ UNCHANGED <<films, projects>> /\ pc'[r] = "answered"
          /\ \A x \in DOMAIN pieces' : x \in DOMAIN pieces /\ pieces'[x] = pieces[x]
      BY <1>0, <1>6 DEF RemovePiece, Keep, Answer
    <2>2. FilmTablesOK'
      BY <1>0, <1>2, <2>1 DEF FilmTablesOK
    <2>3. FilmWork(r)'
      BY <2>1 DEF FilmWork, InProgress
    <2>4. QED
      BY <1>1, <2>2, <2>3, GoKeepsFilmInv
  <1>7. QED
    BY <1>3, <1>4, <1>5, <1>6

LEMMA FilmFailureKeeps ==
    ASSUME FilmInv, NEW r \in Requests, StatementFails(r), UNCHANGED filmTables
    PROVE  FilmInv'
  <1>1. HttpInv /\ FilmTablesOK /\ Goes(r)
    BY DEF FilmInv, FilmTypeOK, FilmTablesOK, PieceRow, Goes, StatementFails, Answers
  <1>2. \A x, row : (Known(x) => Known(x)') /\ (PieceRow(x, row) => PieceRow(x, row)')
    BY <1>1, GoKeepsHomes
  <1>3. FilmTablesOK'
    BY <1>1, <1>2 DEF FilmTablesOK, filmTables
  <1>4. pc'[r] = "answered"
    BY <1>1 DEF StatementFails, Answer, HttpInv
  <1>5. FilmWork(r)'
    BY <1>4 DEF FilmWork, InProgress
  <1>6. QED
    BY <1>1, <1>3, <1>5, GoKeepsFilmInv

LEMMA FilmInvStarts == FilmInit => FilmInv
  <1> SUFFICES ASSUME FilmInit PROVE FilmInv
    OBVIOUS
  <1>1. HttpTypeOK /\ HttpInv
    BY HttpTypesStart, HttpStarts DEF FilmInit
  <1>2. Arrived = {} /\ \A r \in Requests : pc[r] = "idle"
    BY DEF FilmInit, HttpInit, Arrived
  <1>3. /\ films = {Nobody} /\ DOMAIN projects = {Nobody} /\ projects[Nobody] = Nobody
        /\ DOMAIN pieces = {<<Nobody, 1>>}
        /\ pieces[<<Nobody, 1>>] \in PieceRows /\ pieces[<<Nobody, 1>>].project = Nobody
    BY DEF FilmInit, FilmTablesSeeded, PieceRows, Creators
  <1>4. <<Nobody, 1>> \in PieceIds
    BY FilmConstants DEF PieceIds, Creators
  <1>5. Known(<<Nobody, 1>>) /\ HomeOf(Nobody) = Nobody
    BY DEF Known, HomeOf
  <1>6. FilmTypeOK
    BY <1>1, <1>3, <1>4 DEF FilmTypeOK, Creators
  <1>7. \A r \in Requests : FilmWork(r)
    BY <1>2 DEF FilmWork, InProgress
  <1>8. QED
    BY <1>1, <1>2, <1>3, <1>5, <1>6, <1>7 DEF FilmInv

LEMMA FilmNextKeepsInv == FilmInv /\ [FilmNext]_filmVars => FilmInv'
  <1>1. FilmInv /\ UNCHANGED filmVars => FilmInv'
    BY DEF filmVars, filmTables, httpVars, FilmInv, FilmTypeOK, HttpTypeOK, HttpInv, Arrived,
           Answered, InProgress, FilmWork, HeldPiece, PieceRow, HomeOf, Known, SavesPiece
  <1>2. QED
    BY <1>1, FilmRequestKeeps, ProjectRequestKeeps, PieceRequestKeeps, FilmStepKeeps,
       ProjectStepKeeps, PieceStepKeeps, FilmFailureKeeps DEF FilmNext, FilmStep

\* Films, projects and pieces are of their types, and the foreign keys between them hold
\* through every cascade, late insert and revival.
THEOREM FilmsTypeCorrect == FilmSpec => []FilmTypeOK
  <1>1. FilmInv => FilmTypeOK
    BY DEF FilmInv
  <1>2. QED
    BY <1>1, FilmInvStarts, FilmNextKeepsInv, PTL DEF FilmSpec
-----------------------------------------------------------------------------
(* Films: what starts and later steps do to the tables.                    *)

\* A piece that is not cut and has a fixed position.
Loose(row) == ~row.done /\ row.fixed

\* How a request starts: the tables stay as they are but for a film that is made at
\* once, and what goes on has found its row.
FilmStarted(r, j) ==
    /\ Starts(r, j)
    /\ UNCHANGED <<projects, pieces>>
    /\ answer'[r] = "ok" => j.op = "createFilm"
    /\ j.op = "createFilm" => films' = films \cup {r} /\ pc'[r] = "answered"
    /\ j.op # "createFilm" => films' = films
    /\ pc'[r] \in {"answered", "load", "checkFilm", "remove", "insert", "insertPieces"}
    /\ pc'[r] = "insert" => j.op = "createProject"
    /\ pc'[r] = "insertPieces" => j.op = "addPieces"
    /\ j.op \in {"updateFilm", "deleteFilm", "createProject"} =>
          /\ j.film \in KnownFilms
          /\ pc'[r] # "answered" => j.film \in films
    /\ j.op = "deleteFilm" /\ pc'[r] # "answered" => ProjectsOf(j.film) = {}
    /\ j.op = "createProject" => pc'[r] \in {"answered", "insert"}
    /\ j.op \in {"updateProject", "deleteProject", "addPieces"} => j.project \in KnownProjects
    /\ j.op \in {"updateProject", "deleteProject"} /\ pc'[r] # "answered" =>
          j.project \in DOMAIN projects
    /\ j.op = "updateProject" /\ pc'[r] # "answered" =>
          pc'[r] \in {"load", "checkFilm"} /\ held'[r] = projects[j.project]
    /\ j.op = "addPieces" /\ pc'[r] # "answered" =>
          /\ j.project \in DOMAIN projects
          /\ pc'[r] = "insertPieces"
          /\ held'[r] = [project |-> j.project, from |-> NextOrder(j.project)]
    /\ j.op \in PieceOps =>
          /\ j.piece \in KnownPieces
          /\ pc'[r] # "answered" => j.piece \in DOMAIN pieces
    /\ j.op \in {"updatePiece", "togglePieceComplete"} /\ pc'[r] # "answered" =>
          /\ pc'[r] = "load" /\ held'[r].order = pieces[j.piece].order
          /\ Loose(held'[r]) =>
                Loose(pieces[j.piece]) \/ (j.op = "updatePiece" /\ j.done = FALSE)

LEMMA FilmStarts ==
    ASSUME FilmInv, NEW r \in Requests, FilmRequest(r) \/ ProjectRequest(r) \/ PieceRequest(r)
    PROVE  \E j \in FilmJobs : FilmStarted(r, j)
  <1>0. /\ r \in Creators /\ KnownFilms \subseteq Creators /\ KnownProjects \subseteq Creators
        /\ films \subseteq Creators
        /\ DOMAIN pc = Requests /\ DOMAIN job = Requests /\ DOMAIN held = Requests
        /\ answer \in [Requests -> Answers] /\ (answer[r] = "none" \/ pc[r] # "idle")
        /\ KnownPieces \subseteq PieceIds
        /\ \A x \in DOMAIN pieces : pieces[x] \in PieceRows
    <2>1. <<Nobody, 1>> \in PieceIds
      BY FilmConstants DEF PieceIds, Creators
    <2>2. QED
      BY <2>1 DEF KnownFilms, KnownProjects, KnownPieces, Creators, FilmInv, FilmTypeOK, HttpInv
  <1>1. CASE CreateFilm(r)
    <2>1. PICK j : j = [op |-> "createFilm"]
      OBVIOUS
    <2>2. j \in FilmJobs /\ j.op = "createFilm"
      BY <2>1 DEF FilmJobs
    <2>3. FilmStarted(r, j)
      BY <1>0, <1>1, <2>1, <2>2
         DEF CreateFilm, FilmStarted, Starts, Serve, Arrive, Answers, PieceOps
    <2>4. QED
      BY <2>2, <2>3
  <1>2. ASSUME NEW f \in KnownFilms, UpdateFilm(r, f) PROVE \E j \in FilmJobs : FilmStarted(r, j)
    <2>1. PICK j : j = [op |-> "updateFilm", film |-> f]
      OBVIOUS
    <2>2. j \in FilmJobs /\ j.op = "updateFilm" /\ j.film = f
      BY <1>0, <2>1 DEF FilmJobs
    <2>3. /\ Starts(r, j) /\ UNCHANGED filmTables /\ (pc'[r] # "answered" => f \in films)
          /\ answer'[r] # "ok" /\ pc'[r] \in {"answered", "load"}
      BY <1>0, <1>2, <2>1 DEF UpdateFilm, Starts, Begin, Serve, Arrive, Answers
    <2>4. FilmStarted(r, j)
      BY <1>0, <2>2, <2>3 DEF FilmStarted, PieceOps, filmTables
    <2>5. QED
      BY <2>2, <2>4
  <1>3. ASSUME NEW f \in KnownFilms, DeleteFilm(r, f) PROVE \E j \in FilmJobs : FilmStarted(r, j)
    <2>1. PICK j : j = [op |-> "deleteFilm", film |-> f]
      OBVIOUS
    <2>2. j \in FilmJobs /\ j.op = "deleteFilm" /\ j.film = f
      BY <1>0, <2>1 DEF FilmJobs
    <2>3. /\ Starts(r, j) /\ UNCHANGED filmTables /\ answer'[r] # "ok"
          /\ pc'[r] # "answered" => f \in films /\ ProjectsOf(f) = {}
          /\ pc'[r] \in {"answered", "remove"}
      BY <1>0, <1>3, <2>1 DEF DeleteFilm, Starts, Begin, Serve, Arrive, Answers
    <2>4. FilmStarted(r, j)
      BY <1>0, <2>2, <2>3 DEF FilmStarted, PieceOps, filmTables
    <2>5. QED
      BY <2>2, <2>4
  <1>4. ASSUME NEW f \in KnownFilms, NEW n \in 0 .. MaxPieces, NEW input \in PieceInputs,
               CreateProject(r, f, n, input)
        PROVE  \E j \in FilmJobs : FilmStarted(r, j)
    <2>1. PICK j : j = [op |-> "createProject", film |-> f, count |-> n, input |-> input]
      OBVIOUS
    <2>2. j \in FilmJobs /\ j.op = "createProject" /\ j.film = f
      BY <1>0, <2>1 DEF FilmJobs
    <2>3. /\ Starts(r, j) /\ UNCHANGED filmTables /\ answer'[r] # "ok"
          /\ pc'[r] \in {"answered", "insert"} /\ (pc'[r] # "answered" => f \in films)
      BY <1>0, <1>4, <2>1 DEF CreateProject, Starts, Begin, Serve, Arrive, Answers
    <2>4. FilmStarted(r, j)
      BY <1>0, <2>2, <2>3 DEF FilmStarted, PieceOps, filmTables
    <2>5. QED
      BY <2>2, <2>4
  <1>5. ASSUME NEW p \in KnownProjects, NEW f \in films \cup {Nothing}, UpdateProject(r, p, f)
        PROVE  \E j \in FilmJobs : FilmStarted(r, j)
    <2>1. PICK j : j = [op |-> "updateProject", project |-> p, film |-> f]
      OBVIOUS
    <2>2. j \in FilmJobs /\ j.op = "updateProject" /\ j.project = p
      BY <1>0, <2>1 DEF FilmJobs
    <2>3. /\ Starts(r, j) /\ UNCHANGED filmTables /\ answer'[r] # "ok"
          /\ pc'[r] \in {"answered", "load", "checkFilm"}
          /\ pc'[r] # "answered" =>
                p \in DOMAIN projects /\ pc'[r] \in {"load", "checkFilm"} /\ held'[r] = projects[p]
      BY <1>0, <1>5, <2>1 DEF UpdateProject, Starts, Begin, Serve, Arrive, Answers
    <2>4. FilmStarted(r, j)
      BY <1>0, <2>2, <2>3 DEF FilmStarted, PieceOps, filmTables
    <2>5. QED
      BY <2>2, <2>4
  <1>6. ASSUME NEW p \in KnownProjects, DeleteProject(r, p)
        PROVE  \E j \in FilmJobs : FilmStarted(r, j)
    <2>1. PICK j : j = [op |-> "deleteProject", project |-> p]
      OBVIOUS
    <2>2. j \in FilmJobs /\ j.op = "deleteProject" /\ j.project = p
      BY <1>0, <2>1 DEF FilmJobs
    <2>3. /\ Starts(r, j) /\ UNCHANGED filmTables /\ answer'[r] # "ok"
          /\ pc'[r] # "answered" => p \in DOMAIN projects
          /\ pc'[r] \in {"answered", "remove"}
      BY <1>0, <1>6, <2>1 DEF DeleteProject, Starts, Begin, Serve, Arrive, Answers
    <2>4. FilmStarted(r, j)
      BY <1>0, <2>2, <2>3 DEF FilmStarted, PieceOps, filmTables
    <2>5. QED
      BY <2>2, <2>4
  <1>7. ASSUME NEW p \in KnownProjects, NEW n \in 1 .. MaxPieces, NEW input \in PieceInputs,
               AddPieces(r, p, n, input)
        PROVE  \E j \in FilmJobs : FilmStarted(r, j)
    <2>1. PICK j : j = [op |-> "addPieces", project |-> p, count |-> n, input |-> input]
      OBVIOUS
    <2>2. j \in FilmJobs /\ j.op = "addPieces" /\ j.project = p
      BY <1>0, <2>1 DEF FilmJobs
    <2>3. /\ Starts(r, j) /\ UNCHANGED filmTables /\ answer'[r] # "ok"
          /\ pc'[r] \in {"answered", "insertPieces"}
          /\ pc'[r] # "answered" =>
                /\ p \in DOMAIN projects /\ pc'[r] = "insertPieces"
                /\ held'[r] = [project |-> p, from |-> NextOrder(p)]
      BY <1>0, <1>7, <2>1 DEF AddPieces, Starts, Begin, Serve, Arrive, Answers
    <2>4. FilmStarted(r, j)
      BY <1>0, <2>2, <2>3 DEF FilmStarted, PieceOps, filmTables
    <2>5. QED
      BY <2>2, <2>4
  <1>8. ASSUME NEW p \in KnownProjects, NEW x \in KnownPieces, NEW j \in FilmJobs,
               j.op \in PieceOps, j.piece = x, Starts(r, j), UNCHANGED filmTables,
               answer'[r] # "ok", pc'[r] # "answered" => x \in DOMAIN pieces,
               pc'[r] \in {"answered", "load", "remove"},
               pc'[r] # "answered" /\ j.op # "deletePiece" =>
                  /\ pc'[r] = "load" /\ held'[r].order = pieces[x].order
                  /\ Loose(held'[r]) => Loose(pieces[x]) \/ (j.op = "updatePiece" /\ j.done = FALSE)
        PROVE  FilmStarted(r, j)
    BY <1>0, <1>8 DEF FilmStarted, PieceOps, filmTables
  <1>9. ASSUME NEW p \in KnownProjects, NEW x \in KnownPieces, NEW done \in BOOLEAN \cup {Nothing},
               UpdatePiece(r, p, x, done)
        PROVE  \E j \in FilmJobs : FilmStarted(r, j)
    <2>1. PICK j : j = [op |-> "updatePiece", project |-> p, piece |-> x, done |-> done]
      OBVIOUS
    <2>2. j \in FilmJobs /\ j.op = "updatePiece" /\ j.op \in PieceOps /\ j.piece = x /\ j.done = done
      BY <1>0, <2>1 DEF FilmJobs, PieceOps
    <2>3. /\ Starts(r, j) /\ UNCHANGED filmTables /\ answer'[r] # "ok"
          /\ pc'[r] \in {"answered", "load", "remove"}
          /\ pc'[r] # "answered" =>
                /\ x \in DOMAIN pieces /\ pc'[r] = "load"
                /\ held'[r] = IF done = Nothing THEN pieces[x]
                                                ELSE [pieces[x] EXCEPT !.done = done]
      BY <1>0, <1>9, <2>1 DEF UpdatePiece, Piece, Starts, Begin, Serve, Arrive, Answers
    <2>4. pc'[r] # "answered" => held'[r].order = pieces[x].order
      BY <1>0, <2>3 DEF PieceRows
    <2>6. pc'[r] # "answered" => (Loose(held'[r]) => Loose(pieces[x]) \/ done = FALSE)
      <3> SUFFICES ASSUME pc'[r] # "answered", Loose(held'[r]), done # FALSE PROVE Loose(pieces[x])
        OBVIOUS
      <3>1. CASE done = Nothing
        BY <2>3, <3>1
      <3>2. CASE done = TRUE
        <4>1. pieces[x] \in PieceRows
          BY <1>0, <2>3
        <4>2. PICK row \in PieceRows : row = pieces[x]
          BY <4>1
        <4>3. [row EXCEPT !.done = TRUE].done = TRUE
          BY DEF PieceRows
        <4>4. held'[r] = [row EXCEPT !.done = TRUE] \/ done = Nothing
          BY <2>3, <3>2, <4>2
        <4>5. QED
          BY <3>1, <4>3, <4>4 DEF Loose
      <3>3. QED
        BY <3>1, <3>2
    <2>7. QED
      BY <1>8, <2>2, <2>3, <2>4, <2>6
  <1>10. ASSUME NEW p \in KnownProjects, NEW x \in KnownPieces, NEW fixed \in BOOLEAN,
                TogglePieceComplete(r, p, x, fixed)
         PROVE  \E j \in FilmJobs : FilmStarted(r, j)
    <2>1. PICK j : j = [op |-> "togglePieceComplete", project |-> p, piece |-> x, fixed |-> fixed]
      OBVIOUS
    <2>2. j \in FilmJobs /\ j.op = "togglePieceComplete" /\ j.op \in PieceOps /\ j.piece = x
      BY <1>0, <2>1 DEF FilmJobs, PieceOps
    <2>3. /\ Starts(r, j) /\ UNCHANGED filmTables /\ answer'[r] # "ok"
          /\ pc'[r] \in {"answered", "load", "remove"}
          /\ pc'[r] # "answered" =>
                /\ x \in DOMAIN pieces /\ pc'[r] = "load" /\ held'[r] = Toggled(pieces[x], fixed)
      BY <1>0, <1>10, <2>1 DEF TogglePieceComplete, Piece, Starts, Begin, Serve, Arrive, Answers
    <2>4. pc'[r] # "answered" => held'[r].order = pieces[x].order
      BY <1>0, <2>3 DEF PieceRows, Toggled
    <2>5. pc'[r] # "answered" => ~Loose(held'[r])
      <3>1. \A row \in PieceRows : ~Loose(Toggled(row, fixed))
        BY DEF PieceRows, Toggled, Loose
      <3>2. QED
        BY <1>0, <2>3, <3>1
    <2>6. QED
      BY <1>8, <2>2, <2>3, <2>4, <2>5
  <1>11. ASSUME NEW p \in KnownProjects, NEW x \in KnownPieces, DeletePiece(r, p, x)
         PROVE  \E j \in FilmJobs : FilmStarted(r, j)
    <2>1. PICK j : j = [op |-> "deletePiece", project |-> p, piece |-> x]
      OBVIOUS
    <2>2. j \in FilmJobs /\ j.op = "deletePiece" /\ j.op \in PieceOps /\ j.piece = x
      BY <1>0, <2>1 DEF FilmJobs, PieceOps
    <2>3. /\ Starts(r, j) /\ UNCHANGED filmTables /\ answer'[r] # "ok"
          /\ pc'[r] # "answered" => x \in DOMAIN pieces
          /\ pc'[r] \in {"answered", "load", "remove"}
      BY <1>0, <1>11, <2>1 DEF DeletePiece, Piece, Starts, Begin, Serve, Arrive, Answers
    <2>4. QED
      BY <1>8, <2>2, <2>3
  <1>12. QED
    BY <1>1, <1>2, <1>3, <1>4, <1>5, <1>6, <1>7, <1>9, <1>10, <1>11
    DEF FilmRequest, ProjectRequest, PieceRequest

Adds == {"createProject", "addPieces"}
Rereads == Adds \cup {"updateProject"}

\* What a later step of a request does to films, ...
FilmsWent(r) ==
    /\ \A f \in films' : f \in films \/ (job[r].op = "updateFilm" /\ f = job[r].film)
    /\ \A f \in films : f \in films' \/ (job[r].op = "deleteFilm" /\ f = job[r].film)
    /\ job[r].op = "deleteFilm" /\ answer'[r] = "ok" => job[r].film \notin films'
    /\ answer'[r] = "ok" => job[r].op # "createFilm"

\* ... to projects, which are inserted by their request or by a save of theirs, and go
\* when they or their film is deleted, ...
ProjectsWent(r) ==
    /\ \A p \in DOMAIN projects' :
          \/ p \in DOMAIN projects /\ projects'[p] = projects[p]
          \/ /\ job[r].op = "createProject" /\ pc[r] = "insert"
             /\ p = r /\ projects'[p] = job[r].film
          \/ /\ job[r].op = "updateProject" /\ pc[r] = "write"
             /\ p = job[r].project /\ projects'[p] = held[r].film
    /\ \A p \in DOMAIN projects :
          \/ p \in DOMAIN projects'
          \/ job[r].op = "deleteProject" /\ p = job[r].project
          \/ job[r].op = "deleteFilm" /\ pc[r] = "remove" /\ projects[p] = job[r].film
    /\ job[r].op = "deleteProject" /\ answer'[r] = "ok" => job[r].project \notin DOMAIN projects'
    /\ pc'[r] \notin {"insert", "checkFilm", "remove"}
    /\ pc[r] = "insert" => pc'[r] \in {"insertPieces", "reread", "answered"}
    /\ pc[r] = "insertPieces" => pc'[r] \in {"reread", "answered"}
    /\ pc[r] = "reread" => pc'[r] = "answered"
    /\ pc'[r] = "insertPieces" =>
          /\ job[r].op = "createProject" /\ pc[r] = "insert"
          /\ held'[r] = [project |-> r, from |-> 0]
    /\ pc[r] = "insert" /\ pc'[r] # "answered" => r \in DOMAIN projects'
    /\ pc'[r] = "load" => pc[r] = "checkFilm" /\ job[r].op = "updateProject" /\ held'[r] = held[r]
    /\ job[r].op = "updateProject" /\ pc'[r] = "write" => pc[r] = "load" /\ held'[r].film = held[r]

\* ... and to pieces.
PiecesWent(r) ==
    /\ \A x \in DOMAIN pieces' :
          \/ x \in DOMAIN pieces /\ pieces'[x] = pieces[x]
          \/ /\ pc[r] = "write" /\ SavesPiece(r) /\ x = job[r].piece /\ x \in DOMAIN pieces
             /\ pieces'[x] = Merge(pieces[x], held[r].entity, held[r].dirty)
          \/ /\ pc[r] = "write" /\ SavesPiece(r) /\ x = job[r].piece /\ x \notin DOMAIN pieces
             /\ pieces'[x] = held[r].entity
          \/ /\ pc[r] = "insertPieces" /\ pc'[r] = "reread"
             /\ \E k \in 1 .. job[r].count : x = <<r, k>> /\ pieces'[x] = NewPiece(r, k)
    /\ \A x \in DOMAIN pieces :
          \/ x \in DOMAIN pieces'
          \/ job[r].op = "deletePiece" /\ x = job[r].piece
          \/ job[r].op = "deleteProject" /\ pieces[x].project = job[r].project
          \/ /\ job[r].op = "deleteFilm" /\ pc[r] = "remove"
             /\ projects[pieces[x].project] = job[r].film
    /\ job[r].op = "deletePiece" /\ answer'[r] = "ok" => job[r].piece \notin DOMAIN pieces'
    /\ pc'[r] = "reread" =>
          /\ job[r].op \in Rereads
          /\ \/ job[r].op = "updateProject"
             \/ job[r].op = "createProject" /\ pc[r] = "insert" /\ job[r].count = 0
             \/ /\ pc[r] = "insertPieces"
                /\ \A k \in 1 .. job[r].count : <<r, k>> \in DOMAIN pieces'
    /\ job[r].op \in Adds /\ answer'[r] = "ok" => pc[r] = "reread"
    /\ SavesPiece(r) /\ pc'[r] = "write" =>
          /\ pc[r] = "load" /\ held'[r].entity = held[r]
          /\ held'[r].dirty = IF job[r].piece \in DOMAIN pieces
                                 THEN Dirty(held[r], pieces[job[r].piece]) ELSE {}

FilmWent(r) == Goes(r) /\ FilmsWent(r) /\ ProjectsWent(r) /\ PiecesWent(r)

LEMMA FilmGoes ==
    ASSUME FilmInv, NEW r \in Requests, FilmStep(r), pc[r] = "reread" => job[r].op \in Rereads
    PROVE  FilmWent(r)
  <1>0. /\ DOMAIN pc = Requests /\ DOMAIN job = Requests /\ DOMAIN held = Requests
        /\ answer \in [Requests -> Answers] /\ FilmWork(r)
        /\ \A x \in DOMAIN pieces : pieces[x].project \in DOMAIN projects
    BY DEF FilmInv, FilmTypeOK, HttpInv
  <1>1. Goes(r)
    BY DEF FilmStep, LoadFilm, WriteFilm, RemoveFilm, InsertProject, CheckFilm, LoadProject,
           WriteProject, RemoveProject, Reread, InsertPieces, LoadPiece, WritePiece, RemovePiece,
           StatementFails, At, SavesPiece, Goes, InProgress, Continue, Answer, Answers
  <1>2. answer[r] = "none" /\ job' = job
    BY <1>1, GoFacts DEF FilmInv
  <1>3. CASE LoadFilm(r) \/ CheckFilm(r) \/ LoadProject(r) \/ Reread(r) \/ LoadPiece(r)
             \/ (StatementFails(r) /\ UNCHANGED filmTables)
    <2>1. UNCHANGED <<films, projects, pieces>>
      BY <1>3 DEF LoadFilm, CheckFilm, LoadProject, Reread, LoadPiece, filmTables
    <2>2. CASE LoadFilm(r)
      BY <1>0, <1>1, <1>2, <2>1, <2>2 DEF LoadFilm, At, Continue, FilmWent, FilmsWent, ProjectsWent,
                                         PiecesWent, SavesPiece, Adds
    <2>3. CASE CheckFilm(r)
      BY <1>0, <1>1, <1>2, <2>1, <2>3 DEF CheckFilm, At, Continue, Answer, FilmWent, FilmsWent,
                                         ProjectsWent, PiecesWent, SavesPiece, Adds
    <2>4. CASE LoadProject(r)
      BY <1>0, <1>1, <1>2, <2>1, <2>4 DEF LoadProject, At, Continue, FilmWent, FilmsWent,
                                         ProjectsWent, PiecesWent, SavesPiece, Adds
    <2>5. CASE Reread(r)
      BY <1>0, <1>1, <1>2, <2>1, <2>5 DEF Reread, Answer, FilmWent, FilmsWent, ProjectsWent,
                                         PiecesWent, SavesPiece, Adds, Rereads
    <2>6. CASE LoadPiece(r)
      BY <1>0, <1>1, <1>2, <2>1, <2>6 DEF LoadPiece, Continue, FilmWent, FilmsWent, ProjectsWent,
                                         PiecesWent, SavesPiece, Adds
    <2>7. CASE StatementFails(r)
      BY <1>0, <1>1, <1>2, <2>1, <2>7 DEF StatementFails, Answer, FilmWent, FilmsWent, ProjectsWent,
                                         PiecesWent
    <2>8. QED
      BY <1>3, <2>2, <2>3, <2>4, <2>5, <2>6, <2>7
  <1>4. CASE WriteFilm(r)
    <2>1. /\ UNCHANGED <<projects, pieces>> /\ pc'[r] = "answered" /\ job[r].op = "updateFilm"
          /\ films' = films \/ films' = films \cup {job[r].film}
      BY <1>0, <1>4 DEF WriteFilm, At, Answer
    <2>2. QED
      BY <1>1, <1>2, <2>1 DEF FilmWent, FilmsWent, ProjectsWent, PiecesWent, SavesPiece, Adds
  <1>5. CASE RemoveFilm(r)
    <2> DEFINE f == job[r].film
    <2>1. /\ films' = films \ {f} /\ pc'[r] = "answered" /\ job[r].op = "deleteFilm"
          /\ pc[r] = "remove"
          /\ DOMAIN projects' = {p \in DOMAIN projects : projects[p] # f}
          /\ \A p \in DOMAIN projects' : projects'[p] = projects[p]
          /\ DOMAIN pieces' = {x \in DOMAIN pieces : pieces[x].project \notin ProjectsOf(f)}
          /\ \A x \in DOMAIN pieces' : pieces'[x] = pieces[x]
      BY <1>0, <1>5 DEF RemoveFilm, DropProjects, Keep, ProjectsOf, At, Answer
    <2>2. FilmsWent(r) /\ ProjectsWent(r)
      BY <1>1, <1>2, <2>1 DEF FilmsWent, ProjectsWent
    <2>3. PiecesWent(r)
      BY <1>0, <1>2, <2>1 DEF PiecesWent, ProjectsOf, SavesPiece, Adds
    <2>4. QED
      BY <1>1, <2>2, <2>3 DEF FilmWent
  <1>6. CASE InsertProject(r)
    <2>1. job[r].op = "createProject" /\ pc[r] = "insert" /\ UNCHANGED <<films, pieces>>
      BY <1>6 DEF InsertProject, At
    <2>2. CASE pc'[r] = "answered"
      <3>1. UNCHANGED projects /\ answer'[r] = "error"
        BY <1>0, <1>6, <2>2 DEF InsertProject, Answer, Continue
      <3>2. QED
        BY <1>1, <1>2, <2>1, <2>2, <3>1
           DEF FilmWent, FilmsWent, ProjectsWent, PiecesWent, SavesPiece,
                                            Adds
    <2>3. CASE pc'[r] # "answered"
      <3>1. /\ projects' = Put(projects, r, job[r].film) /\ answer' = answer
            /\ \/ job[r].count = 0 /\ pc'[r] = "reread"
               \/ /\ job[r].count # 0 /\ pc'[r] = "insertPieces"
                  /\ held'[r] = [project |-> r, from |-> 0]
        BY <1>0, <1>6, <2>3 DEF InsertProject, Answer, Continue
      <3>2. /\ DOMAIN projects' = DOMAIN projects \cup {r} /\ projects'[r] = job[r].film
            /\ \A p \in DOMAIN projects \ {r} : projects'[p] = projects[p]
        BY <3>1 DEF Put
      <3>3. QED
        BY <1>1, <1>2, <2>1, <2>3, <3>1, <3>2 DEF FilmWent, FilmsWent, ProjectsWent, PiecesWent,
                                                  SavesPiece, Adds, Rereads
    <2>4. QED
      BY <2>2, <2>3
  <1>7. CASE WriteProject(r)
    <2> DEFINE p == job[r].project
    <2>1. job[r].op = "updateProject" /\ pc[r] = "write" /\ UNCHANGED <<films, pieces>>
      BY <1>7 DEF WriteProject, At
    <2>2. pc'[r] \in {"answered", "reread"} /\ answer'[r] # "ok"
      BY <1>0, <1>2, <1>7 DEF WriteProject, Answer, Continue
    <2>3. projects' = projects \/ projects' = Put(projects, p, held[r].film)
      BY <1>7 DEF WriteProject
    <2>4. \A q \in DOMAIN projects' :
             \/ q \in DOMAIN projects /\ projects'[q] = projects[q]
             \/ q = p /\ projects'[q] = held[r].film
      BY <2>3 DEF Put
    <2>5. DOMAIN projects \subseteq DOMAIN projects'
      BY <2>3 DEF Put
    <2>6. QED
      BY <1>1, <1>2, <2>1, <2>2, <2>4, <2>5 DEF FilmWent, FilmsWent, ProjectsWent, PiecesWent,
                                                SavesPiece, Adds, Rereads
  <1>8. CASE RemoveProject(r)
    <2>1. /\ UNCHANGED films /\ pc'[r] = "answered" /\ job[r].op = "deleteProject"
          /\ DOMAIN projects' = DOMAIN projects \ {job[r].project}
          /\ \A p \in DOMAIN projects' : projects'[p] = projects[p]
          /\ DOMAIN pieces' = {x \in DOMAIN pieces : pieces[x].project # job[r].project}
          /\ \A x \in DOMAIN pieces' : pieces'[x] = pieces[x]
      BY <1>0, <1>8 DEF RemoveProject, DropProjects, Keep, At, Answer
    <2>2. QED
      BY <1>1, <1>2, <2>1 DEF FilmWent, FilmsWent, ProjectsWent, PiecesWent, SavesPiece, Adds
  <1>9. CASE InsertPieces(r)
    <2>1. /\ pc[r] = "insertPieces" /\ UNCHANGED <<films, projects>> /\ job[r].op \in Adds
      BY <1>0, <1>9 DEF InsertPieces, FilmWork, Adds
    <2>2. CASE pc'[r] = "answered"
      <3>1. UNCHANGED pieces /\ answer'[r] = "error"
        BY <1>0, <1>9, <2>2 DEF InsertPieces, Answer, Continue
      <3>2. QED
        BY <1>1, <1>2, <2>1, <2>2, <3>1
           DEF FilmWent, FilmsWent, ProjectsWent, PiecesWent, SavesPiece,
                                            Adds
    <2>3. CASE pc'[r] # "answered"
      <3>1. /\ pc'[r] = "reread" /\ answer' = answer
            /\ DOMAIN pieces' = DOMAIN pieces \cup {<<r, k>> : k \in 1 .. job[r].count}
            /\ \A x \in DOMAIN pieces' :
                  \/ x \in DOMAIN pieces /\ pieces'[x] = pieces[x]
                  \/ \E k \in 1 .. job[r].count : x = <<r, k>> /\ pieces'[x] = NewPiece(r, k)
        BY <1>0, <1>9, <2>3 DEF InsertPieces, Answer, Continue
      <3>2. \A k \in 1 .. job[r].count : <<r, k>> \in DOMAIN pieces'
        BY <3>1
      <3>3. FilmsWent(r) /\ ProjectsWent(r)
        BY <1>1, <1>2, <2>1, <3>1 DEF FilmsWent, ProjectsWent, Adds
      <3>4. PiecesWent(r)
        BY <1>2, <2>1, <3>1, <3>2 DEF PiecesWent, SavesPiece, Adds, Rereads
      <3>5. QED
        BY <1>1, <3>3, <3>4 DEF FilmWent
    <2>4. QED
      BY <2>2, <2>3
  <1>10. CASE WritePiece(r)
    <2>1. /\ pc[r] = "write" /\ SavesPiece(r) /\ pc'[r] = "answered" /\ UNCHANGED <<films, projects>>
          /\ job[r].op \in {"updatePiece", "togglePieceComplete"}
      BY <1>0, <1>10 DEF WritePiece, SavesPiece, Answer
    <2>2. \A x \in DOMAIN pieces' :
             \/ x \in DOMAIN pieces /\ pieces'[x] = pieces[x]
             \/ /\ x = job[r].piece /\ x \in DOMAIN pieces
                /\ pieces'[x] = Merge(pieces[x], held[r].entity, held[r].dirty)
             \/ x = job[r].piece /\ x \notin DOMAIN pieces /\ pieces'[x] = held[r].entity
      BY <1>10 DEF WritePiece, Put
    <2>3. DOMAIN pieces \subseteq DOMAIN pieces'
      BY <1>10 DEF WritePiece, Put
    <2>4. QED
      BY <1>1, <1>2, <2>1, <2>2, <2>3 DEF FilmWent, FilmsWent, ProjectsWent, PiecesWent, Adds
  <1>11. CASE RemovePiece(r)
    <2>1. /\ UNCHANGED <<films, projects>> /\ pc'[r] = "answered" /\ job[r].op = "deletePiece"
          /\ DOMAIN pieces' = DOMAIN pieces \ {job[r].piece}
          /\ \A x \in DOMAIN pieces' : pieces'[x] = pieces[x]
      BY <1>0, <1>11 DEF RemovePiece, Keep, At, Answer
    <2>2. QED
      BY <1>1, <1>2, <2>1 DEF FilmWent, FilmsWent, ProjectsWent, PiecesWent, SavesPiece, Adds
  <1>12. QED
    BY <1>3, <1>4, <1>5, <1>6, <1>7, <1>8, <1>9, <1>10, <1>11 DEF FilmStep
-----------------------------------------------------------------------------
(* Films: where the rows come from.                                        *)

\* The film of a project.
FilmOf(p) == IF p = Nobody THEN Nobody ELSE job[p].film

\* The project has been inserted by its request, or the piece by its own.
Born(p) ==
    p \in Requests =>
       job[p].op = "createProject" /\ pc[p] \in {"insertPieces", "reread", "answered"}

Made(x) ==
    x[1] \in Requests => job[x[1]].op \in Adds /\ pc[x[1]] \in {"reread", "answered"}

OnFilm == {"updateFilm", "deleteFilm", "createProject"}
OnProject == {"updateProject", "deleteProject", "addPieces"}

\* Rows were inserted by the request they are named after, requests ask for such rows, a
\* project stays with its film, and statements belong to their operations.
Lineage ==
    /\ \A x \in DOMAIN pieces : Made(x)
    /\ \A p \in DOMAIN projects : Born(p) /\ projects[p] = FilmOf(p)
    /\ \A f \in films : f \in Requests => pc[f] = "answered"
    /\ \A s \in Requests :
          /\ Asks(s, PieceOps) => job[s].piece \in PieceIds /\ Made(job[s].piece)
          /\ Asks(s, OnProject) => job[s].project \in Creators /\ Born(job[s].project)
          /\ Asks(s, OnFilm) =>
                /\ job[s].film \in Creators
                /\ job[s].film \in Requests => pc[job[s].film] = "answered"
          /\ At(s, "checkFilm", "updateProject") \/ At(s, "load", "updateProject") =>
                held[s] = FilmOf(job[s].project)
          /\ At(s, "write", "updateProject") => held[s].film = FilmOf(job[s].project)
          /\ pc[s] = "reread" => job[s].op \in Rereads
          /\ pc[s] = "insert" => job[s].op = "createProject"

\* What a step leaves as it was: what the rows come from, who asked for what, and who
\* overlapped whom.
PastStands ==
    /\ \A a, b : Overlap(a, b) => Overlap(a, b)'
    /\ \A ops : \A s \in Requests :
          Asks(s, ops) => Asks(s, ops)' /\ job'[s] = job[s]
    /\ \A x : Made(x) => Made(x)'
    /\ \A p : Born(p) => Born(p)'
    /\ \A f \in Requests : pc[f] = "answered" => pc'[f] = "answered"
    /\ \A p : p \in Requests => (Born(p) => FilmOf(p)' = FilmOf(p))
    /\ FilmOf(Nobody)' = FilmOf(Nobody)
    /\ \A x : x[1] \in Creators => (Made(x) => HomeOf(x[1])' = HomeOf(x[1]))

LEMMA FilmStartKeepsPast ==
    ASSUME HttpInv, NEW r \in Requests, NEW j \in FilmJobs, Starts(r, j)
    PROVE  PastStands
  <1>1. \A s \in Requests \ {r} : pc'[s] = pc[s] /\ job'[s] = job[s]
    BY StartFacts
  <1>2. pc[r] = "idle" /\ DOMAIN pc' = Requests
    BY StartFacts
  <1>3. \A a, b : Overlap(a, b) => Overlap(a, b)'
    BY StartOverlaps
  <1>4. \A ops : \A s \in Requests : Asks(s, ops) => Asks(s, ops)' /\ job'[s] = job[s]
    BY <1>1, <1>2 DEF Asks
  <1>5. \A x : Made(x) => Made(x)'
    BY <1>1, <1>2 DEF Made
  <1>6. \A p : Born(p) => Born(p)'
    BY <1>1, <1>2 DEF Born
  <1>7. \A p : p \in Requests => (Born(p) => FilmOf(p)' = FilmOf(p))
    BY <1>1, <1>2 DEF Born, FilmOf
  <1>8. \A x : x[1] \in Creators => (Made(x) => HomeOf(x[1])' = HomeOf(x[1]))
    BY <1>1, <1>2 DEF Made, HomeOf, Creators
  <1>9. FilmOf(Nobody)' = FilmOf(Nobody)
    BY DEF FilmOf
  <1>10. QED
    BY <1>1, <1>2, <1>3, <1>4, <1>5, <1>6, <1>7, <1>8, <1>9 DEF PastStands

LEMMA FilmGoKeepsPast ==
    ASSUME HttpInv, NEW r \in Requests, FilmWent(r)
    PROVE  PastStands /\ job' = job
  <1>1. /\ job' = job /\ pc[r] \notin {"idle", "answered"} /\ pc'[r] # "idle"
        /\ \A q \in Requests \ {r} : pc'[q] = pc[q]
    BY GoFacts DEF FilmWent
  <1>2. \A a, b : Overlap(a, b) => Overlap(a, b)'
    BY GoOverlaps DEF FilmWent
  <1>3. /\ pc[r] = "insertPieces" => pc'[r] \in {"reread", "answered"}
        /\ pc[r] = "reread" => pc'[r] = "answered"
    BY DEF FilmWent, ProjectsWent
  <1>4. \A ops : \A s \in Requests : Asks(s, ops) => Asks(s, ops)' /\ job'[s] = job[s]
    BY <1>1 DEF Asks
  <1>5. \A x : Made(x) => Made(x)'
    BY <1>1, <1>3 DEF Made
  <1>6. \A p : Born(p) => Born(p)'
    BY <1>1, <1>3 DEF Born
  <1>7. /\ \A p : FilmOf(p)' = FilmOf(p)
        /\ \A x : HomeOf(x[1])' = HomeOf(x[1])
        /\ \A f \in Requests : pc[f] = "answered" => pc'[f] = "answered"
    BY <1>1 DEF FilmOf, HomeOf
  <1>8. QED
    BY <1>1, <1>2, <1>4, <1>5, <1>6, <1>7 DEF PastStands

LEMMA FilmStartKeepsLineage ==
    ASSUME FilmInv, Lineage, NEW r \in Requests, NEW j \in FilmJobs, FilmStarted(r, j)
    PROVE  Lineage'
  <1>0. /\ HttpInv /\ Starts(r, j) /\ r # Nobody /\ r \in Creators /\ Nobody \notin Requests
        /\ PastStands
    BY FilmStartKeepsPast, RequestConstants DEF FilmInv, FilmStarted, Creators
  <1>1. /\ pc[r] = "idle" /\ pc'[r] # "idle" /\ job'[r] = j
        /\ \A s \in Requests \ {r} :
              pc'[s] = pc[s] /\ job'[s] = job[s] /\ held'[s] = held[s]
    BY <1>0, StartFacts
  <1>2. \A x \in DOMAIN pieces' : Made(x)'
    BY <1>0 DEF FilmStarted, Lineage, PastStands
  <1>3. ASSUME NEW p \in DOMAIN projects' PROVE Born(p)' /\ projects'[p] = FilmOf(p)'
    <2>1. p \in DOMAIN projects /\ projects'[p] = projects[p] /\ p \in Creators
      BY DEF FilmStarted, FilmInv, FilmTypeOK
    <2>2. Born(p) /\ projects[p] = FilmOf(p)
      BY <2>1 DEF Lineage
    <2>3. QED
      BY <1>0, <2>1, <2>2 DEF PastStands, Creators
  <1>4. ASSUME NEW f \in films', f \in Requests PROVE pc'[f] = "answered"
    <2>1. f \in films \/ (f = r /\ pc'[r] = "answered")
      BY DEF FilmStarted
    <2>2. QED
      BY <1>0, <1>4, <2>1 DEF Lineage, PastStands
  <1>5. ASSUME NEW s \in Requests
        PROVE  /\ Asks(s, PieceOps)' => job'[s].piece \in PieceIds /\ Made(job[s].piece)'
               /\ Asks(s, OnProject)' => job'[s].project \in Creators /\ Born(job[s].project)'
               /\ Asks(s, OnFilm)' =>
                     /\ job'[s].film \in Creators
                     /\ job'[s].film \in Requests => pc'[job'[s].film] = "answered"
    <2>1. CASE s # r
      <3>1. Asks(s, PieceOps)' => job'[s].piece \in PieceIds /\ Made(job[s].piece)
        BY <1>1, <2>1 DEF Asks, Lineage
      <3>2. Asks(s, OnProject)' => job'[s].project \in Creators /\ Born(job[s].project)
        BY <1>1, <2>1 DEF Asks, Lineage
      <3>3. Asks(s, OnFilm)' =>
               /\ job'[s].film \in Creators
               /\ job'[s].film \in Requests => pc[job'[s].film] = "answered"
        BY <1>1, <2>1 DEF Asks, Lineage
      <3>4. Made(job[s].piece) => Made(job[s].piece)'
        BY <1>0, <1>1, <2>1 DEF PastStands, Made
      <3>5. Born(job[s].project) => Born(job[s].project)'
        BY <1>0, <1>1, <2>1 DEF PastStands, Born
      <3>6. QED
        BY <1>0, <3>1, <3>2, <3>3, <3>4, <3>5 DEF PastStands
    <2>2. CASE s = r
      <3>1. \A x \in KnownPieces : x \in PieceIds /\ Made(x)
        <4>1. <<Nobody, 1>> \in PieceIds /\ Made(<<Nobody, 1>>)
          BY <1>0, FilmConstants DEF PieceIds, Creators, Made
        <4>2. QED
          BY <4>1 DEF KnownPieces, Lineage, FilmInv, FilmTypeOK
      <3>2. \A p \in KnownProjects : p \in Creators /\ Born(p)
        BY <1>0 DEF KnownProjects, Lineage, FilmInv, FilmTypeOK, Born, Creators
      <3>3. \A f \in KnownFilms : f \in Creators /\ (f \in Requests => pc[f] = "answered")
        BY <1>0 DEF KnownFilms, Lineage, FilmInv, FilmTypeOK, Creators
      <3>4. j.op \in PieceOps => j.piece \in KnownPieces
        BY DEF FilmStarted
      <3>5. j.op \in OnProject => j.project \in KnownProjects
        BY <3>4 DEF FilmStarted, OnProject
      <3>6. j.op \in OnFilm => j.film \in KnownFilms
        BY DEF FilmStarted, OnFilm
      <3>7. j.op \in PieceOps => Made(j.piece)'
        BY <1>0, <3>1, <3>4 DEF PastStands
      <3>8. j.op \in OnProject => Born(j.project)'
        BY <1>0, <3>2, <3>5 DEF PastStands
      <3>9. j.op \in OnFilm => (j.film \in Requests => pc'[j.film] = "answered")
        BY <1>0, <3>3, <3>6 DEF PastStands
      <3>10. /\ Made(j.piece)' <=> Made(job[s].piece)'
             /\ Born(j.project)' <=> Born(job[s].project)'
        BY <1>1, <2>2 DEF Made, Born
      <3>11. QED
        BY <1>1, <2>2, <3>1, <3>2, <3>3, <3>4, <3>5, <3>6, <3>7, <3>8, <3>9, <3>10 DEF Asks
    <2>3. QED
      BY <2>1, <2>2
  <1>6. ASSUME NEW s \in Requests
        PROVE  /\ (At(s, "checkFilm", "updateProject") \/ At(s, "load", "updateProject"))' =>
                     held'[s] = FilmOf(job[s].project)'
               /\ At(s, "write", "updateProject")' => held'[s].film = FilmOf(job[s].project)'
               /\ pc'[s] = "reread" => job'[s].op \in Rereads
               /\ pc'[s] = "insert" => job'[s].op = "createProject"
    <2>1. CASE s # r
      <3>1. /\ pc'[s] = pc[s] /\ job'[s] = job[s] /\ held'[s] = held[s]
        BY <1>1, <2>1
      <3>2. Asks(s, {"updateProject"}) => FilmOf(job[s].project)' = FilmOf(job[s].project)
        <4>1. Asks(s, {"updateProject"}) =>
                 job[s].project \in Creators /\ Born(job[s].project)
          BY DEF Lineage, Asks, OnProject
        <4>2. FilmOf(Nobody)' = FilmOf(Nobody)
          BY <1>0 DEF PastStands
        <4>3. \A p \in Requests : Born(p) => FilmOf(p)' = FilmOf(p)
          BY <1>0 DEF PastStands
        <4>4. Asks(s, {"updateProject"}) =>
                 \/ job[s].project = Nobody
                 \/ /\ job[s].project \in Requests
                    /\ job'[job[s].project] = job[job[s].project]
          <5>1. \A p \in Requests : Born(p) => job'[p] = job[p]
            BY <1>1 DEF Born
          <5>2. QED
            BY <4>1, <5>1 DEF Creators
        <4>5. QED
          BY <3>1, <4>4 DEF FilmOf
      <3>3. At(s, "checkFilm", "updateProject") \/ At(s, "load", "updateProject") =>
               held[s] = FilmOf(job[s].project) /\ Asks(s, {"updateProject"})
        BY DEF Lineage, Asks, At
      <3>4. At(s, "write", "updateProject") =>
               held[s].film = FilmOf(job[s].project) /\ Asks(s, {"updateProject"})
        BY DEF Lineage, Asks, At
      <3>5. (pc[s] = "reread" => job[s].op \in Rereads) /\ (pc[s] = "insert" => job[s].op = "createProject")
        BY DEF Lineage
      <3>6. QED
        BY <3>1, <3>2, <3>3, <3>4, <3>5 DEF At
    <2>2. CASE s = r
      <3>1. /\ pc'[r] # "reread"
            /\ pc'[r] = "insert" => j.op = "createProject"
            /\ pc'[r] = "write" => j.op # "updateProject"
        BY <1>1, <2>2 DEF FilmStarted
      <3>2. (At(r, "checkFilm", "updateProject") \/ At(r, "load", "updateProject"))' =>
               held'[r] = FilmOf(j.project)'
        <4>1. (At(r, "checkFilm", "updateProject") \/ At(r, "load", "updateProject"))' =>
                 j.op = "updateProject" /\ j.project \in DOMAIN projects
                 /\ held'[r] = projects[j.project]
          BY <1>1 DEF At, FilmStarted
        <4>2. \A p \in DOMAIN projects : projects[p] = FilmOf(p)'
          BY <1>3 DEF FilmStarted
        <4>3. QED
          BY <4>1, <4>2
      <3>3. FilmOf(j.project)' = FilmOf(job[r].project)'
        BY <1>1 DEF FilmOf
      <3>4. QED
        BY <1>1, <2>2, <3>1, <3>2, <3>3 DEF At
    <2>3. QED
      BY <2>1, <2>2
  <1>7. QED
    BY <1>2, <1>3, <1>4, <1>5, <1>6 DEF Lineage

LEMMA FilmGoKeepsLineage ==
    ASSUME FilmInv, Lineage, NEW r \in Requests, FilmWent(r)
    PROVE  Lineage'
  <1>0. /\ HttpInv /\ FilmsWent(r) /\ ProjectsWent(r) /\ PiecesWent(r) /\ PastStands /\ job' = job
        /\ pc[r] \notin {"idle", "answered"} /\ pc'[r] # "idle"
        /\ \A q \in Requests \ {r} : pc'[q] = pc[q] /\ held'[q] = held[q]
    BY FilmGoKeepsPast, GoFacts DEF FilmInv, FilmWent
  <1>2. ASSUME NEW x \in DOMAIN pieces' PROVE Made(x)'
    <2>1. CASE x \in DOMAIN pieces \/ (SavesPiece(r) /\ x = job[r].piece)
      <3>1. SavesPiece(r) => Made(job[r].piece)
        BY DEF SavesPiece, Lineage, Asks, PieceOps
      <3>2. x \in DOMAIN pieces => Made(x)
        BY DEF Lineage
      <3>3. QED
        BY <1>0, <2>1, <3>1, <3>2 DEF PastStands
    <2>2. CASE ~(x \in DOMAIN pieces \/ (SavesPiece(r) /\ x = job[r].piece))
      <3>1. pc[r] = "insertPieces" /\ pc'[r] = "reread" /\ \E k \in 1 .. job[r].count : x = <<r, k>>
        BY <1>0, <2>2 DEF PiecesWent
      <3>2. job[r].op \in Adds
        BY <3>1 DEF FilmInv, FilmWork, Adds
      <3>3. x[1] = r
        BY <3>1
      <3>4. QED
        BY <1>0, <3>1, <3>2, <3>3 DEF Made
    <2>3. QED
      BY <2>1, <2>2
  <1>3. ASSUME NEW p \in DOMAIN projects' PROVE Born(p)' /\ projects'[p] = FilmOf(p)'
    <2>0. \A q : FilmOf(q)' = FilmOf(q)
      BY <1>0 DEF FilmOf
    <2>1. CASE p \in DOMAIN projects /\ projects'[p] = projects[p]
      BY <1>0, <2>0, <2>1 DEF Lineage, PastStands
    <2>2. CASE /\ job[r].op = "createProject" /\ pc[r] = "insert"
               /\ p = r /\ projects'[p] = job[r].film
      <3>1. pc'[r] \in {"insertPieces", "reread", "answered"} /\ r # Nobody
        BY <1>0, <2>2, RequestConstants DEF ProjectsWent
      <3>2. QED
        BY <1>0, <2>0, <2>2, <3>1 DEF Born, FilmOf
    <2>3. CASE /\ job[r].op = "updateProject" /\ pc[r] = "write"
               /\ p = job[r].project /\ projects'[p] = held[r].film
      <3>1. At(r, "write", "updateProject") /\ Asks(r, OnProject)
        BY <1>0, <2>3 DEF At, Asks, OnProject
      <3>2. held[r].film = FilmOf(p) /\ Born(p)
        BY <2>3, <3>1 DEF Lineage
      <3>3. QED
        BY <1>0, <2>0, <2>3, <3>2 DEF PastStands
    <2>4. QED
      BY <1>0, <2>1, <2>2, <2>3 DEF ProjectsWent
  <1>4. ASSUME NEW f \in films', f \in Requests PROVE pc'[f] = "answered"
    <2>1. f \in films \/ (Asks(r, OnFilm) /\ f = job[r].film)
      BY <1>0 DEF FilmsWent, Asks, OnFilm
    <2>2. pc[f] = "answered"
      BY <1>4, <2>1 DEF Lineage
    <2>3. QED
      BY <1>0, <1>4, <2>2 DEF PastStands
  <1>5. ASSUME NEW s \in Requests
        PROVE  /\ Asks(s, PieceOps)' => job'[s].piece \in PieceIds /\ Made(job[s].piece)'
               /\ Asks(s, OnProject)' => job'[s].project \in Creators /\ Born(job[s].project)'
               /\ Asks(s, OnFilm)' =>
                     /\ job'[s].film \in Creators
                     /\ job'[s].film \in Requests => pc'[job'[s].film] = "answered"
    <2>1. \A ops : Asks(s, ops)' <=> Asks(s, ops)
      BY <1>0 DEF Asks
    <2>2. Asks(s, PieceOps) => job[s].piece \in PieceIds /\ Made(job[s].piece)
      BY DEF Lineage
    <2>3. Asks(s, OnProject) => job[s].project \in Creators /\ Born(job[s].project)
      BY DEF Lineage
    <2>4. Asks(s, OnFilm) =>
             /\ job[s].film \in Creators
             /\ job[s].film \in Requests => pc[job[s].film] = "answered"
      BY DEF Lineage
    <2>5. Made(job[s].piece) => Made(job[s].piece)'
      BY <1>0 DEF PastStands, Made
    <2>6. Born(job[s].project) => Born(job[s].project)'
      BY <1>0 DEF PastStands, Born
    <2>7. QED
      BY <1>0, <2>1, <2>2, <2>3, <2>4, <2>5, <2>6 DEF PastStands
  <1>6. ASSUME NEW s \in Requests
        PROVE  /\ (At(s, "checkFilm", "updateProject") \/ At(s, "load", "updateProject"))' =>
                     held'[s] = FilmOf(job[s].project)'
               /\ At(s, "write", "updateProject")' => held'[s].film = FilmOf(job[s].project)'
               /\ pc'[s] = "reread" => job'[s].op \in Rereads
               /\ pc'[s] = "insert" => job'[s].op = "createProject"
    <2>1. FilmOf(job[s].project)' = FilmOf(job[s].project)
      BY <1>0 DEF FilmOf
    <2>2. /\ At(s, "checkFilm", "updateProject") \/ At(s, "load", "updateProject") =>
                held[s] = FilmOf(job[s].project)
          /\ At(s, "write", "updateProject") => held[s].film = FilmOf(job[s].project)
          /\ pc[s] = "reread" => job[s].op \in Rereads
          /\ pc[s] = "insert" => job[s].op = "createProject"
      BY DEF Lineage
    <2>3. CASE s # r
      BY <1>0, <2>1, <2>2, <2>3 DEF At
    <2>4. CASE s = r
      <3>1. /\ pc'[r] # "insert" /\ pc'[r] # "checkFilm"
            /\ pc'[r] = "load" =>
                  pc[r] = "checkFilm" /\ job[r].op = "updateProject" /\ held'[r] = held[r]
            /\ job[r].op = "updateProject" /\ pc'[r] = "write" =>
                  pc[r] = "load" /\ held'[r].film = held[r]
        BY <1>0 DEF ProjectsWent
      <3>2. pc'[r] = "reread" => job[r].op \in Rereads
        BY <1>0 DEF PiecesWent
      <3>3. QED
        BY <1>0, <2>1, <2>2, <2>4, <3>1, <3>2 DEF At
    <2>5. QED
      BY <2>3, <2>4
  <1>7. QED
    BY <1>2, <1>3, <1>4, <1>5, <1>6 DEF Lineage
-----------------------------------------------------------------------------
(* Films: what was deleted, and what was lost.                             *)

\* Some save of the row is under way.
PieceBeingSaved(x) == \E s \in SavesOfPiece(x) : InProgress(s)
ProjectBeingSaved(p) == \E s \in SavesOfProject(p) : InProgress(s)
FilmBeingSaved(f) == \E s \in SavesOfFilm(f) : InProgress(s)

\* A row that was deleted with success is there, or may come, only because of a save that
\* overlapped the deletion.
DeletedFilmRows ==
    /\ \A x : \A d \in DeletesOfPiece(x) :
          Succeeded(d) /\ (x \in DOMAIN pieces \/ PieceBeingSaved(x)) =>
             OverlapsOneOf(d, SavesOfPiece(x))
    /\ \A p : \A d \in DeletesOfProject(p) :
          Succeeded(d) /\ (p \in DOMAIN projects \/ ProjectBeingSaved(p)) =>
             OverlapsOneOf(d, SavesOfProject(p))
    /\ \A f : \A d \in DeletesOfFilm(f) :
          Succeeded(d) /\ (f \in films \/ FilmBeingSaved(f)) =>
             OverlapsOneOf(d, SavesOfFilm(f))

\* Deletions and saves of a row stay what they are, and so does how they overlapped.
LEMMA RequestsStay ==
    ASSUME PastStands
    PROVE  /\ \A x : DeletesOfPiece(x) \subseteq DeletesOfPiece(x)'
           /\ \A x : SavesOfPiece(x) \subseteq SavesOfPiece(x)'
           /\ \A p : DeletesOfProject(p) \subseteq DeletesOfProject(p)'
           /\ \A p : SavesOfProject(p) \subseteq SavesOfProject(p)'
           /\ \A f : DeletesOfFilm(f) \subseteq DeletesOfFilm(f)'
           /\ \A f : SavesOfFilm(f) \subseteq SavesOfFilm(f)'
           /\ \A d, x : OverlapsOneOf(d, SavesOfPiece(x)) => OverlapsOneOf(d, SavesOfPiece(x))'
           /\ \A d, p : OverlapsOneOf(d, SavesOfProject(p)) => OverlapsOneOf(d, SavesOfProject(p))'
           /\ \A d, f : OverlapsOneOf(d, SavesOfFilm(f)) => OverlapsOneOf(d, SavesOfFilm(f))'
           /\ \A d, f : OverlapsOneOf(d, DeletesOfFilm(f)) => OverlapsOneOf(d, DeletesOfFilm(f))'
           /\ \A p : ProjectLossExplained(p) => ProjectLossExplained(p)'
  <1>1. \A s \in Requests : \A ops : Asks(s, ops) => Asks(s, ops)' /\ job'[s] = job[s]
    BY DEF PastStands
  <1>2. \A s \in Requests : SavesPiece(s) => SavesPiece(s)' /\ job'[s] = job[s]
    BY <1>1 DEF SavesPiece, Asks
  <1>3. \A a, b : Overlap(a, b) => Overlap(a, b)'
    BY DEF PastStands
  <1>4. /\ \A x : DeletesOfPiece(x) \subseteq DeletesOfPiece(x)'
        /\ \A x : SavesOfPiece(x) \subseteq SavesOfPiece(x)'
        /\ \A p : DeletesOfProject(p) \subseteq DeletesOfProject(p)'
        /\ \A p : SavesOfProject(p) \subseteq SavesOfProject(p)'
        /\ \A f : DeletesOfFilm(f) \subseteq DeletesOfFilm(f)'
        /\ \A f : SavesOfFilm(f) \subseteq SavesOfFilm(f)'
    BY <1>1, <1>2 DEF DeletesOfPiece, SavesOfPiece, DeletesOfProject, SavesOfProject,
                      DeletesOfFilm, SavesOfFilm
  <1>5. /\ \A d, x : OverlapsOneOf(d, SavesOfPiece(x)) => OverlapsOneOf(d, SavesOfPiece(x))'
        /\ \A d, p : OverlapsOneOf(d, SavesOfProject(p)) => OverlapsOneOf(d, SavesOfProject(p))'
        /\ \A d, f : OverlapsOneOf(d, SavesOfFilm(f)) => OverlapsOneOf(d, SavesOfFilm(f))'
        /\ \A d, f : OverlapsOneOf(d, DeletesOfFilm(f)) => OverlapsOneOf(d, DeletesOfFilm(f))'
    BY <1>3, <1>4 DEF OverlapsOneOf
  <1>6. ASSUME NEW p, ProjectLossExplained(p) PROVE ProjectLossExplained(p)'
    <2>1. CASE DeletesOfProject(p) # {}
      BY <1>4, <2>1 DEF ProjectLossExplained
    <2>2. CASE p \in Requests /\ OverlapsOneOf(p, DeletesOfFilm(job[p].film))
      <3>1. pc[p] # "idle"
        BY <2>2 DEF OverlapsOneOf, Overlap
      <3>2. job'[p] = job[p]
        BY <1>1, <2>2, <3>1 DEF Asks
      <3>3. OverlapsOneOf(p, DeletesOfFilm(job[p].film))'
        BY <1>5, <2>2, <3>2 DEF OverlapsOneOf, DeletesOfFilm
      <3>4. QED
        BY <2>2, <3>3 DEF ProjectLossExplained
    <2>3. QED
      BY <1>6, <2>1, <2>2 DEF ProjectLossExplained
  <1>7. QED
    BY <1>4, <1>5, <1>6

\* What a start adds: the request itself asks for its row, which it found.
LEMMA NewcomersAsk ==
    ASSUME FilmInv, NEW r \in Requests, NEW j \in FilmJobs, FilmStarted(r, j)
    PROVE  /\ \A x : \A d \in DeletesOfPiece(x)' : Succeeded(d)' => d \in DeletesOfPiece(x) /\ Succeeded(d)
           /\ \A p : \A d \in DeletesOfProject(p)' : Succeeded(d)' => d \in DeletesOfProject(p) /\ Succeeded(d)
           /\ \A f : \A d \in DeletesOfFilm(f)' : Succeeded(d)' => d \in DeletesOfFilm(f) /\ Succeeded(d)
           /\ \A x : PieceBeingSaved(x)' => PieceBeingSaved(x) \/ x \in DOMAIN pieces
           /\ \A p : ProjectBeingSaved(p)' => ProjectBeingSaved(p) \/ p \in DOMAIN projects
           /\ \A f : FilmBeingSaved(f)' => FilmBeingSaved(f) \/ f \in films
  <1>1. /\ \A q \in Requests \ {r} :
              pc'[q] = pc[q] /\ job'[q] = job[q] /\ answer'[q] = answer[q]
        /\ job'[r] = j /\ (answer'[r] = "ok" => j.op = "createFilm")
    BY StartFacts DEF FilmInv, FilmStarted
  <1>2. /\ \A x : \A d \in DeletesOfPiece(x)' : Succeeded(d)' => d \in DeletesOfPiece(x) /\ Succeeded(d)
        /\ \A p : \A d \in DeletesOfProject(p)' : Succeeded(d)' => d \in DeletesOfProject(p) /\ Succeeded(d)
        /\ \A f : \A d \in DeletesOfFilm(f)' : Succeeded(d)' => d \in DeletesOfFilm(f) /\ Succeeded(d)
    BY <1>1 DEF DeletesOfPiece, DeletesOfProject, DeletesOfFilm, Asks, Succeeded
  <1>3. ASSUME NEW x, PieceBeingSaved(x)' PROVE PieceBeingSaved(x) \/ x \in DOMAIN pieces
    <2>1. PICK s \in Requests :
             SavesPiece(s)' /\ job'[s].piece = x /\ InProgress(s)'
      BY <1>3 DEF PieceBeingSaved, SavesOfPiece
    <2>2. s # r => SavesPiece(s) /\ job[s].piece = x /\ InProgress(s)
      BY <1>1, <2>1 DEF SavesPiece, InProgress
    <2>3. s = r => j.op \in PieceOps /\ j.piece = x /\ pc'[r] # "answered"
      BY <1>1, <2>1 DEF SavesPiece, InProgress, PieceOps
    <2>4. s = r => x \in DOMAIN pieces
      BY <2>3 DEF FilmStarted
    <2>5. QED
      BY <2>2, <2>4 DEF PieceBeingSaved, SavesOfPiece
  <1>4. ASSUME NEW p, ProjectBeingSaved(p)' PROVE ProjectBeingSaved(p) \/ p \in DOMAIN projects
    <2>1. PICK s \in Requests :
             Asks(s, {"updateProject"})' /\ job'[s].project = p /\ InProgress(s)'
      BY <1>4 DEF ProjectBeingSaved, SavesOfProject
    <2>2. s # r => Asks(s, {"updateProject"}) /\ job[s].project = p /\ InProgress(s)
      BY <1>1, <2>1 DEF Asks, InProgress
    <2>3. s = r => j.op = "updateProject" /\ j.project = p /\ pc'[r] # "answered"
      BY <1>1, <2>1 DEF Asks, InProgress
    <2>4. s = r => p \in DOMAIN projects
      BY <2>3 DEF FilmStarted
    <2>5. QED
      BY <2>2, <2>4 DEF ProjectBeingSaved, SavesOfProject
  <1>5. ASSUME NEW f, FilmBeingSaved(f)' PROVE FilmBeingSaved(f) \/ f \in films
    <2>1. PICK s \in Requests :
             Asks(s, {"updateFilm"})' /\ job'[s].film = f /\ InProgress(s)'
      BY <1>5 DEF FilmBeingSaved, SavesOfFilm
    <2>2. s # r => Asks(s, {"updateFilm"}) /\ job[s].film = f /\ InProgress(s)
      BY <1>1, <2>1 DEF Asks, InProgress
    <2>3. s = r => j.op = "updateFilm" /\ j.film = f /\ pc'[r] # "answered"
      BY <1>1, <2>1 DEF Asks, InProgress
    <2>4. s = r => f \in films
      BY <2>3 DEF FilmStarted
    <2>5. QED
      BY <2>2, <2>4 DEF FilmBeingSaved, SavesOfFilm
  <1>6. QED
    BY <1>2, <1>3, <1>4, <1>5

\* Later steps add no requests; one of them may succeed, which deletes its row, and only
\* the saves under way bring a row back.
LEMMA GoersAsk ==
    ASSUME FilmInv, Lineage, NEW r \in Requests, FilmWent(r)
    PROVE  /\ \A x : \A d \in DeletesOfPiece(x)' :
                 d \in DeletesOfPiece(x) /\ (Succeeded(d)' => Succeeded(d) \/ d = r)
           /\ \A p : \A d \in DeletesOfProject(p)' :
                 d \in DeletesOfProject(p) /\ (Succeeded(d)' => Succeeded(d) \/ d = r)
           /\ \A f : \A d \in DeletesOfFilm(f)' :
                 d \in DeletesOfFilm(f) /\ (Succeeded(d)' => Succeeded(d) \/ d = r)
           /\ \A x : PieceBeingSaved(x)' => PieceBeingSaved(x)
           /\ \A p : ProjectBeingSaved(p)' => ProjectBeingSaved(p)
           /\ \A f : FilmBeingSaved(f)' => FilmBeingSaved(f)
           /\ \A x \in DOMAIN pieces' :
                 \/ x \in DOMAIN pieces \/ PieceBeingSaved(x)
                 \/ /\ pc[r] = "insertPieces" /\ pc'[r] = "reread" /\ x[1] = r
                    /\ \A d \in Requests : Asks(d, PieceOps) => job[d].piece # x
           /\ \A p \in DOMAIN projects' :
                 \/ p \in DOMAIN projects \/ ProjectBeingSaved(p)
                 \/ /\ p = r /\ pc[r] = "insert"
                    /\ \A d \in Requests : Asks(d, OnProject) => job[d].project # p
           /\ \A f \in films' : f \in films \/ FilmBeingSaved(f)
  <1>0. /\ FilmsWent(r) /\ ProjectsWent(r) /\ PiecesWent(r) /\ job' = job
        /\ InProgress(r) /\ pc'[r] # "idle" /\ pc[r] # "idle"
        /\ \A q \in Requests \ {r} : pc'[q] = pc[q] /\ answer'[q] = answer[q]
    BY FilmGoKeepsPast, GoFacts DEF FilmInv, FilmWent, InProgress
  <1>1. \A s \in Requests : /\ \A ops : Asks(s, ops)' <=> Asks(s, ops)
                            /\ SavesPiece(s)' <=> SavesPiece(s)
                            /\ InProgress(s)' => InProgress(s)
                            /\ Succeeded(s)' => Succeeded(s) \/ s = r
    BY <1>0 DEF Asks, SavesPiece, InProgress, Succeeded
  <1>2. /\ \A x : \A d \in DeletesOfPiece(x)' :
              d \in DeletesOfPiece(x) /\ (Succeeded(d)' => Succeeded(d) \/ d = r)
        /\ \A p : \A d \in DeletesOfProject(p)' :
              d \in DeletesOfProject(p) /\ (Succeeded(d)' => Succeeded(d) \/ d = r)
        /\ \A f : \A d \in DeletesOfFilm(f)' :
              d \in DeletesOfFilm(f) /\ (Succeeded(d)' => Succeeded(d) \/ d = r)
        /\ \A x : PieceBeingSaved(x)' => PieceBeingSaved(x)
        /\ \A p : ProjectBeingSaved(p)' => ProjectBeingSaved(p)
        /\ \A f : FilmBeingSaved(f)' => FilmBeingSaved(f)
    BY <1>0, <1>1 DEF DeletesOfPiece, DeletesOfProject, DeletesOfFilm, PieceBeingSaved,
       ProjectBeingSaved, FilmBeingSaved, SavesOfPiece, SavesOfProject, SavesOfFilm
  <1>3. ASSUME NEW x \in DOMAIN pieces', x \notin DOMAIN pieces, ~PieceBeingSaved(x)
        PROVE  /\ pc[r] = "insertPieces" /\ pc'[r] = "reread" /\ x[1] = r
               /\ \A d \in Requests : Asks(d, PieceOps) => job[d].piece # x
    <2>1. ~(SavesPiece(r) /\ x = job[r].piece)
      BY <1>0, <1>3 DEF PieceBeingSaved, SavesOfPiece
    <2>2. /\ pc[r] = "insertPieces" /\ pc'[r] = "reread"
          /\ \E k \in 1 .. job[r].count : x = <<r, k>>
      BY <1>0, <1>3, <2>1 DEF PiecesWent
    <2>3. x[1] = r /\ ~Made(x)
      BY <2>2 DEF Made
    <2>4. \A d \in Requests : Asks(d, PieceOps) => job[d].piece # x
      BY <2>3 DEF Lineage
    <2>5. QED
      BY <2>2, <2>3, <2>4
  <1>4. ASSUME NEW p \in DOMAIN projects', p \notin DOMAIN projects, ~ProjectBeingSaved(p)
        PROVE  /\ p = r /\ pc[r] = "insert"
               /\ \A d \in Requests : Asks(d, OnProject) => job[d].project # p
    <2>1. ~(job[r].op = "updateProject" /\ p = job[r].project)
      BY <1>0, <1>4 DEF ProjectBeingSaved, SavesOfProject, Asks
    <2>2. p = r /\ pc[r] = "insert"
      BY <1>0, <1>4, <2>1 DEF ProjectsWent
    <2>3. ~Born(p)
      BY <2>2 DEF Born
    <2>4. QED
      BY <2>2, <2>3 DEF Lineage
  <1>5. ASSUME NEW f \in films', f \notin films PROVE FilmBeingSaved(f)
    <2>1. job[r].op = "updateFilm" /\ f = job[r].film
      BY <1>0, <1>5 DEF FilmsWent
    <2>2. QED
      BY <1>0, <2>1 DEF FilmBeingSaved, SavesOfFilm, Asks
  <1>6. QED
    BY <1>2, <1>3, <1>4, <1>5

LEMMA StartKeepsDeletedFilmRows ==
    ASSUME FilmInv, Lineage, DeletedFilmRows,
           NEW r \in Requests, NEW j \in FilmJobs, FilmStarted(r, j)
    PROVE  DeletedFilmRows'
  <1>1. PastStands /\ UNCHANGED <<projects, pieces>>
    BY FilmStartKeepsPast DEF FilmInv, FilmStarted
  <1>2. ASSUME NEW f, NEW d \in DeletesOfFilm(f)', Succeeded(d)', (f \in films \/ FilmBeingSaved(f))'
        PROVE  OverlapsOneOf(d, SavesOfFilm(f))'
    <2>1. d \in DeletesOfFilm(f) /\ Succeeded(d)
      BY <1>2, NewcomersAsk
    <2>2. f # r
      <3>1. d \in Requests /\ Asks(d, OnFilm) /\ job[d].film = f
        BY <2>1 DEF DeletesOfFilm, Asks, OnFilm
      <3>2. pc[r] = "idle"
        BY StartFacts DEF FilmInv, FilmStarted
      <3>3. QED
        BY <3>1, <3>2 DEF Lineage
    <2>3. f \in films' => f \in films
      BY <2>2 DEF FilmStarted
    <2>4. OverlapsOneOf(d, SavesOfFilm(f))
      BY <1>2, <2>1, <2>3, NewcomersAsk DEF DeletedFilmRows
    <2>5. QED
      BY <1>1, <2>4, RequestsStay
  <1>3. ASSUME NEW p, NEW d \in DeletesOfProject(p)', Succeeded(d)',
               (p \in DOMAIN projects \/ ProjectBeingSaved(p))'
        PROVE  OverlapsOneOf(d, SavesOfProject(p))'
    <2>1. d \in DeletesOfProject(p) /\ Succeeded(d)
      BY <1>3, NewcomersAsk
    <2>2. p \in DOMAIN projects \/ ProjectBeingSaved(p)
      BY <1>1, <1>3, NewcomersAsk
    <2>3. OverlapsOneOf(d, SavesOfProject(p))
      BY <2>1, <2>2 DEF DeletedFilmRows
    <2>4. QED
      BY <1>1, <2>3, RequestsStay
  <1>4. ASSUME NEW x, NEW d \in DeletesOfPiece(x)', Succeeded(d)',
               (x \in DOMAIN pieces \/ PieceBeingSaved(x))'
        PROVE  OverlapsOneOf(d, SavesOfPiece(x))'
    <2>1. d \in DeletesOfPiece(x) /\ Succeeded(d)
      BY <1>4, NewcomersAsk
    <2>2. x \in DOMAIN pieces \/ PieceBeingSaved(x)
      BY <1>1, <1>4, NewcomersAsk
    <2>3. OverlapsOneOf(d, SavesOfPiece(x))
      BY <2>1, <2>2 DEF DeletedFilmRows
    <2>4. QED
      BY <1>1, <2>3, RequestsStay
  <1>5. QED
    BY <1>2, <1>3, <1>4 DEF DeletedFilmRows

LEMMA GoKeepsDeletedFilmRows ==
    ASSUME FilmInv, Lineage, DeletedFilmRows, NEW r \in Requests, FilmWent(r)
    PROVE  DeletedFilmRows'
  <1>0. /\ PastStands /\ HttpInv /\ InProgress(r) /\ job' = job
        /\ FilmsWent(r) /\ ProjectsWent(r) /\ PiecesWent(r)
    BY FilmGoKeepsPast, GoFacts DEF FilmInv, FilmWent, InProgress
  <1>1. \A s \in Requests : s # r /\ InProgress(s) => Overlap(r, s)
    BY <1>0, InProgressOverlap
  <1>2. ASSUME NEW f, NEW d \in DeletesOfFilm(f)', Succeeded(d)', (f \in films \/ FilmBeingSaved(f))'
        PROVE  OverlapsOneOf(d, SavesOfFilm(f))'
    <2>1. d \in DeletesOfFilm(f) /\ (Succeeded(d) \/ d = r)
      BY <1>2, GoersAsk
    <2>2. CASE d = r
      <3>1. job[r].op = "deleteFilm" /\ job[r].film = f /\ answer'[r] = "ok"
        BY <1>2, <2>1, <2>2 DEF DeletesOfFilm, Asks, Succeeded
      <3>2. f \notin films'
        BY <1>0, <3>1 DEF FilmsWent
      <3>3. PICK s \in SavesOfFilm(f) : InProgress(s)
        BY <1>2, <3>2, GoersAsk DEF FilmBeingSaved
      <3>4. Overlap(d, s)
        BY <1>1, <2>2, <3>1, <3>3 DEF SavesOfFilm, Asks
      <3>5. QED
        BY <1>0, <3>4, RequestsStay DEF OverlapsOneOf
    <2>3. CASE d # r
      <3>1. f \in films \/ FilmBeingSaved(f)
        BY <1>2, GoersAsk
      <3>2. OverlapsOneOf(d, SavesOfFilm(f))
        BY <2>1, <2>3, <3>1 DEF DeletedFilmRows
      <3>3. QED
        BY <1>0, <3>2, RequestsStay
    <2>4. QED
      BY <2>2, <2>3
  <1>3. ASSUME NEW p, NEW d \in DeletesOfProject(p)', Succeeded(d)',
               (p \in DOMAIN projects \/ ProjectBeingSaved(p))'
        PROVE  OverlapsOneOf(d, SavesOfProject(p))'
    <2>1. d \in DeletesOfProject(p) /\ (Succeeded(d) \/ d = r)
      BY <1>3, GoersAsk
    <2>2. CASE d = r
      <3>1. job[r].op = "deleteProject" /\ job[r].project = p /\ answer'[r] = "ok"
        BY <1>3, <2>1, <2>2 DEF DeletesOfProject, Asks, Succeeded
      <3>2. p \notin DOMAIN projects'
        BY <1>0, <3>1 DEF ProjectsWent
      <3>3. PICK s \in SavesOfProject(p) : InProgress(s)
        BY <1>3, <3>2, GoersAsk DEF ProjectBeingSaved
      <3>4. Overlap(d, s)
        BY <1>1, <2>2, <3>1, <3>3 DEF SavesOfProject, Asks
      <3>5. QED
        BY <1>0, <3>4, RequestsStay DEF OverlapsOneOf
    <2>3. CASE d # r
      <3>1. d \in Requests /\ Asks(d, OnProject) /\ job[d].project = p
        BY <2>1 DEF DeletesOfProject, Asks, OnProject
      <3>2. p \in DOMAIN projects \/ ProjectBeingSaved(p)
        BY <1>3, <3>1, GoersAsk
      <3>3. OverlapsOneOf(d, SavesOfProject(p))
        BY <2>1, <2>3, <3>2 DEF DeletedFilmRows
      <3>4. QED
        BY <1>0, <3>3, RequestsStay
    <2>4. QED
      BY <2>2, <2>3
  <1>4. ASSUME NEW x, NEW d \in DeletesOfPiece(x)', Succeeded(d)',
               (x \in DOMAIN pieces \/ PieceBeingSaved(x))'
        PROVE  OverlapsOneOf(d, SavesOfPiece(x))'
    <2>1. d \in DeletesOfPiece(x) /\ (Succeeded(d) \/ d = r)
      BY <1>4, GoersAsk
    <2>2. CASE d = r
      <3>1. job[r].op = "deletePiece" /\ job[r].piece = x /\ answer'[r] = "ok"
        BY <1>4, <2>1, <2>2 DEF DeletesOfPiece, Asks, Succeeded
      <3>2. x \notin DOMAIN pieces'
        BY <1>0, <3>1 DEF PiecesWent
      <3>3. PICK s \in SavesOfPiece(x) : InProgress(s)
        BY <1>4, <3>2, GoersAsk DEF PieceBeingSaved
      <3>4. Overlap(d, s)
        BY <1>1, <2>2, <3>1, <3>3 DEF SavesOfPiece, SavesPiece
      <3>5. QED
        BY <1>0, <3>4, RequestsStay DEF OverlapsOneOf
    <2>3. CASE d # r
      <3>1. d \in Requests /\ Asks(d, PieceOps) /\ job[d].piece = x
        BY <2>1 DEF DeletesOfPiece, Asks, PieceOps
      <3>2. x \in DOMAIN pieces \/ PieceBeingSaved(x)
        BY <1>4, <3>1, GoersAsk
      <3>3. OverlapsOneOf(d, SavesOfPiece(x))
        BY <2>1, <2>3, <3>2 DEF DeletedFilmRows
      <3>4. QED
        BY <1>0, <3>3, RequestsStay
    <2>4. QED
      BY <2>2, <2>3
  <1>5. QED
    BY <1>2, <1>3, <1>4 DEF DeletedFilmRows
-----------------------------------------------------------------------------
(* Films: what was lost.                                                   *)

\* The row has been in its table, as far as its own request, or a save of it, shows.
ProjectWasThere(p) ==
    \/ p = Nobody
    \/ p \in Requests /\ Asks(p, {"createProject"}) /\ (pc[p] \in {"insertPieces", "reread"} \/ Succeeded(p))
    \/ ProjectBeingSaved(p)

FilmWasThere(f) == f = Nobody \/ (f \in Requests /\ Asks(f, {"createFilm"}) /\ Succeeded(f))

PieceWasThere(x) ==
    \/ x = <<Nobody, 1>>
    \/ /\ x[1] \in Requests /\ Asks(x[1], Adds)
       /\ pc[x[1]] = "reread" \/ Succeeded(x[1])
       /\ x[2] <= job[x[1]].count

PieceLossExplained(x) == DeletesOfPiece(x) # {} \/ ProjectLossExplained(HomeOf(x[1]))

\* Rows that were there and are not have been deleted, and a film's DELETE finds only
\* projects of which the loss will be explained.
LostFilmRows ==
    /\ \A p \in Creators \ DOMAIN projects : ProjectWasThere(p) => ProjectLossExplained(p)
    /\ \A f \in Creators \ films : FilmWasThere(f) => DeletesOfFilm(f) # {}
    /\ \A x \in PieceIds \ DOMAIN pieces : PieceWasThere(x) => PieceLossExplained(x)
    /\ \A d \in Requests :
          At(d, "remove", "deleteFilm") =>
             \A p \in DOMAIN projects : projects[p] = job[d].film => ProjectLossExplained(p)

LEMMA StartKeepsLostFilmRows ==
    ASSUME FilmInv, Lineage, LostFilmRows,
           NEW r \in Requests, NEW j \in FilmJobs, FilmStarted(r, j)
    PROVE  LostFilmRows'
  <1>0. /\ PastStands /\ UNCHANGED <<projects, pieces>> /\ Nobody \notin Requests
    BY FilmStartKeepsPast, RequestConstants DEF FilmInv, FilmStarted
  <1>1. /\ pc[r] = "idle" /\ job'[r] = j
        /\ \A q \in Requests \ {r} :
              pc'[q] = pc[q] /\ job'[q] = job[q] /\ answer'[q] = answer[q]
    BY StartFacts DEF FilmInv, FilmStarted
  <1>2. /\ answer'[r] = "ok" => j.op = "createFilm"
        /\ pc'[r] # "reread" /\ (j.op = "createProject" => pc'[r] \in {"answered", "insert"})
    BY DEF FilmStarted
  <1>3. ASSUME NEW p \in Creators \ DOMAIN projects', ProjectWasThere(p)'
        PROVE  ProjectLossExplained(p)'
    <2>1. ProjectWasThere(p)
      <3>1. CASE p \in Requests /\ p # r
        BY <1>0, <1>1, <1>3, <3>1, NewcomersAsk DEF ProjectWasThere, Asks, Succeeded
      <3>2. CASE p = r
        BY <1>0, <1>1, <1>2, <1>3, <3>2, NewcomersAsk DEF ProjectWasThere, Asks, Succeeded
      <3>3. CASE p = Nobody
        BY <3>3 DEF ProjectWasThere
      <3>4. QED
        BY <3>1, <3>2, <3>3 DEF Creators
    <2>2. ProjectLossExplained(p)
      BY <1>0, <2>1 DEF LostFilmRows
    <2>3. QED
      BY <1>0, <2>2, RequestsStay
  <1>4. ASSUME NEW f \in Creators \ films', FilmWasThere(f)' PROVE DeletesOfFilm(f)' # {}
    <2>1. f \notin films /\ (f = r => j.op # "createFilm")
      BY <1>4 DEF FilmStarted
    <2>2. FilmWasThere(f)
      BY <1>0, <1>1, <1>2, <1>4, <2>1 DEF FilmWasThere, Asks, Succeeded
    <2>3. DeletesOfFilm(f) # {}
      BY <2>1, <2>2 DEF LostFilmRows
    <2>4. QED
      BY <1>0, <2>3, RequestsStay
  <1>5. ASSUME NEW x \in PieceIds \ DOMAIN pieces', PieceWasThere(x)' PROVE PieceLossExplained(x)'
    <2>1. PieceWasThere(x) /\ Made(x)
      <3>1. CASE x[1] \in Requests /\ x[1] # r
        BY <1>0, <1>1, <1>5, <3>1 DEF PieceWasThere, Asks, Succeeded, Made, FilmInv, HttpInv
      <3>2. CASE x[1] = r
        BY <1>0, <1>1, <1>2, <1>5, <3>2 DEF PieceWasThere, Asks, Succeeded, Adds
      <3>3. CASE x[1] \notin Requests
        BY <1>5, <3>3 DEF PieceWasThere, Made
      <3>4. QED
        BY <3>1, <3>2, <3>3
    <2>2. PieceLossExplained(x)
      BY <1>0, <2>1 DEF LostFilmRows
    <2>3. HomeOf(x[1])' = HomeOf(x[1])
      BY <1>0, <2>1 DEF PastStands, PieceIds
    <2>4. QED
      BY <1>0, <2>2, <2>3, RequestsStay DEF PieceLossExplained, ProjectLossExplained
  <1>6. ASSUME NEW d \in Requests, At(d, "remove", "deleteFilm")',
               NEW p \in DOMAIN projects', projects'[p] = job'[d].film
        PROVE  ProjectLossExplained(p)'
    <2>1. d # r
      <3>1. d = r => ProjectsOf(j.film) = {}
        BY <1>1, <1>6 DEF At, FilmStarted
      <3>2. QED
        BY <1>0, <1>1, <1>6, <3>1 DEF ProjectsOf
    <2>2. ProjectLossExplained(p)
      BY <1>0, <1>1, <1>6, <2>1 DEF LostFilmRows, At
    <2>3. QED
      BY <1>0, <2>2, RequestsStay
  <1>7. QED
    BY <1>3, <1>4, <1>5, <1>6 DEF LostFilmRows

LEMMA GoKeepsLostFilmRows ==
    ASSUME FilmInv, Lineage, LostFilmRows, NEW r \in Requests, FilmWent(r)
    PROVE  LostFilmRows'
  <1>0. /\ PastStands /\ HttpInv /\ InProgress(r) /\ job' = job /\ Nobody \notin Requests
        /\ FilmsWent(r) /\ ProjectsWent(r) /\ PiecesWent(r)
        /\ pc[r] # "idle" /\ pc'[r] # "idle"
        /\ \A q \in Requests \ {r} : pc'[q] = pc[q] /\ answer'[q] = answer[q]
    BY FilmGoKeepsPast, GoFacts, RequestConstants DEF FilmInv, FilmWent, InProgress
  <1>1. \A s \in Requests : s # r /\ InProgress(s) => Overlap(r, s) /\ Overlap(s, r)
    BY <1>0, InProgressOverlap
  <1>2. \A p \in DOMAIN projects :
           \/ p \in DOMAIN projects'
           \/ ProjectLossExplained(p)
    <2> SUFFICES ASSUME NEW p \in DOMAIN projects, p \notin DOMAIN projects'
                 PROVE  ProjectLossExplained(p)
      OBVIOUS
    <2>1. CASE job[r].op = "deleteProject" /\ p = job[r].project
      BY <1>0, <2>1 DEF ProjectLossExplained, DeletesOfProject, Asks
    <2>2. CASE job[r].op = "deleteFilm" /\ pc[r] = "remove" /\ projects[p] = job[r].film
      BY <2>2 DEF LostFilmRows, At
    <2>3. QED
      BY <1>0, <2>1, <2>2 DEF ProjectsWent
  <1>3. ASSUME NEW p \in Creators \ DOMAIN projects', ProjectWasThere(p)'
        PROVE  ProjectLossExplained(p)'
    <2>1. ProjectWasThere(p) \/ p \in DOMAIN projects
      <3>1. CASE p \in Requests /\ p # r
        BY <1>0, <1>3, <3>1, GoersAsk DEF ProjectWasThere, Asks, Succeeded
      <3>2. CASE p = r /\ Asks(r, {"createProject"}) /\ (pc'[r] \in {"insertPieces", "reread"} \/ Succeeded(r)')
        <4>1. pc[r] = "insert" => pc'[r] = "answered" /\ answer'[r] # "ok"
          BY <1>0, <1>3, <3>2 DEF ProjectsWent, PiecesWent, Asks, Adds
        <4>2. answer'[r] = "ok" => pc[r] = "reread"
          BY <1>0, <3>2 DEF PiecesWent, Asks, Adds
        <4>3. pc'[r] = "reread" => pc[r] = "insert" \/ pc[r] = "insertPieces"
          BY <1>0, <3>2 DEF PiecesWent, Asks
        <4>4. pc'[r] = "insertPieces" => pc[r] = "insert"
          BY <1>0 DEF ProjectsWent
        <4>5. pc[r] \in {"insertPieces", "reread"}
          BY <1>0, <3>2, <4>1, <4>2, <4>3, <4>4 DEF Succeeded
        <4>6. QED
          BY <3>2, <4>5 DEF ProjectWasThere
      <3>3. CASE p = Nobody \/ ProjectBeingSaved(p)'
        BY <3>3, GoersAsk DEF ProjectWasThere
      <3>4. Asks(r, {"createProject"})' => Asks(r, {"createProject"})
        BY <1>0 DEF Asks
      <3>5. QED
        BY <1>3, <3>1, <3>2, <3>3, <3>4 DEF ProjectWasThere
    <2>2. ProjectLossExplained(p)
      BY <1>2, <1>3, <2>1 DEF LostFilmRows
    <2>3. QED
      BY <1>0, <2>2, RequestsStay
  <1>4. ASSUME NEW f \in Creators \ films', FilmWasThere(f)' PROVE DeletesOfFilm(f)' # {}
    <2>1. FilmWasThere(f)
      BY <1>0, <1>4 DEF FilmWasThere, Asks, Succeeded, FilmsWent
    <2>2. CASE f \in films
      <3>1. job[r].op = "deleteFilm" /\ f = job[r].film
        BY <1>0, <1>4, <2>2 DEF FilmsWent
      <3>2. r \in DeletesOfFilm(f)
        BY <1>0, <3>1 DEF DeletesOfFilm, Asks
      <3>3. QED
        BY <1>0, <3>2, RequestsStay
    <2>3. CASE f \notin films
      BY <1>0, <2>1, <2>3, RequestsStay DEF LostFilmRows
    <2>4. QED
      BY <2>2, <2>3
  <1>5. ASSUME NEW x \in PieceIds \ DOMAIN pieces', PieceWasThere(x)' PROVE PieceLossExplained(x)'
    <2>0. HomeOf(x[1])' = HomeOf(x[1])
      BY <1>0 DEF HomeOf
    <2>1. CASE x \in DOMAIN pieces
      <3>1. pieces[x].project = HomeOf(x[1]) /\ pieces[x].project \in DOMAIN projects
        BY <2>1 DEF FilmInv, FilmTypeOK
      <3>2. CASE job[r].op = "deletePiece" /\ x = job[r].piece
        BY <1>0, <3>2, RequestsStay DEF PieceLossExplained, DeletesOfPiece, Asks
      <3>3. CASE job[r].op = "deleteProject" /\ pieces[x].project = job[r].project
        <4>1. ProjectLossExplained(HomeOf(x[1]))
          BY <1>0, <3>1, <3>3 DEF ProjectLossExplained, DeletesOfProject, Asks
        <4>2. QED
          BY <1>0, <2>0, <4>1, RequestsStay DEF PieceLossExplained, ProjectLossExplained
      <3>4. CASE /\ job[r].op = "deleteFilm" /\ pc[r] = "remove"
                 /\ projects[pieces[x].project] = job[r].film
        <4>1. ProjectLossExplained(HomeOf(x[1]))
          BY <3>1, <3>4 DEF LostFilmRows, At
        <4>2. QED
          BY <1>0, <2>0, <4>1, RequestsStay DEF PieceLossExplained, ProjectLossExplained
      <3>5. QED
        BY <1>0, <1>5, <2>1, <3>2, <3>3, <3>4 DEF PiecesWent
    <2>2. CASE x \notin DOMAIN pieces
      <3>1. PieceWasThere(x)
        <4>1. CASE x[1] # r
          BY <1>0, <1>5, <4>1 DEF PieceWasThere, Asks, Succeeded
        <4>2. CASE x[1] = r /\ Asks(r, Adds) /\ x[2] <= job[r].count /\ (pc'[r] = "reread" \/ answer'[r] = "ok")
          <5>1. answer'[r] = "ok" => pc[r] = "reread"
            BY <1>0, <4>2 DEF PiecesWent, Asks
          <5>2. pc'[r] = "reread" => FALSE
            <6>1. x = <<r, x[2]>> /\ x[2] \in 1 .. MaxPieces
              BY <4>2 DEF PieceIds
            <6>2. job[r] \in FilmJobs /\ job[r].op \in Adds
              BY <1>0, <4>2 DEF FilmInv, Arrived, Asks
            <6>3. job[r].count \in 0 .. MaxPieces
              BY <6>2 DEF FilmJobs, Adds
            <6>4. x[2] \in 1 .. job[r].count
              BY <4>2, <6>1, <6>3, FilmConstants
            <6>5. SUFFICES ASSUME pc'[r] = "reread" PROVE FALSE
              OBVIOUS
            <6>6. \A k \in 1 .. job[r].count : <<r, k>> \in DOMAIN pieces'
              BY <1>0, <6>2, <6>3, <6>4, <6>5 DEF PiecesWent, Adds
            <6>7. QED
              BY <1>5, <6>1, <6>4, <6>6
          <5>3. QED
            BY <4>2, <5>1, <5>2 DEF PieceWasThere
        <4>3. QED
          BY <1>0, <1>5, <4>1, <4>2 DEF PieceWasThere, Asks, Succeeded
      <3>2. PieceLossExplained(x)
        BY <2>2, <3>1 DEF LostFilmRows
      <3>3. QED
        BY <1>0, <2>0, <3>2, RequestsStay DEF PieceLossExplained, ProjectLossExplained
    <2>3. QED
      BY <2>1, <2>2
  <1>6. ASSUME NEW d \in Requests, At(d, "remove", "deleteFilm")',
               NEW p \in DOMAIN projects', projects'[p] = job'[d].film
        PROVE  ProjectLossExplained(p)'
    <2>1. At(d, "remove", "deleteFilm") /\ InProgress(d)
      <3>1. pc'[r] # "remove"
        BY <1>0 DEF ProjectsWent
      <3>2. QED
        BY <1>0, <1>6, <3>1 DEF At, InProgress
    <2>2. CASE p \in DOMAIN projects
      <3>1. projects[p] = job[d].film
        <4>1. projects'[p] = FilmOf(p)'
          BY <1>6, FilmGoKeepsLineage DEF Lineage
        <4>2. projects[p] = FilmOf(p)
          BY <2>2 DEF Lineage
        <4>3. QED
          BY <1>0, <1>6, <4>1, <4>2 DEF FilmOf
      <3>2. QED
        BY <1>0, <2>1, <2>2, <3>1, RequestsStay DEF LostFilmRows
    <2>3. CASE p \notin DOMAIN projects
      <3>1. CASE ProjectBeingSaved(p)
        <4>1. p \in Creators
          <5>1. PICK s \in Requests : Asks(s, {"updateProject"}) /\ job[s].project = p
            BY <3>1 DEF ProjectBeingSaved, SavesOfProject
          <5>2. QED
            BY <5>1 DEF Lineage, Asks, OnProject
        <4>2. QED
          BY <1>0, <2>3, <3>1, <4>1, RequestsStay DEF LostFilmRows, ProjectWasThere
      <3>2. CASE p = r /\ pc[r] = "insert"
        <4>1. projects'[r] = job[r].film
          <5>1. job[r].op = "createProject"
            BY <3>2 DEF Lineage
          <5>2. QED
            BY <1>0, <1>6, <2>3, <3>2, <5>1 DEF ProjectsWent
        <4>2. d # r /\ Overlap(r, d)
          BY <1>1, <2>1, <3>2 DEF At
        <4>3. d \in DeletesOfFilm(job[r].film)
          BY <1>0, <1>6, <2>1, <3>2, <4>1 DEF DeletesOfFilm, Asks, At
        <4>4. ProjectLossExplained(p)
          BY <3>2, <4>2, <4>3 DEF ProjectLossExplained, OverlapsOneOf
        <4>5. QED
          BY <1>0, <4>4, RequestsStay
      <3>3. QED
        BY <1>6, <2>3, <3>1, <3>2, GoersAsk
    <2>4. QED
      BY <2>2, <2>3
  <1>7. QED
    BY <1>3, <1>4, <1>5, <1>6 DEF LostFilmRows
-----------------------------------------------------------------------------
(* Films: the orders of the pieces.                                        *)

\* What may have taken a piece away, itself or with its project or film, by where the
\* piece comes from, and whether a save that overlapped it may have brought it back.
TakersOf(x) ==
    DeletesOfPiece(x) \cup DeletesOfProject(HomeOf(x[1])) \cup DeletesOfFilm(FilmOf(HomeOf(x[1])))

CameBack(x) == \E d \in TakersOf(x) : OverlapsOneOf(d, SavesOfPiece(x))

SavingPiece(s) == SavesPiece(s) /\ InProgress(s)

\* A piece keeps the order it was given: the row and the copies that are to be written to
\* it agree, and no save finds the order changed.
OrdersAgree ==
    /\ \A s \in Requests :
          SavingPiece(s) =>
             /\ job[s].piece \in DOMAIN pieces => HeldPiece(s).order = pieces[job[s].piece].order
             /\ pc[s] = "write" => "order" \notin held[s].dirty
    /\ \A s, t \in Requests :
          (SavingPiece(s) /\ SavingPiece(t) /\ job[s].piece = job[t].piece) =>
             HeldPiece(s).order = HeldPiece(t).order

\* A save that is under way for a piece that is gone overlapped what took it away, and the
\* next order that a request goes by is above all orders but those that were given out, or
\* came back, meanwhile.
OrdersAbove ==
    /\ \A s \in Requests :
          SavingPiece(s) => job[s].piece \in DOMAIN pieces \/ CameBack(job[s].piece)
    /\ \A r \in Requests :
          pc[r] = "insertPieces" =>
             \A y \in DOMAIN pieces :
                pieces[y].project = held[r].project =>
                   pieces[y].order < held[r].from \/ Overlap(y[1], r) \/ CameBack(y)

PieceOrders == OrdersAgree /\ OrdersAbove /\ EqualOrdersOverlap

LEMMA NextOrderIsHigher ==
    ASSUME FilmInv, NEW p, NEW x \in PiecesOf(p)
    PROVE  pieces[x].order < NextOrder(p)
  <1> DEFINE orders == {pieces[y].order : y \in PiecesOf(p)}
             order == [y \in PiecesOf(p) |-> pieces[y].order]
  <1>1. \A y \in PiecesOf(p) : pieces[y].order \in Nat
    BY DEF PiecesOf, FilmInv, FilmTypeOK, PieceRows
  <1>2. IsFiniteSet(PiecesOf(p))
    <2>1. PiecesOf(p) \subseteq (Arrived \cup {Nobody}) \X (1 .. MaxPieces)
      BY DEF PiecesOf, FilmInv, FilmTypeOK, PieceIds, Known
    <2>2. IsFiniteSet(Arrived \cup {Nobody}) /\ IsFiniteSet(1 .. MaxPieces)
      BY FS_AddElement, FS_Interval, FilmConstants DEF FilmInv, HttpInv
    <2>3. IsFiniteSet((Arrived \cup {Nobody}) \X (1 .. MaxPieces))
      BY <2>2, FS_Product
    <2>4. QED
      BY <2>1, <2>3, FS_Subset
  <1>0. PiecesOf(p) # {} /\ \A y \in PiecesOf(p) : order[y] \in Int
    BY <1>1
  <1>3. PICK y \in PiecesOf(p) : \A z \in PiecesOf(p) : order[z] <= order[y]
    BY <1>0, <1>2, HighestOfFinite
  <1>4. pieces[y].order \in orders /\ \A o \in orders : o <= pieces[y].order
    BY <1>3
  <1>5. PICK m \in orders : m = CHOOSE n \in orders : \A o \in orders : o <= n
    BY <1>4
  <1>6. \A o \in orders : o <= m
    BY <1>4, <1>5
  <1>7. orders # {} /\ NextOrder(p) = 1 + m /\ pieces[x].order \in orders
    BY <1>4, <1>5 DEF NextOrder
  <1>8. m \in Nat
    BY <1>1
  <1>9. QED
    BY <1>1, <1>6, <1>7, <1>8

LEMMA HomesAreBorn ==
    ASSUME Lineage, NEW x \in PieceIds, Made(x)
    PROVE  HomeOf(x[1]) \in Creators /\ Born(HomeOf(x[1]))
  <1>1. x[1] \in Creators
    BY DEF PieceIds
  <1>2. CASE x[1] \notin Requests
    BY <1>1, <1>2, RequestConstants DEF HomeOf, Creators, Born
  <1>3. CASE x[1] \in Requests /\ job[x[1]].op = "addPieces"
    BY <1>3, RequestConstants DEF Lineage, Asks, OnProject, HomeOf, Made
  <1>4. CASE x[1] \in Requests /\ job[x[1]].op # "addPieces"
    BY <1>1, <1>4, RequestConstants DEF HomeOf, Made, Adds, Born
  <1>5. QED
    BY <1>2, <1>3, <1>4

LEMMA CameBackStays ==
    ASSUME Lineage, PastStands, NEW x \in PieceIds, Made(x), CameBack(x)
    PROVE  CameBack(x)'
  <1>1. x[1] \in Creators /\ HomeOf(x[1]) \in Creators /\ Born(HomeOf(x[1]))
    BY HomesAreBorn DEF PieceIds
  <1>2. HomeOf(x[1])' = HomeOf(x[1])
    BY <1>1 DEF PastStands
  <1>3. FilmOf(HomeOf(x[1]))' = FilmOf(HomeOf(x[1]))
    <2>1. CASE HomeOf(x[1]) = Nobody
      BY <1>2, <2>1 DEF FilmOf
    <2>2. CASE HomeOf(x[1]) \in Requests
      <3>1. PICK p \in Requests : p = HomeOf(x[1])
        BY <2>2
      <3>2. FilmOf(p)' = FilmOf(p)
        BY <1>1, <3>1 DEF PastStands
      <3>3. FilmOf(HomeOf(x[1]))' = FilmOf(p)'
        BY <1>2, <3>1 DEF FilmOf
      <3>4. QED
        BY <3>1, <3>2, <3>3
    <2>3. QED
      BY <1>1, <2>1, <2>2 DEF Creators
  <1>4. TakersOf(x) \subseteq TakersOf(x)'
    <2>1. /\ DeletesOfPiece(x) \subseteq DeletesOfPiece(x)'
          /\ DeletesOfProject(HomeOf(x[1])) \subseteq DeletesOfProject(HomeOf(x[1]))'
          /\ DeletesOfFilm(FilmOf(HomeOf(x[1]))) \subseteq DeletesOfFilm(FilmOf(HomeOf(x[1])))'
      BY <1>2, <1>3, RequestsStay DEF DeletesOfProject, DeletesOfFilm
    <2>2. QED
      BY <2>1 DEF TakersOf
  <1>5. \A d : OverlapsOneOf(d, SavesOfPiece(x)) => OverlapsOneOf(d, SavesOfPiece(x))'
    BY RequestsStay
  <1>6. QED
    BY <1>4, <1>5 DEF CameBack

\* The property says the same of the pieces that are there.
LEMMA CameBackIsRemovedAndSaved ==
    ASSUME FilmInv, Lineage, NEW x \in DOMAIN pieces
    PROVE  CameBack(x) <=> \E d \in RemovalsOfPiece(x) : OverlapsOneOf(d, SavesOfPiece(x))
  <1>1. /\ pieces[x].project = HomeOf(x[1])
        /\ projects[pieces[x].project] = FilmOf(pieces[x].project)
    BY DEF FilmInv, FilmTypeOK, Lineage
  <1>2. RemovalsOfPiece(x) = TakersOf(x)
    BY <1>1 DEF RemovalsOfPiece, TakersOf
  <1>3. QED
    BY <1>2 DEF CameBack

SameOrdersExplained ==
    \A x, y \in DOMAIN pieces :
       (x # y /\ pieces[x].project = pieces[y].project /\ pieces[x].order = pieces[y].order) =>
          Overlap(x[1], y[1]) \/ CameBack(x) \/ CameBack(y)

LEMMA SameOrdersAreExplained ==
    ASSUME FilmInv, Lineage
    PROVE  EqualOrdersOverlap <=> SameOrdersExplained
  BY CameBackIsRemovedAndSaved DEF EqualOrdersOverlap, SameOrdersExplained

LEMMA StartKeepsPieceOrders ==
    ASSUME FilmInv, Lineage, PieceOrders, FilmInv', Lineage',
           NEW r \in Requests, NEW j \in FilmJobs, FilmStarted(r, j)
    PROVE  PieceOrders'
  <1>0. /\ PastStands /\ UNCHANGED <<projects, pieces>> /\ HttpInv
        /\ pc[r] = "idle" /\ job'[r] = j
        /\ \A q \in Requests \ {r} :
              pc'[q] = pc[q] /\ job'[q] = job[q] /\ held'[q] = held[q]
    BY FilmStartKeepsPast, StartFacts DEF FilmInv, FilmStarted
  <1>1. \A x \in DOMAIN pieces : CameBack(x) => CameBack(x)'
    BY <1>0, CameBackStays DEF Lineage, FilmInv, FilmTypeOK
  <1>2. \A s \in Requests \ {r} :
           /\ SavingPiece(s)' => SavingPiece(s)
           /\ HeldPiece(s)' = HeldPiece(s)
    BY <1>0 DEF SavingPiece, SavesPiece, InProgress, HeldPiece
  <1>3. SavingPiece(r)' =>
           /\ job'[r].piece \in DOMAIN pieces
           /\ pc'[r] = "load" /\ HeldPiece(r)' = held'[r]
           /\ held'[r].order = pieces[job'[r].piece].order
    BY <1>0 DEF SavingPiece, SavesPiece, InProgress, HeldPiece, FilmStarted, PieceOps
  <1>4. OrdersAgree'
    <2>1. ASSUME NEW s \in Requests, SavingPiece(s)'
          PROVE  /\ job'[s].piece \in DOMAIN pieces' =>
                       HeldPiece(s)'.order = pieces'[job'[s].piece].order
                 /\ pc'[s] = "write" => "order" \notin held'[s].dirty
      BY <1>0, <1>2, <1>3, <2>1 DEF PieceOrders, OrdersAgree
    <2>2. ASSUME NEW s \in Requests, NEW t \in Requests, SavingPiece(s)', SavingPiece(t)',
                 job'[s].piece = job'[t].piece
          PROVE  HeldPiece(s)'.order = HeldPiece(t)'.order
      <3>1. CASE s # r /\ t # r
        BY <1>0, <1>2, <2>2, <3>1 DEF PieceOrders, OrdersAgree
      <3>2. CASE s = r \/ t = r
        <4>1. job'[s].piece \in DOMAIN pieces'
          BY <1>0, <1>3, <2>2, <3>2
        <4>2. QED
          BY <2>1, <2>2, <4>1
      <3>3. QED
        BY <3>1, <3>2
    <2>3. QED
      BY <2>1, <2>2 DEF OrdersAgree
  <1>5. OrdersAbove'
    <2>1. ASSUME NEW s \in Requests, SavingPiece(s)'
          PROVE  job'[s].piece \in DOMAIN pieces' \/ CameBack(job[s].piece)'
      <3>1. CASE s = r
        BY <1>0, <1>3, <2>1, <3>1
      <3>2. CASE s # r /\ job[s].piece \notin DOMAIN pieces
        <4>1. CameBack(job[s].piece)
          BY <1>2, <2>1, <3>2 DEF PieceOrders, OrdersAbove
        <4>2. Asks(s, PieceOps)
          BY <1>2, <2>1, <3>2 DEF SavingPiece, SavesPiece, Asks, PieceOps
        <4>3. PICK x \in PieceIds : x = job[s].piece /\ Made(x) /\ CameBack(x)
          BY <4>1, <4>2 DEF Lineage
        <4>4. CameBack(x)'
          BY <1>0, <4>3, CameBackStays
        <4>5. CameBack(x)' <=> CameBack(job[s].piece)'
          BY <1>0, <3>2, <4>3 DEF CameBack, TakersOf, SavesOfPiece, DeletesOfPiece
        <4>6. QED
          BY <4>4, <4>5
      <3>3. QED
        BY <1>0, <3>1, <3>2
    <2>2. ASSUME NEW q \in Requests, pc'[q] = "insertPieces",
                 NEW y \in DOMAIN pieces', pieces'[y].project = held'[q].project
          PROVE  pieces'[y].order < held'[q].from \/ Overlap(y[1], q)' \/ CameBack(y)'
      <3>1. CASE q # r
        BY <1>0, <1>1, <2>2, <3>1 DEF PieceOrders, OrdersAbove, PastStands
      <3>2. CASE q = r
        <4>1. j.op = "addPieces"
          BY <1>0, <2>2, <3>2 DEF FilmStarted, FilmJobs
        <4>2. held'[r] = [project |-> j.project, from |-> NextOrder(j.project)]
          BY <2>2, <3>2, <4>1 DEF FilmStarted
        <4>3. y \in PiecesOf(j.project)
          BY <1>0, <2>2, <3>2, <4>2 DEF PiecesOf
        <4>4. QED
          BY <1>0, <3>2, <4>2, <4>3, NextOrderIsHigher
      <3>3. QED
        BY <3>1, <3>2
    <2>3. QED
      BY <2>1, <2>2 DEF OrdersAbove
  <1>6. EqualOrdersOverlap'
    <2>1. SameOrdersExplained
      BY SameOrdersAreExplained DEF PieceOrders
    <2>2. SameOrdersExplained'
      BY <1>0, <1>1, <2>1 DEF SameOrdersExplained, PastStands
    <2>3. EqualOrdersOverlap' <=> SameOrdersExplained'
      BY SameOrdersAreExplained, PTL
    <2>4. QED
      BY <2>2, <2>3
  <1>7. QED
    BY <1>4, <1>5, <1>6 DEF PieceOrders

\* The three ways in which a piece is there after a step: it stayed, it came back, it is new.
Stayed(x) ==
    /\ x \in DOMAIN pieces
    /\ pieces'[x].order = pieces[x].order /\ pieces'[x].project = pieces[x].project

Returned(r, x) ==
    /\ x \notin DOMAIN pieces /\ SavingPiece(r) /\ pc[r] = "write" /\ job[r].piece = x
    /\ pieces'[x] = held[r].entity /\ CameBack(x)

Inserted(r, x) ==
    /\ pc[r] = "insertPieces"
    /\ \E k \in 1 .. job[r].count : x = <<r, k>> /\ pieces'[x] = NewPiece(r, k)

LEMMA WaysOfPieces ==
    ASSUME FilmInv, Lineage, PieceOrders, FilmInv', NEW r \in Requests, FilmWent(r)
    PROVE  \A x \in DOMAIN pieces' : Stayed(x) \/ Returned(r, x) \/ Inserted(r, x)
  <1> SUFFICES ASSUME NEW x \in DOMAIN pieces'
               PROVE  Stayed(x) \/ Returned(r, x) \/ Inserted(r, x)
    OBVIOUS
  <1>0. PiecesWent(r) /\ InProgress(r)
    BY GoFacts DEF FilmWent, FilmInv, InProgress
  <1>1. CASE x \in DOMAIN pieces /\ pieces'[x] = pieces[x]
    BY <1>1 DEF Stayed
  <1>2. CASE /\ pc[r] = "write" /\ SavesPiece(r) /\ x = job[r].piece /\ x \in DOMAIN pieces
             /\ pieces'[x] = Merge(pieces[x], held[r].entity, held[r].dirty)
    <2>1. "order" \notin held[r].dirty /\ "project" \notin held[r].dirty
      BY <1>0, <1>2 DEF PieceOrders, OrdersAgree, SavingPiece, FilmInv, FilmWork
    <2>2. pieces[x] \in PieceRows
      BY <1>2 DEF FilmInv, FilmTypeOK
    <2>3. PICK row \in PieceRows : row = pieces[x]
      BY <2>2
    <2>4. /\ Merge(row, held[r].entity, held[r].dirty).order = row.order
          /\ Merge(row, held[r].entity, held[r].dirty).project = row.project
      BY <2>1 DEF Merge, PieceRows
    <2>5. QED
      BY <1>2, <2>3, <2>4 DEF Stayed
  <1>3. CASE /\ pc[r] = "write" /\ SavesPiece(r) /\ x = job[r].piece /\ x \notin DOMAIN pieces
             /\ pieces'[x] = held[r].entity
    BY <1>0, <1>3 DEF Returned, SavingPiece, PieceOrders, OrdersAbove
  <1>4. CASE /\ pc[r] = "insertPieces"
             /\ \E k \in 1 .. job[r].count : x = <<r, k>> /\ pieces'[x] = NewPiece(r, k)
    BY <1>4 DEF Inserted
  <1>5. QED
    BY <1>0, <1>1, <1>2, <1>3, <1>4 DEF PiecesWent

LEMMA GoKeepsOrdersAgree ==
    ASSUME FilmInv, Lineage, PieceOrders, FilmInv', NEW r \in Requests, FilmWent(r)
    PROVE  OrdersAgree'
  <1>0. /\ job' = job /\ pc[r] \notin {"idle", "answered"} /\ PiecesWent(r) /\ ProjectsWent(r)
        /\ \A q \in Requests \ {r} : pc'[q] = pc[q] /\ held'[q] = held[q]
    BY GoFacts DEF FilmInv, FilmWent
  <1>1. \A s \in Requests : SavingPiece(s)' => SavingPiece(s) /\ Asks(s, PieceOps)
    BY <1>0 DEF SavingPiece, SavesPiece, InProgress, Asks, PieceOps
  <1>2. SavingPiece(r)' =>
           /\ pc'[r] = "write" /\ pc[r] = "load" /\ held'[r].entity = held[r]
           /\ held'[r].dirty = IF job[r].piece \in DOMAIN pieces
                                  THEN Dirty(held[r], pieces[job[r].piece]) ELSE {}
    <2>1. SavingPiece(r)' => pc'[r] \in {"load", "write"}
      BY DEF FilmInv, FilmWork, SavingPiece
    <2>2. SavingPiece(r)' => job[r].op # "updateProject" /\ SavesPiece(r)
      BY <1>0, <1>1 DEF SavingPiece, SavesPiece
    <2>3. QED
      BY <1>0, <2>1, <2>2 DEF PiecesWent, ProjectsWent
  <1>3. ASSUME NEW s \in Requests, SavingPiece(s)' PROVE HeldPiece(s)'.order = HeldPiece(s).order
    <2>1. HeldPiece(s)' = HeldPiece(s)
      BY <1>0, <1>2, <1>3 DEF HeldPiece
    <2>2. QED
      BY <2>1
  <1>4. ASSUME NEW s \in Requests, SavingPiece(s)', pc'[s] = "write" PROVE "order" \notin held'[s].dirty
    <2>1. CASE s # r
      BY <1>0, <1>1, <1>4, <2>1 DEF PieceOrders, OrdersAgree
    <2>2. CASE s = r /\ job[r].piece \in DOMAIN pieces
      <3>1. held[r].order = pieces[job[r].piece].order
        BY <1>1, <1>2, <1>4, <2>2 DEF PieceOrders, OrdersAgree, HeldPiece
      <3>2. QED
        BY <1>2, <1>4, <2>2, <3>1 DEF Dirty
    <2>3. QED
      BY <1>2, <1>4, <2>1, <2>2
  <1>5. ASSUME NEW s \in Requests, SavingPiece(s)', job[s].piece \in DOMAIN pieces'
        PROVE  HeldPiece(s).order = pieces'[job[s].piece].order
    <2> DEFINE x == job[s].piece
    <2>1. CASE Stayed(x)
      BY <1>1, <1>5, <2>1 DEF Stayed, PieceOrders, OrdersAgree
    <2>2. CASE Returned(r, x)
      <3>1. HeldPiece(r) = held[r].entity /\ HeldPiece(r).order = HeldPiece(s).order
        BY <1>1, <1>5, <2>2 DEF Returned, PieceOrders, OrdersAgree, HeldPiece
      <3>2. QED
        BY <2>2, <3>1 DEF Returned
    <2>3. CASE Inserted(r, x)
      <3>1. ~Made(x)
        BY <2>3 DEF Inserted, Made
      <3>2. QED
        BY <1>1, <1>5, <3>1 DEF Lineage
    <2>4. QED
      BY <1>5, <2>1, <2>2, <2>3, WaysOfPieces
  <1>6. \A s, t \in Requests :
           (SavingPiece(s)' /\ SavingPiece(t)' /\ job[s].piece = job[t].piece) =>
              HeldPiece(s)'.order = HeldPiece(t)'.order
    <2>1. \A s, t \in Requests :
             (SavingPiece(s) /\ SavingPiece(t) /\ job[s].piece = job[t].piece) =>
                HeldPiece(s).order = HeldPiece(t).order
      BY DEF PieceOrders, OrdersAgree
    <2>2. QED
      BY <1>1, <1>3, <2>1
  <1>7. QED
    BY <1>0, <1>3, <1>4, <1>5, <1>6 DEF OrdersAgree

LEMMA GoKeepsOrdersAbove ==
    ASSUME FilmInv, Lineage, PieceOrders, FilmInv', NEW r \in Requests, FilmWent(r)
    PROVE  OrdersAbove'
  <1>0. /\ job' = job /\ InProgress(r) /\ PiecesWent(r) /\ ProjectsWent(r)
        /\ \A q \in Requests \ {r} : pc'[q] = pc[q] /\ held'[q] = held[q]
        /\ PastStands /\ HttpInv
    BY GoFacts, FilmGoKeepsPast DEF FilmInv, FilmWent, InProgress
  <1>1. ASSUME NEW s \in Requests, SavingPiece(s)', job[s].piece \notin DOMAIN pieces'
        PROVE  CameBack(job[s].piece)'
    <2>1. SavingPiece(s) /\ Asks(s, PieceOps)
      BY <1>0, <1>1 DEF SavingPiece, SavesPiece, InProgress, Asks, PieceOps
    <2>2. PICK x \in PieceIds : x = job[s].piece /\ Made(x)
      BY <2>1 DEF Lineage
    <2>3. CASE x \in DOMAIN pieces
      <3>1. r \in TakersOf(x) /\ ~SavesPiece(r)
        <4>1. pieces[x].project = HomeOf(x[1]) /\ projects[HomeOf(x[1])] = FilmOf(HomeOf(x[1]))
          BY <2>3 DEF FilmInv, FilmTypeOK, Lineage
        <4>2. \/ job[r].op = "deletePiece" /\ x = job[r].piece
              \/ job[r].op = "deleteProject" /\ HomeOf(x[1]) = job[r].project
              \/ job[r].op = "deleteFilm" /\ FilmOf(HomeOf(x[1])) = job[r].film
          BY <1>0, <1>1, <2>2, <2>3, <4>1 DEF PiecesWent
        <4>3. QED
          BY <1>0, <4>2
             DEF TakersOf, DeletesOfPiece, DeletesOfProject, DeletesOfFilm, Asks, SavesPiece,
                            InProgress
      <3>2. s # r /\ Overlap(r, s)
        BY <1>0, <2>1, <3>1, InProgressOverlap DEF SavingPiece
      <3>3. s \in SavesOfPiece(x)
        BY <2>1, <2>2 DEF SavesOfPiece, SavingPiece
      <3>4. CameBack(x)
        BY <3>1, <3>2, <3>3 DEF CameBack, OverlapsOneOf
      <3>5. CameBack(x)'
        BY <1>0, <2>2, <3>4, CameBackStays
      <3>6. QED
        BY <1>0, <2>2, <3>5 DEF CameBack, TakersOf, DeletesOfPiece, SavesOfPiece
    <2>4. CASE x \notin DOMAIN pieces
      <3>1. CameBack(x)
        BY <2>1, <2>2, <2>4 DEF PieceOrders, OrdersAbove
      <3>2. CameBack(x)'
        BY <1>0, <2>2, <3>1, CameBackStays
      <3>3. QED
        BY <1>0, <2>2, <3>2 DEF CameBack, TakersOf, DeletesOfPiece, SavesOfPiece
    <2>5. QED
      BY <2>3, <2>4
  <1>2. ASSUME NEW q \in Requests, pc'[q] = "insertPieces",
               NEW y \in DOMAIN pieces', pieces'[y].project = held'[q].project
        PROVE  pieces'[y].order < held'[q].from \/ Overlap(y[1], q)' \/ CameBack(y)'
    <2>1. CASE q # r
      <3>1. CASE Stayed(y)
        <4>1. pieces[y].order < held[q].from \/ Overlap(y[1], q) \/ CameBack(y)
          BY <1>0, <1>2, <2>1, <3>1 DEF Stayed, PieceOrders, OrdersAbove
        <4>2. CameBack(y) => CameBack(y)'
          BY <1>0, <3>1, CameBackStays DEF Stayed, Lineage, FilmInv, FilmTypeOK
        <4>3. QED
          BY <1>0, <2>1, <3>1, <4>1, <4>2 DEF Stayed, PastStands
      <3>2. CASE Returned(r, y)
        <4>1. y \in PieceIds /\ Made(y)
          BY <3>2 DEF Returned, SavingPiece, SavesPiece, Lineage, Asks, PieceOps
        <4>2. QED
          BY <1>0, <3>2, <4>1, CameBackStays DEF Returned
      <3>3. CASE Inserted(r, y)
        <4>1. y[1] = r /\ InProgress(q)
          BY <1>0, <1>2, <2>1, <3>3 DEF Inserted, InProgress
        <4>2. Overlap(y[1], q)
          BY <1>0, <2>1, <4>1, InProgressOverlap
        <4>3. QED
          BY <1>0, <4>2 DEF PastStands
      <3>4. QED
        BY <3>1, <3>2, <3>3, WaysOfPieces
    <2>2. CASE q = r
      <3>1. pc[r] = "insert" /\ held'[r] = [project |-> r, from |-> 0]
        BY <1>0, <1>2, <2>2 DEF ProjectsWent
      <3>2. Stayed(y)
        BY <3>1, WaysOfPieces DEF Returned, Inserted
      <3>3. r \in DOMAIN projects
        BY <1>2, <2>2, <3>1, <3>2 DEF Stayed, FilmInv, FilmTypeOK
      <3>4. QED
        BY <3>1, <3>3 DEF Lineage, Born
    <2>3. QED
      BY <2>1, <2>2
  <1>3. \A s \in Requests : SavingPiece(s)' => job'[s].piece \in DOMAIN pieces' \/ CameBack(job[s].piece)'
    BY <1>0, <1>1
  <1>4. QED
    BY <1>2, <1>3 DEF OrdersAbove

LEMMA GoKeepsPieceOrders ==
    ASSUME FilmInv, Lineage, PieceOrders, FilmInv', Lineage', NEW r \in Requests, FilmWent(r)
    PROVE  PieceOrders'
  <1>0. /\ PastStands /\ HttpInv
        /\ SameOrdersExplained /\ (EqualOrdersOverlap' <=> SameOrdersExplained')
    <2>1. EqualOrdersOverlap' <=> SameOrdersExplained'
      BY SameOrdersAreExplained, PTL
    <2>2. QED
      BY <2>1, FilmGoKeepsPast, SameOrdersAreExplained DEF FilmInv, PieceOrders
  <1>1. \A x : Stayed(x) /\ CameBack(x) => CameBack(x)'
    BY <1>0, CameBackStays DEF Stayed, Lineage, FilmInv, FilmTypeOK
  <1>2. \A x : Returned(r, x) => CameBack(x)'
    <2> SUFFICES ASSUME NEW x, Returned(r, x) PROVE CameBack(x)'
      OBVIOUS
    <2>1. x \in PieceIds /\ Made(x) /\ CameBack(x)
      BY DEF Returned, SavingPiece, SavesPiece, Lineage, Asks, PieceOps
    <2>2. QED
      BY <1>0, <2>1, CameBackStays
  <1>3. ASSUME NEW x, NEW y, Inserted(r, x), Stayed(y), pieces'[x].project = pieces'[y].project,
               pieces'[x].order = pieces'[y].order
        PROVE  Overlap(y[1], x[1])' \/ CameBack(y)'
    <2>1. PICK k \in 1 .. job[r].count : x = <<r, k>> /\ pieces'[x] = NewPiece(r, k)
      BY <1>3 DEF Inserted
    <2>2. /\ pieces'[x].project = held[r].project
          /\ pieces'[x].order = held[r].from + k - 1
      BY <2>1 DEF NewPiece
    <2>3. held[r].from \in Nat /\ pieces[y].order \in Nat /\ pc[r] = "insertPieces"
      BY <1>3 DEF FilmInv, FilmWork, FilmTypeOK, PieceRows, Inserted, Stayed
    <2>4. k \in Nat /\ k >= 1
      BY <2>1
    <2>5. ~(pieces[y].order < held[r].from)
      BY <1>3, <2>2, <2>3, <2>4 DEF Stayed
    <2>6. Overlap(y[1], r) \/ CameBack(y)
      BY <1>3, <2>2, <2>3, <2>5 DEF PieceOrders, OrdersAbove, Stayed
    <2>7. QED
      BY <1>0, <1>1, <1>3, <2>1, <2>6 DEF PastStands
  <1>4. ASSUME NEW x, NEW y, Inserted(r, x), Inserted(r, y), pieces'[x].order = pieces'[y].order
        PROVE  x = y
    <2>1. PICK k \in 1 .. job[r].count : x = <<r, k>> /\ pieces'[x] = NewPiece(r, k)
      BY <1>4 DEF Inserted
    <2>2. PICK m \in 1 .. job[r].count : y = <<r, m>> /\ pieces'[y] = NewPiece(r, m)
      BY <1>4 DEF Inserted
    <2>3. held[r].from \in Nat
      BY <1>4 DEF FilmInv, FilmWork, Inserted
    <2>4. held[r].from + k - 1 = held[r].from + m - 1
      BY <1>4, <2>1, <2>2 DEF NewPiece
    <2>5. k = m
      BY <2>3, <2>4
    <2>6. QED
      BY <2>1, <2>2, <2>5
  <1>5. ASSUME NEW x \in DOMAIN pieces', NEW y \in DOMAIN pieces', x # y,
               pieces'[x].project = pieces'[y].project, pieces'[x].order = pieces'[y].order
        PROVE  Overlap(x[1], y[1])' \/ CameBack(x)' \/ CameBack(y)'
    <2>1. CASE Stayed(x) /\ Stayed(y)
      <3>1. Overlap(x[1], y[1]) \/ CameBack(x) \/ CameBack(y)
        BY <1>0, <1>5, <2>1 DEF Stayed, SameOrdersExplained
      <3>2. QED
        BY <1>0, <1>1, <2>1, <3>1 DEF PastStands
    <2>2. CASE Returned(r, x) \/ Returned(r, y)
      BY <1>2, <2>2
    <2>3. CASE Inserted(r, x) /\ Stayed(y)
      <3>1. Overlap(y[1], x[1])' \/ CameBack(y)'
        BY <1>3, <1>5, <2>3
      <3>2. QED
        BY <3>1 DEF Overlap
    <2>4. CASE Stayed(x) /\ Inserted(r, y)
      BY <1>3, <1>5, <2>4
    <2>5. CASE Inserted(r, x) /\ Inserted(r, y)
      BY <1>4, <1>5, <2>5
    <2>6. QED
      BY <2>1, <2>2, <2>3, <2>4, <2>5, WaysOfPieces
  <1>6. SameOrdersExplained'
    BY <1>5 DEF SameOrdersExplained
  <1>7. QED
    BY <1>0, <1>6, GoKeepsOrdersAgree, GoKeepsOrdersAbove DEF PieceOrders
-----------------------------------------------------------------------------
(* Films: fixed positions.                                                 *)

\* What may have made a piece loose.
LooseExplained(x) ==
    \/ x[1] \in Requests /\ job[x[1]].input.fixed /\ ~job[x[1]].input.done
    \/ \E s \in SavesOfPiece(x) : job[s].op = "updatePiece" /\ job[s].done = FALSE
    \/ \E s \in SavesOfPiece(x) : OverlapsOneOf(s, SavesOfPiece(x))

\* A row, a copy that is to be written, or what a save will make of the row, is loose only
\* for one of these reasons.
Positions ==
    /\ \A x \in DOMAIN pieces : Loose(pieces[x]) => LooseExplained(x)
    /\ \A s \in Requests :
          SavingPiece(s) =>
             /\ Loose(HeldPiece(s)) => LooseExplained(job[s].piece)
             /\ (pc[s] = "write" /\ job[s].piece \in DOMAIN pieces) =>
                   (Loose(Merge(pieces[job[s].piece], held[s].entity, held[s].dirty)) =>
                       LooseExplained(job[s].piece))

LEMMA LooseStaysExplained ==
    ASSUME Lineage, PastStands, NEW x \in PieceIds, Made(x), LooseExplained(x)
    PROVE  LooseExplained(x)'
  <1>1. \A s \in SavesOfPiece(x) : s \in SavesOfPiece(x)' /\ job'[s] = job[s]
    <2>1. \A s \in SavesOfPiece(x) :
             s \in Requests /\ Asks(s, {"updatePiece", "togglePieceComplete"})
      BY DEF SavesOfPiece, SavesPiece, Asks
    <2>2. QED
      BY <2>1, RequestsStay DEF PastStands
  <1>2. CASE x[1] \in Requests /\ job[x[1]].input.fixed /\ ~job[x[1]].input.done
    <2>1. Asks(x[1], Adds)
      BY <1>2 DEF Made, Asks
    <2>2. job'[x[1]] = job[x[1]]
      BY <1>2, <2>1 DEF PastStands
    <2>3. QED
      BY <1>2, <2>2 DEF LooseExplained
  <1>3. CASE \E s \in SavesOfPiece(x) : job[s].op = "updatePiece" /\ job[s].done = FALSE
    BY <1>1, <1>3 DEF LooseExplained
  <1>4. CASE \E s \in SavesOfPiece(x) : OverlapsOneOf(s, SavesOfPiece(x))
    BY <1>1, <1>4, RequestsStay DEF LooseExplained
  <1>5. QED
    BY <1>2, <1>3, <1>4 DEF LooseExplained

LEMMA StartKeepsPositions ==
    ASSUME FilmInv, Lineage, Positions, NEW r \in Requests, NEW j \in FilmJobs, FilmStarted(r, j)
    PROVE  Positions'
  <1>0. /\ PastStands /\ UNCHANGED <<projects, pieces>> /\ HttpInv
        /\ pc[r] = "idle" /\ job'[r] = j /\ pc'[r] # "idle"
        /\ \A q \in Requests \ {r} :
              pc'[q] = pc[q] /\ job'[q] = job[q] /\ held'[q] = held[q]
    BY FilmStartKeepsPast, StartFacts DEF FilmInv, FilmStarted
  <1>1. \A x \in PieceIds : Made(x) /\ LooseExplained(x) => LooseExplained(x)'
    BY <1>0, LooseStaysExplained
  <1>2. \A x \in DOMAIN pieces : x \in PieceIds /\ Made(x)
    BY DEF Lineage, FilmInv, FilmTypeOK
  <1>3. ASSUME NEW s \in Requests, SavingPiece(s)'
        PROVE  /\ Loose(HeldPiece(s))' => LooseExplained(job[s].piece)'
               /\ (pc'[s] = "write" /\ job'[s].piece \in DOMAIN pieces') =>
                     (Loose(Merge(pieces[job[s].piece], held[s].entity, held[s].dirty))' =>
                         LooseExplained(job[s].piece)')
    <2>1. CASE s # r
      <3>1. /\ SavingPiece(s) /\ Asks(s, PieceOps) /\ (Loose(HeldPiece(s))' <=> Loose(HeldPiece(s)))
            /\ job'[s] = job[s] /\ held'[s] = held[s] /\ pc'[s] = pc[s]
        BY <1>0, <1>3, <2>1
           DEF SavingPiece, SavesPiece, InProgress, Asks, PieceOps, HeldPiece, Loose
      <3>2. PICK x \in PieceIds : x = job[s].piece /\ Made(x)
        BY <3>1 DEF Lineage
      <3>3. LooseExplained(x) => LooseExplained(job[s].piece)'
        <4>1. LooseExplained(x)' <=> LooseExplained(job[s].piece)'
          BY <3>1, <3>2 DEF LooseExplained, SavesOfPiece
        <4>2. QED
          BY <1>1, <3>2, <4>1
      <3>4. /\ Loose(HeldPiece(s)) => LooseExplained(x)
            /\ (pc[s] = "write" /\ x \in DOMAIN pieces) =>
                  (Loose(Merge(pieces[x], held[s].entity, held[s].dirty)) => LooseExplained(x))
        BY <3>1, <3>2 DEF Positions
      <3>5. Loose(Merge(pieces[job[s].piece], held[s].entity, held[s].dirty))' <=>
               Loose(Merge(pieces[x], held[s].entity, held[s].dirty))
        BY <1>0, <3>1, <3>2 DEF Loose, Merge
      <3>6. QED
        BY <1>0, <3>1, <3>2, <3>3, <3>4, <3>5
    <2>2. CASE s = r
      <3>1. /\ j.op \in {"updatePiece", "togglePieceComplete"} /\ pc'[r] # "answered"
        BY <1>0, <1>3, <2>2 DEF SavingPiece, SavesPiece, InProgress
      <3>2. /\ pc'[r] = "load" /\ j.piece \in DOMAIN pieces
            /\ Loose(held'[r]) => Loose(pieces[j.piece]) \/ (j.op = "updatePiece" /\ j.done = FALSE)
        BY <3>1 DEF FilmStarted, PieceOps
      <3>3. PICK x \in DOMAIN pieces : x = j.piece
        BY <3>2
      <3>4. Loose(HeldPiece(r))' <=> Loose(held'[r])
        BY <3>2 DEF HeldPiece, Loose
      <3>5. Loose(pieces[x]) => LooseExplained(x)'
        BY <1>1, <1>2 DEF Positions
      <3>6. (j.op = "updatePiece" /\ j.done = FALSE) => LooseExplained(x)'
        BY <1>0, <3>1, <3>3 DEF LooseExplained, SavesOfPiece, SavesPiece
      <3>7. LooseExplained(x)' <=> LooseExplained(job[r].piece)'
        BY <1>0, <3>3 DEF LooseExplained, SavesOfPiece
      <3>8. QED
        BY <2>2, <3>2, <3>3, <3>4, <3>5, <3>6, <3>7
    <2>3. QED
      BY <2>1, <2>2
  <1>4. \A x \in DOMAIN pieces' : Loose(pieces[x])' => LooseExplained(x)'
    BY <1>0, <1>1, <1>2 DEF Positions, Loose
  <1>5. QED
    BY <1>3, <1>4 DEF Positions

LEMMA GoKeepsPositions ==
    ASSUME FilmInv, Lineage, PieceOrders, Positions, FilmInv', Lineage', NEW r \in Requests, FilmWent(r)
    PROVE  Positions'
  <1>0. /\ job' = job /\ InProgress(r) /\ PiecesWent(r) /\ ProjectsWent(r)
        /\ \A q \in Requests \ {r} : pc'[q] = pc[q] /\ held'[q] = held[q]
        /\ PastStands /\ HttpInv
    BY GoFacts, FilmGoKeepsPast DEF FilmInv, FilmWent, InProgress
  <1>1. \A x \in PieceIds : Made(x) /\ LooseExplained(x) => LooseExplained(x)'
    BY <1>0, LooseStaysExplained
  <1>2. \A s \in Requests :
           SavingPiece(s)' => /\ SavingPiece(s) /\ job[s].piece \in PieceIds /\ Made(job[s].piece)
                              /\ s \in SavesOfPiece(job[s].piece)
    BY <1>0 DEF SavingPiece, SavesPiece, InProgress, SavesOfPiece, Lineage, Asks, PieceOps
  <1>3. \A s \in Requests : LooseExplained(job[s].piece)' <=> (\E x : x = job[s].piece /\ LooseExplained(x)')
    <2> SUFFICES ASSUME NEW s \in Requests
                 PROVE  LooseExplained(job[s].piece)' <=> (\E x : x = job[s].piece /\ LooseExplained(x)')
      OBVIOUS
    <2>1. PICK x : x = job[s].piece
      OBVIOUS
    <2>2. LooseExplained(job[s].piece)' <=> LooseExplained(x)'
      BY <1>0, <2>1 DEF LooseExplained, SavesOfPiece
    <2>3. QED
      BY <2>1, <2>2
  <1>4. ASSUME NEW x \in DOMAIN pieces'
        PROVE  \/ x \in DOMAIN pieces /\ pieces'[x] = pieces[x]
               \/ /\ pc[r] = "write" /\ SavingPiece(r) /\ x = job[r].piece
                  /\ Loose(pieces'[x]) => LooseExplained(x)
               \/ /\ Inserted(r, x) /\ ~Made(x)
    <2>1. CASE /\ pc[r] = "write" /\ SavesPiece(r) /\ x = job[r].piece /\ x \in DOMAIN pieces
               /\ pieces'[x] = Merge(pieces[x], held[r].entity, held[r].dirty)
      BY <1>0, <2>1 DEF SavingPiece, Positions
    <2>2. CASE /\ pc[r] = "write" /\ SavesPiece(r) /\ x = job[r].piece /\ x \notin DOMAIN pieces
               /\ pieces'[x] = held[r].entity
      BY <1>0, <2>2 DEF SavingPiece, Positions, HeldPiece
    <2>3. CASE /\ pc[r] = "insertPieces" /\ pc'[r] = "reread"
               /\ \E k \in 1 .. job[r].count : x = <<r, k>> /\ pieces'[x] = NewPiece(r, k)
      BY <2>3 DEF Inserted, Made
    <2>4. QED
      BY <1>0, <2>1, <2>2, <2>3 DEF PiecesWent
  <1>5. ASSUME NEW x \in DOMAIN pieces', Loose(pieces'[x]) PROVE LooseExplained(x)'
    <2>1. CASE x \in DOMAIN pieces /\ pieces'[x] = pieces[x]
      BY <1>1, <1>5, <2>1 DEF Positions, Lineage, FilmInv, FilmTypeOK
    <2>2. CASE /\ pc[r] = "write" /\ SavingPiece(r) /\ x = job[r].piece
               /\ Loose(pieces'[x]) => LooseExplained(x)
      <3>1. x \in PieceIds /\ Made(x)
        BY <2>2 DEF SavingPiece, SavesPiece, Lineage, Asks, PieceOps
      <3>2. QED
        BY <1>1, <1>5, <2>2, <3>1
    <2>3. CASE Inserted(r, x)
      <3>1. x[1] = r /\ job[r].input.fixed /\ ~job[r].input.done
        BY <1>5, <2>3 DEF Inserted, NewPiece, Loose
      <3>2. QED
        BY <1>0, <3>1 DEF LooseExplained
    <2>4. QED
      BY <1>4, <2>1, <2>2, <2>3
  <1>6. ASSUME NEW s \in Requests, SavingPiece(s)', Loose(HeldPiece(s))'
        PROVE  LooseExplained(job[s].piece)'
    <2>1. Loose(HeldPiece(s))
      <3>1. CASE s # r
        BY <1>0, <1>6, <3>1 DEF HeldPiece, Loose
      <3>2. CASE s = r
        <4>1. pc'[r] \in {"load", "write"} /\ job[r].op # "updateProject" /\ SavesPiece(r)
          BY <1>0, <1>2, <1>6, <3>2 DEF FilmInv, FilmWork, SavingPiece, SavesPiece
        <4>2. pc[r] = "load" /\ pc'[r] = "write" /\ held'[r].entity = held[r]
          BY <1>0, <4>1 DEF PiecesWent, ProjectsWent
        <4>3. QED
          BY <1>6, <3>2, <4>2 DEF HeldPiece, Loose
      <3>3. QED
        BY <3>1, <3>2
    <2>2. LooseExplained(job[s].piece) /\ job[s].piece \in PieceIds /\ Made(job[s].piece)
      BY <1>2, <1>6, <2>1 DEF Positions
    <2>3. QED
      BY <1>1, <1>3, <2>2
  <1>7. ASSUME NEW s \in Requests, SavingPiece(s)', pc'[s] = "write", job[s].piece \in DOMAIN pieces',
               Loose(Merge(pieces'[job[s].piece], held'[s].entity, held'[s].dirty))
        PROVE  LooseExplained(job[s].piece)'
    <2> DEFINE x == job[s].piece
    <2>0. /\ SavingPiece(s) /\ x \in PieceIds /\ Made(x) /\ s \in SavesOfPiece(x)
      BY <1>2, <1>7
    <2>1. LooseExplained(x)
      <3>1. CASE x \in DOMAIN pieces /\ pieces'[x] = pieces[x] /\ s # r
        BY <1>0, <1>7, <2>0, <3>1 DEF Positions
      <3>2. CASE /\ pc[r] = "write" /\ SavingPiece(r) /\ x = job[r].piece /\ s # r
        <4>1. Overlap(s, r) /\ r \in SavesOfPiece(x)
          BY <1>0, <2>0, <3>2, InProgressOverlap DEF SavingPiece, SavesOfPiece
        <4>2. QED
          BY <2>0, <4>1 DEF LooseExplained, OverlapsOneOf
      <3>3. CASE Inserted(r, x) /\ ~Made(x)
        BY <2>0, <3>3
      <3>4. CASE s = r
        <4>1. job[r].op # "updateProject" /\ SavesPiece(r) /\ SavesPiece(r)'
          BY <1>7, <2>0, <3>4 DEF SavingPiece, SavesPiece
        <4>2. /\ pc[r] = "load" /\ held'[r].entity = held[r]
              /\ held'[r].dirty = IF x \in DOMAIN pieces THEN Dirty(held[r], pieces[x]) ELSE {}
          BY <1>0, <1>7, <3>4, <4>1 DEF PiecesWent
        <4>3. x \in DOMAIN pieces /\ pieces'[x] = pieces[x]
          BY <1>7, <1>4, <3>4, <4>2 DEF Inserted
        <4>4. pieces[x] \in PieceRows /\ held[r] \in PieceRows
          <5>1. HeldPiece(r) \in PieceRows
            BY <2>0, <3>4 DEF SavingPiece, FilmInv, FilmWork, PieceRow
          <5>2. QED
            BY <4>2, <4>3, <5>1 DEF HeldPiece, FilmInv, FilmTypeOK
        <4>5. \A row, e \in PieceRows : Loose(Merge(row, e, Dirty(e, row))) => Loose(e)
          BY DEF Merge, Dirty, Loose, PieceRows
        <4>6. Loose(held[r])
          <5>1. PICK row \in PieceRows : row = pieces[x]
            BY <4>4
          <5>2. PICK e \in PieceRows : e = held[r]
            BY <4>4
          <5>3. Loose(Merge(row, e, Dirty(e, row)))
            BY <1>7, <3>4, <4>2, <4>3, <5>1, <5>2
          <5>4. QED
            BY <4>5, <5>2, <5>3
        <4>7. QED
          BY <2>0, <3>4, <4>2, <4>6 DEF Positions, HeldPiece
      <3>5. QED
        BY <1>4, <1>7, <3>1, <3>2, <3>3, <3>4
    <2>2. QED
      BY <1>1, <1>3, <2>0, <2>1
  <1>8. ASSUME NEW s \in Requests, SavingPiece(s)', pc'[s] = "write", job'[s].piece \in DOMAIN pieces',
               Loose(Merge(pieces[job[s].piece], held[s].entity, held[s].dirty))'
        PROVE  LooseExplained(job[s].piece)'
    BY <1>0, <1>7, <1>8 DEF Loose, Merge
  <1>9. \A x \in DOMAIN pieces' : Loose(pieces[x])' => LooseExplained(x)'
    BY <1>5 DEF Loose
  <1>10. QED
    BY <1>0, <1>6, <1>8, <1>9 DEF Positions
-----------------------------------------------------------------------------
(* Films: the invariants together.                                         *)

FilmHistory ==
    /\ FilmInv
    /\ Lineage
    /\ DeletedFilmRows
    /\ LostFilmRows
    /\ PieceOrders
    /\ Positions

LEMMA FilmHistoryStarts ==
    ASSUME FilmInv, FilmInit
    PROVE  FilmHistory
  <1>1. /\ \A r \in Requests : pc[r] = "idle" /\ answer[r] = "none"
        /\ films = {Nobody} /\ DOMAIN projects = {Nobody} /\ projects[Nobody] = Nobody
        /\ DOMAIN pieces = {<<Nobody, 1>>} /\ Nobody \notin Requests
        /\ ~Loose(pieces[<<Nobody, 1>>])
    BY RequestConstants DEF FilmInit, HttpInit, FilmTablesSeeded, Loose
  <1>2. /\ \A s \in Requests : \A ops : ~Asks(s, ops)
        /\ \A s \in Requests : ~SavesPiece(s) /\ ~InProgress(s)
    BY <1>1 DEF Asks, SavesPiece, InProgress
  <1>3. Lineage
    BY <1>1, <1>2 DEF Lineage, At, Made, Born, FilmOf
  <1>4. DeletedFilmRows
    BY <1>2 DEF DeletedFilmRows, DeletesOfPiece, DeletesOfProject, DeletesOfFilm
  <1>5. LostFilmRows
    <2>1. \A p \in Creators : ProjectWasThere(p) => p = Nobody
      BY <1>2 DEF ProjectWasThere, ProjectBeingSaved, SavesOfProject
    <2>2. \A f \in Creators : FilmWasThere(f) => f = Nobody
      BY <1>2 DEF FilmWasThere
    <2>3. \A x \in PieceIds : PieceWasThere(x) => x = <<Nobody, 1>>
      BY <1>2 DEF PieceWasThere
    <2>4. QED
      BY <1>1, <2>1, <2>2, <2>3 DEF LostFilmRows, At
  <1>6. PieceOrders
    <2>1. EqualOrdersOverlap
      BY <1>1 DEF EqualOrdersOverlap
    <2>2. QED
      BY <1>1, <1>2, <2>1 DEF PieceOrders, OrdersAgree, OrdersAbove, SavingPiece
  <1>7. Positions
    BY <1>1, <1>2 DEF Positions, SavingPiece
  <1>8. QED
    BY <1>3, <1>4, <1>5, <1>6, <1>7 DEF FilmHistory

LEMMA FilmNextKeepsHistory ==
    ASSUME FilmHistory, FilmNext
    PROVE  FilmHistory'
  <1>1. FilmInv'
    BY FilmNextKeepsInv DEF FilmHistory
  <1>2. PICK r \in Requests : FilmRequest(r) \/ ProjectRequest(r) \/ PieceRequest(r) \/ FilmStep(r)
    BY DEF FilmNext
  <1>3. CASE FilmRequest(r) \/ ProjectRequest(r) \/ PieceRequest(r)
    <2>1. PICK j \in FilmJobs : FilmStarted(r, j)
      BY <1>3, FilmStarts DEF FilmHistory
    <2>2. Lineage'
      BY <2>1, FilmStartKeepsLineage DEF FilmHistory
    <2>3. QED
      BY <1>1, <2>1, <2>2, StartKeepsDeletedFilmRows, StartKeepsLostFilmRows, StartKeepsPieceOrders,
         StartKeepsPositions DEF FilmHistory
  <1>4. CASE FilmStep(r)
    <2>1. FilmWent(r)
      BY <1>4, FilmGoes DEF FilmHistory, Lineage
    <2>2. Lineage'
      BY <2>1, FilmGoKeepsLineage DEF FilmHistory
    <2>3. QED
      BY <1>1, <2>1, <2>2, GoKeepsDeletedFilmRows, GoKeepsLostFilmRows, GoKeepsPieceOrders,
         GoKeepsPositions DEF FilmHistory
  <1>5. QED
    BY <1>2, <1>3, <1>4

LEMMA FilmHistoryStutters == FilmHistory /\ UNCHANGED filmVars => FilmHistory'
  <1> SUFFICES ASSUME FilmHistory, UNCHANGED filmVars PROVE FilmHistory'
    OBVIOUS
  <1>1. FilmInv'
    BY FilmNextKeepsInv DEF FilmHistory
  <1>2. /\ pc' = pc /\ job' = job /\ held' = held /\ answer' = answer /\ earlier' = earlier
        /\ films' = films /\ projects' = projects /\ pieces' = pieces
    BY DEF filmVars, filmTables, httpVars
  <1>3. Lineage'
    BY <1>2 DEF FilmHistory, Lineage, Made, Born, FilmOf, Asks, At
  <1>4. DeletedFilmRows'
    BY <1>2 DEF FilmHistory, DeletedFilmRows, DeletesOfPiece, DeletesOfProject, DeletesOfFilm, Asks,
                PieceBeingSaved, ProjectBeingSaved, FilmBeingSaved, SavesOfPiece, SavesOfProject,
                SavesOfFilm, SavesPiece, InProgress, Succeeded, OverlapsOneOf, Overlap
  <1>5. \A p : ProjectLossExplained(p)' <=> ProjectLossExplained(p)
    BY <1>2 DEF ProjectLossExplained, DeletesOfProject, DeletesOfFilm, Asks, OverlapsOneOf, Overlap
  <1>6. LostFilmRows'
    BY <1>2, <1>5 DEF FilmHistory, LostFilmRows, ProjectWasThere, FilmWasThere, PieceWasThere,
       ProjectBeingSaved, SavesOfProject, PieceLossExplained, DeletesOfFilm, DeletesOfPiece, Asks, At,
       Succeeded, InProgress, HomeOf, ProjectLossExplained, OverlapsOneOf, Overlap, DeletesOfProject
  <1>7. PieceOrders'
    <2>1. \A x : CameBack(x)' <=> CameBack(x)
      BY <1>2 DEF CameBack, TakersOf, DeletesOfPiece, DeletesOfProject, DeletesOfFilm, Asks,
                  SavesOfPiece, SavesPiece, OverlapsOneOf, Overlap, HomeOf, FilmOf
    <2>2. OrdersAgree'
      BY <1>2
         DEF FilmHistory, PieceOrders, OrdersAgree, SavingPiece, SavesPiece, InProgress, HeldPiece
    <2>3. OrdersAbove'
      <3>1. \A s \in Requests : SavingPiece(s)' <=> SavingPiece(s)
        BY <1>2 DEF SavingPiece, SavesPiece, InProgress
      <3>2. \A s \in Requests : CameBack(job[s].piece)' <=> CameBack(job[s].piece)
        BY <1>2 DEF CameBack, TakersOf, DeletesOfPiece, DeletesOfProject, DeletesOfFilm, Asks,
                    SavesOfPiece, SavesPiece, OverlapsOneOf, Overlap, HomeOf, FilmOf
      <3>3. \A a, b : Overlap(a, b)' <=> Overlap(a, b)
        BY <1>2 DEF Overlap
      <3>4. QED
        BY <1>2, <2>1, <3>1, <3>2, <3>3 DEF FilmHistory, PieceOrders, OrdersAbove
    <2>4. EqualOrdersOverlap'
      BY <1>2 DEF FilmHistory, PieceOrders, EqualOrdersOverlap, RemovalsOfPiece, DeletesOfPiece,
                  DeletesOfProject, DeletesOfFilm, Asks, SavesOfPiece, SavesPiece, OverlapsOneOf, Overlap
    <2>5. QED
      BY <2>2, <2>3, <2>4 DEF PieceOrders
  <1>8. Positions'
    BY <1>2
       DEF FilmHistory, Positions, Loose, LooseExplained, SavesOfPiece, SavesPiece, OverlapsOneOf,
                Overlap, SavingPiece, InProgress, HeldPiece, Merge
  <1>9. QED
    BY <1>1, <1>3, <1>4, <1>6, <1>7, <1>8 DEF FilmHistory

\* What the invariants say of the properties.
LEMMA FilmHistoryHolds ==
    ASSUME FilmHistory
    PROVE  /\ FilmTypeOK /\ EqualOrdersOverlap /\ LostFilmRowsAreExplained
           /\ DeletedFilmRowsStayDeleted /\ FixedOnlyWhenCut
  <1>1. FilmTypeOK /\ EqualOrdersOverlap
    BY DEF FilmHistory, FilmInv, PieceOrders
  <1>2. DeletedFilmRowsStayDeleted
    BY DEF FilmHistory, DeletedFilmRows, DeletedFilmRowsStayDeleted
  <1>3. FixedOnlyWhenCut
    BY DEF FilmHistory, Positions, FixedOnlyWhenCut, Loose, LooseExplained
  <1>4. LostFilmRowsAreExplained
    <2>1. ASSUME NEW p \in Creators \ DOMAIN projects,
                 p = Nobody \/ (Asks(p, {"createProject"}) /\ Succeeded(p))
          PROVE  ProjectLossExplained(p)
      BY <2>1 DEF FilmHistory, LostFilmRows, ProjectWasThere, Creators
    <2>2. ASSUME NEW f \in Creators \ films,
                 f = Nobody \/ (Asks(f, {"createFilm"}) /\ Succeeded(f))
          PROVE  DeletesOfFilm(f) # {}
      BY <2>2 DEF FilmHistory, LostFilmRows, FilmWasThere, Creators
    <2>3. ASSUME NEW x \in PieceIds \ DOMAIN pieces,
                 IF x[1] = Nobody THEN x[2] = 1
                 ELSE /\ Asks(x[1], {"createProject", "addPieces"})
                      /\ Succeeded(x[1])
                      /\ x[2] <= job[x[1]].count
          PROVE  \/ DeletesOfPiece(x) # {}
                 \/ ProjectLossExplained(IF x[1] = Nobody THEN Nobody
                                         ELSE IF Asks(x[1], {"addPieces"}) THEN job[x[1]].project
                                         ELSE x[1])
      <3>1. x = <<x[1], x[2]>> /\ x[1] \in Creators
        BY DEF PieceIds
      <3>2. PieceWasThere(x)
        BY <2>3, <3>1 DEF PieceWasThere, Adds, Creators
      <3>3. PieceLossExplained(x)
        BY <3>2 DEF FilmHistory, LostFilmRows
      <3>4. HomeOf(x[1]) = IF x[1] = Nobody THEN Nobody
                           ELSE IF Asks(x[1], {"addPieces"}) THEN job[x[1]].project ELSE x[1]
        BY <2>3 DEF HomeOf, Asks
      <3>5. QED
        BY <3>3, <3>4 DEF PieceLossExplained
    <2>4. QED
      BY <2>1, <2>2, <2>3 DEF LostFilmRowsAreExplained
  <1>5. QED
    BY <1>1, <1>2, <1>3, <1>4

\* Whatever the requests do, the invariants hold.
THEOREM FilmsHistoryHolds == FilmSpec => []FilmHistory
  <1>1. FilmInit => FilmHistory
    BY FilmInvStarts, FilmHistoryStarts
  <1>2. FilmHistory /\ [FilmNext]_filmVars => FilmHistory'
    BY FilmNextKeepsHistory, FilmHistoryStutters
  <1>3. QED
    BY <1>1, <1>2, PTL DEF FilmSpec
-----------------------------------------------------------------------------
(* Services                                                                *)

SameKey(x, y) == x.service = y.service /\ x.district = y.district

OnePerDistrict(R) == \A x, y \in R : SameKey(x, y) => x = y

\* The regions there will be if a transaction commits now.
After(r) == (regions \ txn[r].gone) \cup txn[r].new

\* A transaction that has not got to its INSERT of regions has none.
EarlyParts == {"columns", "snapshot", "delete", "insert"}

TxnOK(r) ==
    /\ txn[r] # Nothing <=> InProgress(r) /\ Transactional(r)
    /\ txn[r] # Nothing =>
          /\ txn[r] \in Transactions
          /\ \A x \in txn[r].new : x.service = Target(r)
          /\ pc[r] \in EarlyParts => txn[r].new = {}
          /\ OnePerDistrict(After(r))

Apart(q, r) == \A x \in txn[q].new, y \in txn[r].new : ~SameKey(x, y)

TxnsOK ==
    /\ DOMAIN txn = Requests
    /\ OnePerDistrict(regions)
    /\ \A r \in Requests : TxnOK(r)
    /\ \A q, r \in Requests : (q # r /\ txn[q] # Nothing /\ txn[r] # Nothing) => Apart(q, r)

ServiceRowsOK ==
    /\ \A s \in DOMAIN services : services[s] \in ServiceRows
    /\ regions \subseteq RegionRows
    /\ \A x \in regions : x.service \in DOMAIN services
    /\ DOMAIN schedules \subseteq DOMAIN services

Writers == {"update", "adminCreate", "adminUpdate"}

\* What a request holds from one statement to the next.
ServiceWork(r) ==
    InProgress(r) =>
       /\ pc[r] \in {"max", "insertService"} => job[r].op = "adminCreate"
       /\ pc[r] \notin {"max", "insertService"} => Target(r) \in DOMAIN services
       /\ pc[r] = "insertService" => held[r].order \in Nat
       /\ pc[r] \in EarlyParts \cup {"findSchedule", "writeSchedule", "finish"} =>
             job[r].op \in Writers
       /\ pc[r] \in {"snapshot", "delete", "insert"} => ListOf(r) # Nothing
       /\ pc[r] = "insert" => held[r].districts \subseteq DOMAIN ListOf(r)
       /\ pc[r] = "setActive" =>
             job[r].op \in {"delete", "toggle"} /\ held[r].active \in BOOLEAN
       /\ pc[r] = "load" => held[r].row \in ServiceRows
       /\ pc[r] = "write" => held[r].entity \in ServiceRows

ServiceInv ==
    /\ HttpInv /\ HttpTypeOK
    /\ DOMAIN services \subseteq Arrived \cup {Nobody}
    /\ \A r \in Arrived : job[r] \in ServiceJobs
    /\ ServiceRowsOK
    /\ TxnsOK
    /\ \A r \in Requests : ServiceWork(r)

LEMMA ServiceInvIsTypeOK == ServiceInv => ServiceTypeOK
  BY DEF ServiceInv, ServiceTypeOK, ServiceRowsOK, TxnsOK, TxnOK, OnePerDistrict, SameKey,
     Arrived, Creators

LEMMA MaxOrderIsHighest ==
    ASSUME ServiceInv
    PROVE  MaxOrder \in Nat /\ \A s \in DOMAIN services : services[s].order <= MaxOrder
  <1> DEFINE orders == {0} \cup {services[s].order : s \in DOMAIN services}
             order == [s \in DOMAIN services |-> services[s].order]
  <1>1. \A s \in DOMAIN services : services[s].order \in Nat
    BY DEF ServiceInv, ServiceRowsOK, ServiceRows
  <1>2. IsFiniteSet(DOMAIN services)
    <2>1. IsFiniteSet(Arrived \cup {Nobody})
      BY FS_AddElement DEF ServiceInv, HttpInv
    <2>2. QED
      BY <2>1, FS_Subset DEF ServiceInv
  <1>3. \E m \in orders : \A o \in orders : o <= m
    <2>1. CASE DOMAIN services = {}
      <3>1. orders = {0}
        BY <2>1
      <3>2. QED
        BY <3>1
    <2>2. CASE DOMAIN services # {}
      <3>0. \A s \in DOMAIN services : order[s] \in Int
        BY <1>1
      <3>1. PICK s \in DOMAIN services : \A t \in DOMAIN services : order[t] <= order[s]
        BY <1>2, <2>2, <3>0, HighestOfFinite
      <3>2. services[s].order \in orders /\ \A o \in orders : o <= services[s].order
        BY <1>1, <3>1
      <3>3. QED
        BY <3>2
    <2>3. QED
      BY <2>1, <2>2
  <1>4. PICK m \in orders : /\ m = CHOOSE n \in orders : \A o \in orders : o <= n
                           /\ \A o \in orders : o <= m
    BY <1>3
  <1>5. \A n \in orders : n \in Nat
    BY <1>1
  <1>6. \A s \in DOMAIN services : services[s].order \in orders
    OBVIOUS
  <1> HIDE DEF orders
  <1>7. m \in Nat /\ \A s \in DOMAIN services : services[s].order <= m
    BY <1>4, <1>5, <1>6
  <1>8. QED
    BY <1>4, <1>7 DEF MaxOrder, orders

\* A request's work is its own: services are not deleted.
LEMMA ServiceStartKeeps ==
    ASSUME ServiceInv, NEW r \in Requests, NEW j \in ServiceJobs, Starts(r, j),
           DOMAIN services \subseteq DOMAIN services',
           DOMAIN services' \subseteq DOMAIN services \cup {r},
           ServiceRowsOK', TxnsOK', ServiceWork(r)'
    PROVE  ServiceInv'
  <1>1. HttpInv /\ HttpTypeOK' /\ HttpInv'
    BY NothingIsNoServiceJob, StartKeepsHttpTypes, StartKeepsHttpInv DEF ServiceInv
  <1>2. Arrived' = Arrived \cup {r} /\ \A q \in Arrived' : job'[q] \in ServiceJobs
    BY <1>1, StartFacts DEF ServiceInv, Arrived
  <1>3. ASSUME NEW q \in Requests \ {r} PROVE ServiceWork(q)'
    <2>1. /\ pc'[q] = pc[q] /\ job'[q] = job[q] /\ held'[q] = held[q] /\ ServiceWork(q)
      BY <1>1, StartFacts DEF ServiceInv
    <2>2. QED
      BY <2>1 DEF ServiceWork, InProgress, Target, Creates, ListOf
  <1>4. QED
    BY <1>1, <1>2, <1>3 DEF ServiceInv

LEMMA ServiceGoKeeps ==
    ASSUME ServiceInv, NEW r \in Requests, Goes(r),
           DOMAIN services \subseteq DOMAIN services',
           DOMAIN services' \subseteq DOMAIN services \cup {r},
           ServiceRowsOK', TxnsOK', ServiceWork(r)'
    PROVE  ServiceInv'
  <1>1. HttpInv /\ HttpTypeOK' /\ HttpInv' /\ Arrived' = Arrived
    BY GoKeepsHttpTypes, GoKeepsHttpInv DEF ServiceInv
  <1>2. r \in Arrived /\ job' = job
    BY <1>1, GoFacts DEF Arrived
  <1>3. ASSUME NEW q \in Requests \ {r} PROVE ServiceWork(q)'
    <2>1. /\ pc'[q] = pc[q] /\ job'[q] = job[q] /\ held'[q] = held[q] /\ ServiceWork(q)
      BY <1>1, GoFacts DEF ServiceInv
    <2>2. QED
      BY <2>1 DEF ServiceWork, InProgress, Target, Creates, ListOf
  <1>4. QED
    BY <1>1, <1>2, <1>3 DEF ServiceInv

\* What a step has to leave of the transactions when it is not theirs.
LEMMA TxnsOfOthers ==
    ASSUME HttpInv, TxnsOK, NEW r \in Requests,
           (\E j : Starts(r, j)) \/ Goes(r),
           DOMAIN txn' = Requests, \A q \in Requests \ {r} : txn'[q] = txn[q],
           OnePerDistrict(regions)',
           \A q \in Requests \ {r} : txn[q] # Nothing => OnePerDistrict(After(q))',
           TxnOK(r)',
           \A q \in Requests \ {r} :
              (txn[q] # Nothing /\ txn'[r] # Nothing) => Apart(q, r)' /\ Apart(r, q)'
    PROVE  TxnsOK'
  <1>1. ASSUME NEW q \in Requests \ {r} PROVE TxnOK(q)'
    <2>1. pc'[q] = pc[q] /\ job'[q] = job[q] /\ txn'[q] = txn[q] /\ TxnOK(q)
      BY StartFacts, GoFacts DEF TxnsOK
    <2>2. QED
      BY <2>1 DEF TxnOK, InProgress, Transactional, Target, Creates
  <1>2. ASSUME NEW p \in Requests \ {r}, NEW q \in Requests \ {r}, p # q,
               txn'[p] # Nothing, txn'[q] # Nothing
        PROVE  Apart(p, q)'
    BY <1>2 DEF TxnsOK, Apart
  <1>3. QED
    BY <1>1, <1>2 DEF TxnsOK

\* A step that leaves regions alone, and its transaction's.
LEMMA QuietTxns ==
    ASSUME ServiceInv, NEW r \in Requests, Goes(r), regions' = regions,
           DOMAIN txn' = Requests, \A q \in Requests \ {r} : txn'[q] = txn[q],
           txn[r] = Nothing => txn'[r] = Nothing,
           txn[r] # Nothing =>
              \/ txn'[r] = Nothing /\ pc'[r] = "answered"
              \/ /\ txn'[r] \in Transactions
                 /\ txn'[r].gone = txn[r].gone /\ txn'[r].new = txn[r].new
                 /\ pc'[r] # "answered"
                 /\ pc'[r] \in EarlyParts => pc[r] \in EarlyParts
    PROVE  TxnsOK'
  <1>1. /\ HttpInv /\ TxnsOK /\ job' = job /\ pc'[r] # "idle" /\ InProgress(r) /\ TxnOK(r)
        /\ Nothing \notin Transactions
    BY GoFacts, NothingIsNoTransaction DEF ServiceInv, TxnsOK, InProgress
  <1>2. OnePerDistrict(regions)'
    BY <1>1 DEF TxnsOK, OnePerDistrict
  <1>3. \A q \in Requests \ {r} : txn[q] # Nothing => OnePerDistrict(After(q))'
    BY <1>1 DEF TxnsOK, TxnOK, OnePerDistrict, After
  <1>4. TxnOK(r)'
    <2>1. CASE txn[r] = Nothing
      BY <1>1, <2>1 DEF TxnOK, InProgress, Transactional
    <2>2. CASE txn'[r] = Nothing /\ pc'[r] = "answered"
      BY <1>1, <2>2 DEF TxnOK, InProgress, Transactional
    <2>3. CASE /\ txn[r] # Nothing /\ txn'[r] \in Transactions
               /\ txn'[r].gone = txn[r].gone /\ txn'[r].new = txn[r].new
               /\ pc'[r] # "answered"
               /\ pc'[r] \in EarlyParts => pc[r] \in EarlyParts
      <3>1. OnePerDistrict(After(r))'
        BY <1>1, <2>3 DEF TxnOK, OnePerDistrict, After
      <3>2. \A x \in txn'[r].new : x.service = Target(r)'
        BY <1>1, <2>3 DEF TxnOK, Target, Creates
      <3>3. InProgress(r)' /\ Transactional(r)' /\ txn'[r] # Nothing
        BY <1>1, <2>3 DEF TxnOK, InProgress, Transactional
      <3>4. pc'[r] \in EarlyParts => txn'[r].new = {}
        BY <1>1, <2>3 DEF TxnOK
      <3>5. QED
        BY <2>3, <3>1, <3>2, <3>3, <3>4 DEF TxnOK
    <2>4. QED
      BY <2>1, <2>2, <2>3
  <1>5. ASSUME NEW q \in Requests \ {r}, txn[q] # Nothing, txn'[r] # Nothing
        PROVE  Apart(q, r)' /\ Apart(r, q)'
    <2>1. txn[r] # Nothing /\ txn'[r].new = txn[r].new /\ txn'[q] = txn[q]
      BY <1>5
    <2>2. Apart(q, r) /\ Apart(r, q)
      BY <1>1, <1>5, <2>1 DEF TxnsOK
    <2>3. QED
      BY <2>1, <2>2 DEF Apart
  <1>6. QED
    BY <1>1, <1>2, <1>3, <1>4, <1>5, TxnsOfOthers

\* Transactions are those of updates under way, of services there are.
LEMMA OpenTransaction ==
    ASSUME ServiceInv, NEW q \in Requests, txn[q] # Nothing
    PROVE  /\ InProgress(q) /\ job[q].op = "update" /\ q \in Arrived
           /\ Target(q) \in DOMAIN services /\ txn[q] \in Transactions
  BY DEF ServiceInv, TxnsOK, TxnOK, Transactional, ServiceWork, Arrived, InProgress

LEMMA ServiceStartsQuietly ==
    ASSUME ServiceInv, NEW r \in Requests, NEW j \in ServiceJobs, Starts(r, j),
           UNCHANGED serviceTables, pc'[r] = "answered" \/ j.op # "update", ServiceWork(r)'
    PROVE  ServiceInv'
  <1>1. /\ HttpInv /\ TxnsOK /\ pc[r] = "idle" /\ job'[r] = j /\ pc'[r] # "idle" /\ txn[r] = Nothing
    BY StartFacts DEF ServiceInv, TxnsOK, TxnOK, InProgress
  <1>2. TxnOK(r)'
    BY <1>1 DEF TxnOK, InProgress, Transactional, serviceTables
  <1>3. TxnsOK'
    <2>1. OnePerDistrict(regions)'
      BY <1>1 DEF TxnsOK, OnePerDistrict, serviceTables
    <2>2. \A q \in Requests \ {r} : txn[q] # Nothing => OnePerDistrict(After(q))'
      BY <1>1 DEF TxnsOK, TxnOK, OnePerDistrict, After, serviceTables
    <2>3. DOMAIN txn' = Requests /\ txn' = txn
      BY <1>1 DEF TxnsOK, serviceTables
    <2>4. QED
      BY <1>1, <1>2, <2>1, <2>2, <2>3, TxnsOfOthers
  <1>4. ServiceRowsOK'
    BY DEF ServiceInv, ServiceRowsOK, serviceTables
  <1>5. QED
    BY <1>3, <1>4, ServiceStartKeeps DEF serviceTables

LEMMA ServicesRequestKeeps ==
    ASSUME ServiceInv, NEW r \in Requests, ServicesRequest(r)
    PROVE  ServiceInv'
  <1>0. /\ HttpInv /\ TxnsOK /\ ServiceRowsOK /\ KnownServices \subseteq Creators /\ r # Nobody
        /\ DOMAIN pc = Requests /\ DOMAIN job = Requests /\ DOMAIN held = Requests
        /\ DOMAIN txn = Requests
    BY RequestConstants DEF ServiceInv, HttpInv, TxnsOK, KnownServices, Creators, Arrived
  <1>1. ASSUME NEW dto \in Drafts, Create(r, dto) PROVE ServiceInv'
    <2>1. PICK j : j = [op |-> "create", dto |-> dto]
      OBVIOUS
    <2>2. j \in ServiceJobs /\ j.op = "create"
      BY <2>1 DEF ServiceJobs
    <2>3. Starts(r, j) /\ pc'[r] = "answered" /\ pc[r] = "idle"
      BY <1>0, <1>1, <2>1 DEF Create, Starts, Serve, Arrive, Answers
    <2>4. ServiceWork(r)'
      BY <2>3 DEF ServiceWork, InProgress
    <2>5. CASE UNCHANGED serviceTables
      BY <2>2, <2>3, <2>4, <2>5, ServiceStartsQuietly
    <2>6. CASE ~UNCHANGED serviceTables
      <3> DEFINE new == {[service |-> r, district |-> d, fee |-> dto.list[d], by |-> r] :
                            d \in DOMAIN dto.list}
      <3>1. /\ DOMAIN dto.list \subseteq Districts
            /\ PutService(r, [order |-> IF dto.order = Nothing THEN 0 ELSE dto.order,
                              active |-> TRUE])
            /\ regions' = regions \cup new
            /\ PutSchedule(r, r) \/ UNCHANGED schedules
            /\ txn' = txn
        BY <1>1, <2>6 DEF Create
      <3>2. dto.order \in Nat \cup {Nothing} /\ \A d \in DOMAIN dto.list : dto.list[d] \in Nat
        BY CatalogConstants DEF ServiceDto, RegionFees
      <3>3. /\ DOMAIN services' = DOMAIN services \cup {r}
            /\ \A s \in DOMAIN services' : services'[s] \in ServiceRows
            /\ DOMAIN schedules' \subseteq DOMAIN schedules \cup {r}
        BY <1>0, <3>1, <3>2 DEF PutService, PutSchedule, ServiceRowsOK, ServiceRows
      <3>4. new \subseteq RegionRows /\ \A x \in new : x.service = r
        BY <3>1, <3>2 DEF RegionRows, Creators
      <3>5. OnePerDistrict(new)
        BY DEF OnePerDistrict, SameKey
      <3>6. r \notin DOMAIN services
        BY <1>0, <2>3 DEF ServiceInv, Arrived
      <3> HIDE DEF new
      <3>7. ServiceRowsOK'
        BY <1>0, <3>1, <3>3, <3>4 DEF ServiceRowsOK
      <3>8. OnePerDistrict(regions)'
        <4>1. \A x \in regions, y \in new : ~SameKey(x, y) /\ ~SameKey(y, x)
          BY <1>0, <3>4, <3>6 DEF ServiceRowsOK, SameKey
        <4>2. QED
          BY <1>0, <3>1, <3>5, <4>1 DEF OnePerDistrict, TxnsOK, SameKey
      <3>9. ASSUME NEW q \in Requests \ {r}, txn[q] # Nothing
            PROVE  OnePerDistrict(After(q))'
        <4>1. OnePerDistrict(After(q)) /\ Target(q) \in DOMAIN services
          BY <1>0, <3>9, OpenTransaction DEF TxnsOK, TxnOK
        <4>2. After(q)' \subseteq After(q) \cup new
          BY <3>1 DEF After
        <4>3. \A x \in After(q), y \in new : ~SameKey(x, y) /\ ~SameKey(y, x)
          <5>1. \A x \in After(q) : x.service \in DOMAIN services
            BY <1>0, <3>9, <4>1 DEF After, ServiceRowsOK, TxnsOK, TxnOK
          <5>2. QED
            BY <3>4, <3>6, <5>1 DEF SameKey
        <4>4. QED
          BY <3>5, <4>1, <4>2, <4>3 DEF OnePerDistrict, SameKey
      <3>10. TxnOK(r)'
        BY <1>0, <2>3, <3>1 DEF TxnsOK, TxnOK, InProgress
      <3>11. txn'[r] = Nothing
        BY <2>3, <3>10 DEF TxnOK, InProgress
      <3>12. TxnsOK'
        BY <1>0, <2>3, <3>1, <3>8, <3>9, <3>10, <3>11, TxnsOfOthers
      <3>13. QED
        BY <2>2, <2>3, <2>4, <3>3, <3>7, <3>12, ServiceStartKeeps
    <2>7. QED
      BY <2>5, <2>6
  <1>2. ASSUME NEW s \in KnownServices, NEW dto \in Changes, Update(r, s, dto) PROVE ServiceInv'
    <2>1. PICK j : j = [op |-> "update", service |-> s, dto |-> dto]
      OBVIOUS
    <2>2. j \in ServiceJobs /\ j.op = "update" /\ j.service = s /\ j.dto = dto
      BY <1>0, <2>1 DEF ServiceJobs
    <2>3. CASE UNCHANGED serviceTables /\ pc'[r] = "answered"
      <3>1. Starts(r, j)
        BY <1>2, <2>1, <2>3, <1>0
           DEF Update, Starts, Serve, Arrive, Answers, Begin, RegionPart, SchedulePart
      <3>2. ServiceWork(r)'
        BY <2>3 DEF ServiceWork, InProgress
      <3>3. QED
        BY <2>2, <2>3, <3>1, <3>2, ServiceStartsQuietly
    <2>4. CASE /\ s \in DOMAIN services
               /\ \E part \in {"columns", RegionPart("update", dto)} : Begin(r, j, part, Nothing)
               /\ txn' = [txn EXCEPT ![r] = NoWrites]
               /\ UNCHANGED <<services, regions, schedules>>
      <3>1. PICK part \in {"columns", RegionPart("update", dto)} : Begin(r, j, part, Nothing)
        BY <2>4
      <3>2. /\ part \in {"columns", "snapshot", "findSchedule", "finish"}
            /\ part = "snapshot" => dto.list # Nothing
        BY <3>1 DEF RegionPart, SchedulePart
      <3>3. Starts(r, j) /\ pc'[r] = part /\ job'[r] = j /\ pc[r] = "idle"
        BY <1>0, <3>1, <3>2 DEF Begin, Arrive, Starts
      <3>4. ServiceWork(r)'
        <4>1. Target(r)' = s /\ ListOf(r)' = dto.list /\ job'[r].op \in Writers /\ services' = services
          BY <2>2, <2>4, <3>3 DEF Target, Creates, Writers, ListOf
        <4>2. /\ Target(r)' \in DOMAIN services' /\ pc'[r] \notin {"max", "insertService"}
              /\ pc'[r] \notin {"delete", "insert", "setActive", "load", "write"}
              /\ pc'[r] = "snapshot" => ListOf(r)' # Nothing
          BY <2>4, <3>2, <3>3, <4>1
        <4>3. QED
          BY <4>1, <4>2 DEF ServiceWork
      <3>5. NoWrites \in Transactions /\ txn'[r] = NoWrites /\ txn'[r] # Nothing
        <4>1. NoWrites \in Transactions
          BY DEF NoWrites, Transactions
        <4>2. txn'[r] = NoWrites
          BY <1>0, <2>4
        <4>3. QED
          BY <4>1, <4>2, NothingIsNoTransaction
      <3>6. txn'[r].new = {} /\ txn'[r].gone = {}
        BY <3>5 DEF NoWrites
      <3>7. OnePerDistrict(regions)' /\ OnePerDistrict(After(r))'
        BY <1>0, <2>4, <3>6 DEF After, OnePerDistrict, TxnsOK
      <3>8. \A q \in Requests \ {r} : txn[q] # Nothing => OnePerDistrict(After(q))'
        BY <1>0, <2>4 DEF TxnsOK, TxnOK, OnePerDistrict, After
      <3>9. TxnOK(r)'
        BY <2>2, <3>2, <3>3, <3>5, <3>6, <3>7 DEF TxnOK, InProgress, Transactional
      <3>10. TxnsOK'
        BY <1>0, <2>4, <3>3, <3>6, <3>7, <3>8, <3>9, TxnsOfOthers DEF Apart
      <3>11. ServiceRowsOK'
        BY <1>0, <2>4 DEF ServiceRowsOK
      <3>12. QED
        BY <2>2, <2>4, <3>3, <3>4, <3>10, <3>11, ServiceStartKeeps
    <2>5. QED
      BY <1>0, <1>2, <2>1, <2>3, <2>4 DEF Update, Serve, Arrive
  <1>3. ASSUME NEW s \in KnownServices, NEW op \in {"delete", "toggle"}, SetActive(r, s, op)
        PROVE  ServiceInv'
    <2>1. PICK j : j = [op |-> op, service |-> s]
      OBVIOUS
    <2>2. j \in ServiceJobs /\ j.op = op /\ j.service = s
      BY <1>0, <2>1 DEF ServiceJobs
    <2>3. /\ Starts(r, j) /\ UNCHANGED serviceTables /\ job'[r] = j
          /\ \/ pc'[r] = "answered"
             \/ /\ pc'[r] = "setActive" /\ s \in DOMAIN services
                /\ held'[r] = [active |-> op = "toggle" /\ ~services[s].active]
      BY <1>0, <1>3, <2>1 DEF SetActive, Starts, Begin, Serve, Arrive, Answers
    <2>4. pc'[r] # "answered" => held'[r].active \in BOOLEAN
      <3> SUFFICES ASSUME pc'[r] # "answered" PROVE held'[r].active \in BOOLEAN
        OBVIOUS
      <3>1. held'[r].active = (op = "toggle" /\ ~services[s].active)
        BY <2>3
      <3>2. QED
        BY <3>1
    <2>5. ServiceWork(r)'
      BY <2>2, <2>3, <2>4 DEF ServiceWork, InProgress, Target, Creates, EarlyParts, serviceTables
    <2>6. QED
      BY <2>2, <2>3, <2>5, ServiceStartsQuietly
  <1>4. QED
    BY <1>1, <1>2, <1>3 DEF ServicesRequest

LEMMA AdminServicesRequestKeeps ==
    ASSUME ServiceInv, NEW r \in Requests, AdminServicesRequest(r)
    PROVE  ServiceInv'
  <1>0. /\ HttpInv /\ TxnsOK /\ ServiceRowsOK /\ KnownServices \subseteq Creators
        /\ DOMAIN pc = Requests /\ DOMAIN job = Requests /\ DOMAIN held = Requests
    BY DEF ServiceInv, HttpInv, KnownServices, Creators, Arrived
  <1>1. ASSUME NEW dto \in Drafts, AdminCreate(r, dto) PROVE ServiceInv'
    <2>1. PICK j : j = [op |-> "adminCreate", dto |-> dto]
      OBVIOUS
    <2>2. j \in ServiceJobs /\ j.op = "adminCreate"
      BY <2>1 DEF ServiceJobs
    <2>3. /\ Starts(r, j) /\ UNCHANGED serviceTables /\ job'[r] = j
          /\ \/ pc'[r] \in {"answered", "max"}
             \/ pc'[r] = "insertService" /\ dto.order # Nothing /\ held'[r] = [order |-> dto.order]
      BY <1>0, <1>1, <2>1 DEF AdminCreate, Starts, Begin, Serve, Arrive, Answers
    <2>4. dto.order \in Nat \cup {Nothing}
      BY CatalogConstants DEF ServiceDto
    <2>5. ServiceWork(r)'
      BY <2>2, <2>3, <2>4 DEF ServiceWork, InProgress, EarlyParts
    <2>6. QED
      BY <2>2, <2>3, <2>5, ServiceStartsQuietly
  <1>2. ASSUME NEW s \in KnownServices, NEW dto \in Changes, AdminUpdate(r, s, dto)
        PROVE  ServiceInv'
    <2>1. PICK j : j = [op |-> "adminUpdate", service |-> s, dto |-> dto]
      OBVIOUS
    <2>2. j \in ServiceJobs /\ j.op = "adminUpdate" /\ j.service = s
      BY <1>0, <2>1 DEF ServiceJobs
    <2>3. /\ Starts(r, j) /\ UNCHANGED serviceTables /\ job'[r] = j
          /\ \/ pc'[r] = "answered"
             \/ pc'[r] = "load" /\ s \in DOMAIN services /\ held'[r] = Loaded(s)
      BY <1>0, <1>2, <2>1 DEF AdminUpdate, Starts, Begin, Serve, Arrive, Answers
    <2>4. s \in DOMAIN services => Loaded(s).row \in ServiceRows
      BY <1>0 DEF ServiceRowsOK, Loaded
    <2>5. ServiceWork(r)'
      BY <2>2, <2>3, <2>4 DEF ServiceWork, InProgress, Target, Creates, EarlyParts, serviceTables
    <2>6. QED
      BY <2>2, <2>3, <2>5, ServiceStartsQuietly
  <1>3. ASSUME NEW s \in KnownServices, AdminDelete(r, s) PROVE ServiceInv'
    <2>1. PICK j : j = [op |-> "adminDelete", service |-> s]
      OBVIOUS
    <2>2. j \in ServiceJobs /\ j.op = "adminDelete" /\ j.service = s
      BY <1>0, <2>1 DEF ServiceJobs
    <2>3. /\ Starts(r, j) /\ UNCHANGED serviceTables /\ job'[r] = j
          /\ \/ pc'[r] = "answered"
             \/ /\ pc'[r] = "load" /\ s \in DOMAIN services
                /\ held'[r] = [Loaded(s) EXCEPT !.row.active = FALSE]
      BY <1>0, <1>3, <2>1 DEF AdminDelete, Starts, Begin, Serve, Arrive, Answers
    <2>4. s \in DOMAIN services => [Loaded(s) EXCEPT !.row.active = FALSE].row \in ServiceRows
      BY <1>0 DEF ServiceRowsOK, Loaded, ServiceRows
    <2>5. ServiceWork(r)'
      BY <2>2, <2>3, <2>4 DEF ServiceWork, InProgress, Target, Creates, EarlyParts, serviceTables
    <2>6. QED
      BY <2>2, <2>3, <2>5, ServiceStartsQuietly
  <1>4. QED
    BY <1>1, <1>2, <1>3 DEF AdminServicesRequest

\* A step that leaves the three tables alone, and the regions of its transaction.
LEMMA QuietStepKeeps ==
    ASSUME ServiceInv, NEW r \in Requests, Goes(r), UNCHANGED <<services, regions, schedules>>,
           \/ UNCHANGED txn /\ pc'[r] # "answered" /\ (pc'[r] \in EarlyParts => pc[r] \in EarlyParts)
           \/ UNCHANGED txn /\ txn[r] = Nothing
           \/ Rollback(r) /\ pc'[r] = "answered",
           ServiceWork(r)'
    PROVE  ServiceInv'
  <1>1. DOMAIN txn = Requests /\ (txn[r] # Nothing => txn[r] \in Transactions)
    BY OpenTransaction DEF ServiceInv, TxnsOK
  <1>2. TxnsOK'
    <2>1. CASE /\ UNCHANGED txn
               /\ \/ pc'[r] # "answered" /\ (pc'[r] \in EarlyParts => pc[r] \in EarlyParts)
                  \/ txn[r] = Nothing
      BY <1>1, <2>1, QuietTxns
    <2>2. CASE Rollback(r) /\ pc'[r] = "answered"
      <3>1. /\ DOMAIN txn' = Requests /\ txn'[r] = Nothing
            /\ \A q \in Requests \ {r} : txn'[q] = txn[q]
        BY <1>1, <2>2 DEF Rollback
      <3>2. QED
        BY <2>2, <3>1, QuietTxns
    <2>3. QED
      BY <2>1, <2>2
  <1>3. ServiceRowsOK'
    BY DEF ServiceInv, ServiceRowsOK
  <1>4. QED
    BY <1>2, <1>3, ServiceGoKeeps

LEMMA ViolationKeeps ==
    ASSUME ServiceInv, NEW r \in Requests, InProgress(r), Violation(r)
    PROVE  ServiceInv'
  <1>1. Goes(r) /\ pc'[r] = "answered"
    BY DEF Violation, Goes, Answer, Answers, ServiceInv, HttpInv
  <1>2. ServiceWork(r)'
    BY <1>1 DEF ServiceWork, InProgress
  <1>3. QED
    BY <1>1, <1>2, QuietStepKeeps DEF Violation

\* What is known of a request under way.
LEMMA UnderWay ==
    ASSUME ServiceInv, NEW r \in Requests, InProgress(r)
    PROVE  /\ HttpInv /\ TxnsOK /\ TxnOK(r) /\ ServiceRowsOK /\ ServiceWork(r)
           /\ DOMAIN pc = Requests /\ DOMAIN job = Requests /\ DOMAIN held = Requests
           /\ DOMAIN txn = Requests /\ job[r] \in ServiceJobs /\ r \in Arrived
           /\ r \in Creators /\ r # Nobody
           /\ DOMAIN services \subseteq Creators
  BY RequestConstants DEF ServiceInv, HttpInv, TxnsOK, Arrived, InProgress, Creators

\* The lists of regions give known districts a fee.
LEMMA NewRegionsAreRows ==
    ASSUME ServiceInv, NEW r \in Requests, InProgress(r), job[r].op \in Writers,
           ListOf(r) # Nothing, Target(r) \in DOMAIN services
    PROVE  \A d \in Districts \cap DOMAIN ListOf(r) :
              /\ NewRegion(r, d) \in RegionRows
              /\ NewRegion(r, d).service = Target(r) /\ NewRegion(r, d).district = d
  <1>1. job[r].dto \in Drafts \cup Changes
    BY UnderWay DEF ServiceJobs, Writers
  <1>2. \A d \in DOMAIN ListOf(r) : ListOf(r)[d] \in Nat
    BY <1>1, CatalogConstants DEF ServiceDto, RegionFees, ListOf
  <1>3. QED
    BY <1>2, UnderWay DEF NewRegion, RegionRows

LEMMA FindRegionsKeeps ==
    ASSUME ServiceInv, NEW r \in Requests,
           FindRegions(r) \/ FindSchedule(r) \/ FindMaxOrder(r) \/ LoadService(r)
    PROVE  ServiceInv'
  <1>0. InProgress(r) /\ Goes(r)
    BY DEF FindRegions, FindSchedule, FindMaxOrder, LoadService, At, Goes, InProgress, Continue
  <1>1. /\ UNCHANGED serviceTables /\ job' = job /\ pc'[r] # "answered"
        /\ pc'[r] \in EarlyParts => pc[r] \in EarlyParts
    BY <1>0, UnderWay
       DEF FindRegions, FindSchedule, FindMaxOrder, LoadService, At, Continue, EarlyParts
  <1>2. ServiceWork(r)'
    <2>1. Target(r)' = Target(r) /\ ListOf(r)' = ListOf(r) /\ services' = services
      BY <1>1 DEF Target, Creates, ListOf, serviceTables
    <2>2. CASE FindRegions(r) \/ FindSchedule(r)
      <3>1. /\ pc[r] \in {"snapshot", "findSchedule"} /\ pc'[r] \in {"delete", "writeSchedule"}
            /\ pc'[r] = "delete" => pc[r] = "snapshot"
        BY <1>0, <2>2, UnderWay DEF FindRegions, FindSchedule, Continue
      <3>2. Target(r) \in DOMAIN services /\ job[r].op \in Writers /\ (pc[r] = "snapshot" => ListOf(r) # Nothing)
        BY <1>0, <3>1, UnderWay DEF ServiceWork, EarlyParts
      <3>3. QED
        BY <1>1, <2>1, <3>1, <3>2 DEF ServiceWork
    <2>3. CASE FindMaxOrder(r)
      <3>1. pc'[r] = "insertService" /\ held'[r].order \in Nat /\ job[r].op = "adminCreate"
        BY <1>0, <2>3, UnderWay, MaxOrderIsHighest DEF FindMaxOrder, At, Continue
      <3>2. QED
        BY <1>1, <3>1 DEF ServiceWork, EarlyParts
    <2>4. CASE LoadService(r)
      <3>1. pc'[r] = "write" /\ held'[r].entity = held[r].row /\ pc[r] = "load"
        BY <1>0, <2>4, UnderWay DEF LoadService, Continue
      <3>2. Target(r) \in DOMAIN services /\ held[r].row \in ServiceRows
        BY <1>0, <3>1, UnderWay DEF ServiceWork
      <3>3. QED
        BY <1>1, <2>1, <3>1, <3>2 DEF ServiceWork, EarlyParts
    <2>5. QED
      BY <2>2, <2>3, <2>4
  <1>3. QED
    BY <1>0, <1>1, <1>2, QuietStepKeeps DEF serviceTables

\* A DELETE takes rows away, now or with its transaction.
LEMMA DeleteRegionsKeeps ==
    ASSUME ServiceInv, NEW r \in Requests, DeleteRegions(r)
    PROVE  ServiceInv'
  <1> DEFINE rows == held[r].rows \cap regions
  <1>0. InProgress(r) /\ Goes(r) /\ pc[r] = "delete"
    BY DEF DeleteRegions, Goes, InProgress, Continue
  <1>1. /\ UNCHANGED <<services, schedules>> /\ job' = job /\ pc'[r] = "insert"
        /\ held'[r] = [districts |-> DOMAIN ListOf(r)]
    BY <1>0, UnderWay DEF DeleteRegions, Continue
  <1>2. ServiceWork(r)'
    <2>1. Target(r)' = Target(r) /\ ListOf(r)' = ListOf(r)
      BY <1>1 DEF Target, Creates, ListOf
    <2>2. Target(r) \in DOMAIN services /\ job[r].op \in Writers /\ ListOf(r) # Nothing
      BY <1>0, UnderWay DEF ServiceWork, EarlyParts
    <2>3. QED
      BY <1>1, <2>1, <2>2 DEF ServiceWork
  <1>3. rows \subseteq regions /\ regions \subseteq RegionRows
    BY <1>0, UnderWay DEF ServiceRowsOK
  <1>4. regions' \subseteq regions
    BY DEF DeleteRegions
  <1>5. ServiceRowsOK'
    BY <1>0, <1>1, <1>4, UnderWay DEF ServiceRowsOK
  <1>6. OnePerDistrict(regions)'
    BY <1>0, <1>4, UnderWay DEF OnePerDistrict, TxnsOK
  <1>7. CASE Transactional(r)
    <2>1. txn' = [txn EXCEPT ![r].gone = rows] /\ regions' = regions
      BY <1>7 DEF DeleteRegions
    <2>2. txn[r] # Nothing /\ txn[r] \in Transactions /\ txn[r].new = {}
      BY <1>0, <1>7, UnderWay DEF TxnOK, EarlyParts
    <2>3. /\ DOMAIN txn' = Requests /\ \A q \in Requests \ {r} : txn'[q] = txn[q]
          /\ txn'[r] \in Transactions /\ txn'[r].new = {} /\ txn'[r] # Nothing
      <3>1. DOMAIN txn' = Requests /\ \A q \in Requests \ {r} : txn'[q] = txn[q]
        BY <1>0, <2>1, UnderWay
      <3>2. txn'[r] = [txn[r] EXCEPT !.gone = rows]
        BY <1>0, <2>1, UnderWay
      <3>3. txn'[r] \in Transactions /\ txn'[r].new = {}
        BY <1>3, <2>2, <3>2 DEF Transactions
      <3>4. QED
        BY <3>1, <3>3, NothingIsNoTransaction
    <2>4. OnePerDistrict(After(r))'
      BY <1>6, <2>3 DEF OnePerDistrict, After
    <2>5. \A q \in Requests \ {r} : txn[q] # Nothing => OnePerDistrict(After(q))'
      BY <1>0, <2>1, <2>3, UnderWay DEF TxnsOK, TxnOK, OnePerDistrict, After
    <2>6. TxnOK(r)'
      BY <1>1, <1>7, <2>3, <2>4 DEF TxnOK, InProgress, Transactional
    <2>7. TxnsOK'
      BY <1>0, <1>6, <2>3, <2>5, <2>6, UnderWay, TxnsOfOthers DEF Apart
    <2>8. QED
      BY <1>0, <1>1, <1>2, <1>5, <2>7, ServiceGoKeeps
  <1>8. CASE ~Transactional(r)
    <2>1. txn' = txn
      BY <1>8 DEF DeleteRegions
    <2>2. txn[r] = Nothing
      BY <1>0, <1>8, UnderWay DEF TxnOK
    <2>3. \A q \in Requests \ {r} : txn[q] # Nothing => OnePerDistrict(After(q))'
      BY <1>0, <1>4, <2>1, UnderWay DEF TxnsOK, TxnOK, OnePerDistrict, After
    <2>4. TxnOK(r)'
      BY <1>1, <1>8, <2>1, <2>2 DEF TxnOK, Transactional
    <2>5. TxnsOK'
      BY <1>0, <1>6, <2>1, <2>2, <2>3, <2>4, UnderWay, TxnsOfOthers
    <2>6. QED
      BY <1>0, <1>1, <1>2, <1>5, <2>5, ServiceGoKeeps
  <1>9. QED
    BY <1>7, <1>8

\* The parts that follow the regions.
LEMMA PartsAfterRegions ==
    ASSUME NEW r
    PROVE  AfterRegions(r) \in {"findSchedule", "writeSchedule", "finish"}
  BY DEF AfterRegions, SchedulePart

\* An INSERT in a transaction gets by only with keys that neither stay there nor may
\* come or go with another transaction.
LEMMA InsertRegionsKeeps ==
    ASSUME ServiceInv, NEW r \in Requests, InsertRegions(r)
    PROVE  ServiceInv'
  <1> DEFINE new == {NewRegion(r, d) : d \in held[r].districts}
  <1>0. InProgress(r) /\ pc[r] = "insert" /\ Transactional(r)
    BY DEF InsertRegions, InProgress
  <1>1. /\ Target(r) \in DOMAIN services /\ job[r].op \in Writers /\ ListOf(r) # Nothing
        /\ held[r].districts \subseteq DOMAIN ListOf(r)
        /\ txn[r] # Nothing /\ txn[r] \in Transactions
    BY <1>0, UnderWay DEF ServiceWork, EarlyParts, TxnOK
  <1>2. CASE Violation(r)
    BY <1>0, <1>2, ViolationKeeps
  <1>3. CASE /\ held[r].districts \subseteq Districts
             /\ \A d \in held[r].districts : ~Taken(r, d) /\ ~InDoubt(r, d)
             /\ txn' = [txn EXCEPT ![r].new = new]
             /\ Continue(r, AfterRegions(r), Nothing)
             /\ UNCHANGED <<services, regions, schedules>>
    <2>1. /\ Goes(r) /\ pc'[r] = AfterRegions(r) /\ job' = job
          /\ pc'[r] \in {"findSchedule", "writeSchedule", "finish"}
      BY <1>0, <1>3, UnderWay, PartsAfterRegions DEF Goes, Continue
    <2>2. ServiceWork(r)'
      <3>1. Target(r)' = Target(r) /\ ListOf(r)' = ListOf(r)
        BY <2>1 DEF Target, Creates, ListOf
      <3>2. QED
        BY <1>1, <1>3, <2>1, <3>1 DEF ServiceWork
    <2>3. /\ new \subseteq RegionRows
          /\ \A x \in new : x.service = Target(r) /\ x.district \in held[r].districts
          /\ OnePerDistrict(new)
      <3>1. \A d \in held[r].districts :
               /\ NewRegion(r, d) \in RegionRows
               /\ NewRegion(r, d).service = Target(r) /\ NewRegion(r, d).district = d
        BY <1>0, <1>1, <1>3, NewRegionsAreRows
      <3>2. QED
        BY <3>1 DEF OnePerDistrict, SameKey
    <2>4. /\ DOMAIN txn' = Requests /\ \A q \in Requests \ {r} : txn'[q] = txn[q]
          /\ txn'[r] \in Transactions /\ txn'[r].new = new /\ txn'[r].gone = txn[r].gone
          /\ txn'[r] # Nothing
      <3> HIDE DEF new
      <3>1. DOMAIN txn' = Requests /\ \A q \in Requests \ {r} : txn'[q] = txn[q]
        BY <1>0, <1>3, UnderWay
      <3>2. txn'[r] = [txn[r] EXCEPT !.new = new]
        BY <1>0, <1>3, UnderWay
      <3>3. txn'[r] \in Transactions /\ txn'[r].new = new /\ txn'[r].gone = txn[r].gone
        BY <1>1, <2>3, <3>2 DEF Transactions
      <3>4. QED
        BY <3>1, <3>3, NothingIsNoTransaction
    <2> HIDE DEF new
    <2>5. \A x \in new, y \in regions \ txn[r].gone : ~SameKey(x, y) /\ ~SameKey(y, x)
      <3> SUFFICES ASSUME NEW x \in new, NEW y \in regions \ txn[r].gone,
                          y.service = x.service, y.district = x.district
                   PROVE  FALSE
        BY DEF SameKey
      <3>1. y \in RegionsOf(Target(r)) /\ x.district \in held[r].districts
        BY <2>3 DEF RegionsOf
      <3>2. ~Taken(r, x.district) /\ ~InDoubt(r, x.district)
        BY <1>3, <3>1
      <3>3. y \notin BeingDeleted(r, Target(r))
        BY <3>2 DEF InDoubt
      <3>4. QED
        BY <1>1, <3>1, <3>2, <3>3 DEF Taken
    <2>6. OnePerDistrict(regions)' /\ OnePerDistrict(After(r))'
      <3>1. OnePerDistrict(regions)
        BY <1>0, UnderWay DEF TxnsOK
      <3>2. QED
        BY <1>3, <2>3, <2>4, <2>5, <3>1 DEF After, OnePerDistrict, SameKey
    <2>7. \A q \in Requests \ {r} : txn[q] # Nothing => OnePerDistrict(After(q))'
      BY <1>0, <1>3, <2>4, UnderWay DEF TxnsOK, TxnOK, OnePerDistrict, After
    <2>8. TxnOK(r)'
      <3>1. InProgress(r)' /\ Transactional(r)' /\ pc'[r] \notin EarlyParts /\ Target(r)' = Target(r)
        BY <1>0, <2>1 DEF InProgress, Transactional, EarlyParts, Target, Creates
      <3>2. QED
        BY <2>3, <2>4, <2>6, <3>1 DEF TxnOK
    <2>9. ASSUME NEW q \in Requests \ {r}, txn[q] # Nothing
          PROVE  Apart(q, r)' /\ Apart(r, q)'
      <3> SUFFICES ASSUME NEW x \in new, NEW y \in txn[q].new,
                          y.service = x.service, y.district = x.district
                   PROVE  FALSE
        BY <2>4 DEF Apart, SameKey
      <3>1. Target(q) = Target(r)
        BY <1>0, <2>3, <2>9, UnderWay DEF TxnsOK, TxnOK
      <3>2. y \in BeingInserted(r, Target(r))
        BY <2>9, <3>1 DEF BeingInserted, OthersOn
      <3>3. InDoubt(r, x.district)
        BY <3>2 DEF InDoubt
      <3>4. QED
        BY <1>3, <2>3, <3>3
    <2>10. TxnsOK'
      BY <1>0, <2>1, <2>4, <2>6, <2>7, <2>8, <2>9, UnderWay, TxnsOfOthers
    <2>11. ServiceRowsOK'
      BY <1>0, <1>3, UnderWay DEF ServiceRowsOK
    <2>12. QED
      BY <1>3, <2>1, <2>2, <2>10, <2>11, ServiceGoKeeps
  <1>4. QED
    BY <1>2, <1>3 DEF InsertRegions

\* The other writer inserts a district at a time, under the same conditions.
LEMMA InsertRegionKeeps ==
    ASSUME ServiceInv, NEW r \in Requests, pc[r] = "insert", NEW d \in held[r].districts,
           InsertRegion(r, d)
    PROVE  ServiceInv'
  <1> DEFINE new == {NewRegion(r, e) : e \in {d} \cap Districts}
  <1>0. InProgress(r) /\ ~Transactional(r)
    BY DEF InsertRegion, InProgress
  <1>1. /\ Target(r) \in DOMAIN services /\ job[r].op \in Writers /\ ListOf(r) # Nothing
        /\ held[r].districts \subseteq DOMAIN ListOf(r)
        /\ txn[r] = Nothing
    BY <1>0, UnderWay DEF ServiceWork, EarlyParts, TxnOK
  <1>2. CASE Violation(r)
    BY <1>0, <1>2, ViolationKeeps
  <1>3. CASE /\ d \in Districts => ~Taken(r, d) /\ ~InDoubt(r, d)
             /\ regions' = regions \cup new
             /\ IF held[r].districts = {d}
                   THEN Continue(r, AfterRegions(r), [found |-> FALSE])
                   ELSE Continue(r, "insert", [districts |-> held[r].districts \ {d}])
             /\ UNCHANGED <<services, schedules, txn>>
    <2>1. /\ Goes(r) /\ job' = job
          /\ pc'[r] \in {"insert", "findSchedule", "writeSchedule", "finish"}
          /\ pc'[r] = "insert" => held'[r].districts \subseteq held[r].districts
      BY <1>0, <1>3, UnderWay, PartsAfterRegions DEF Goes, Continue
    <2>2. ServiceWork(r)'
      <3>1. Target(r)' = Target(r) /\ ListOf(r)' = ListOf(r)
        BY <2>1 DEF Target, Creates, ListOf
      <3>2. QED
        BY <1>1, <1>3, <2>1, <3>1 DEF ServiceWork
    <2>3. /\ new \subseteq RegionRows
          /\ \A x \in new : x.service = Target(r) /\ x.district = d /\ d \in Districts
          /\ OnePerDistrict(new)
      <3>1. d \in Districts =>
               /\ NewRegion(r, d) \in RegionRows
               /\ NewRegion(r, d).service = Target(r) /\ NewRegion(r, d).district = d
        BY <1>0, <1>1, <1>3, NewRegionsAreRows
      <3>2. QED
        BY <3>1 DEF OnePerDistrict, SameKey
    <2> HIDE DEF new
    <2>4. \A x \in new, y \in regions : ~SameKey(x, y) /\ ~SameKey(y, x)
      <3> SUFFICES ASSUME NEW x \in new, NEW y \in regions,
                          y.service = x.service, y.district = x.district
                   PROVE  FALSE
        BY DEF SameKey
      <3>1. y \in RegionsOf(Target(r)) /\ y.district = d
        BY <2>3 DEF RegionsOf
      <3>2. ~Taken(r, d) /\ ~InDoubt(r, d)
        BY <1>3, <2>3
      <3>3. y \notin BeingDeleted(r, Target(r))
        BY <3>1, <3>2 DEF InDoubt
      <3>4. QED
        BY <1>1, <3>1, <3>2, <3>3 DEF Taken
    <2>5. OnePerDistrict(regions)'
      <3>1. OnePerDistrict(regions)
        BY <1>0, UnderWay DEF TxnsOK
      <3>2. QED
        BY <1>3, <2>3, <2>4, <3>1 DEF OnePerDistrict, SameKey
    <2>6. ASSUME NEW q \in Requests \ {r}, txn[q] # Nothing
          PROVE  OnePerDistrict(After(q))'
      <3>1. \A x \in new, y \in txn[q].new : ~SameKey(x, y) /\ ~SameKey(y, x)
        <4> SUFFICES ASSUME NEW x \in new, NEW y \in txn[q].new,
                            y.service = x.service, y.district = x.district
                     PROVE  FALSE
          BY DEF SameKey
        <4>1. Target(q) = Target(r) /\ y.district = d
          BY <1>0, <2>3, <2>6, UnderWay DEF TxnsOK, TxnOK
        <4>2. y \in BeingInserted(r, Target(r))
          BY <2>6, <4>1 DEF BeingInserted, OthersOn
        <4>3. InDoubt(r, d)
          BY <4>1, <4>2 DEF InDoubt
        <4>4. QED
          BY <1>3, <2>3, <4>3
      <3>2. After(q)' \subseteq After(q) \cup new /\ OnePerDistrict(After(q))
        BY <1>0, <1>3, <2>6, UnderWay DEF After, TxnsOK, TxnOK
      <3>3. \A x \in new, y \in After(q) : ~SameKey(x, y) /\ ~SameKey(y, x)
        BY <2>4, <3>1 DEF After
      <3>4. QED
        BY <2>3, <3>2, <3>3 DEF OnePerDistrict, SameKey
    <2>7. TxnOK(r)'
      BY <1>0, <1>1, <1>3, <2>1 DEF TxnOK, Transactional
    <2>8. TxnsOK'
      BY <1>0, <1>1, <1>3, <2>1, <2>5, <2>6, <2>7, UnderWay, TxnsOfOthers
    <2>9. ServiceRowsOK'
      BY <1>0, <1>1, <1>3, <2>3, UnderWay DEF ServiceRowsOK
    <2>10. QED
      BY <1>3, <2>1, <2>2, <2>8, <2>9, ServiceGoKeeps
  <1>4. QED
    BY <1>2, <1>3 DEF InsertRegion

LEMMA WriteScheduleKeeps ==
    ASSUME ServiceInv, NEW r \in Requests, WriteSchedule(r) \/ UpdateColumns(r)
    PROVE  ServiceInv'
  <1>0. InProgress(r) /\ pc[r] \in {"writeSchedule", "columns"}
    BY DEF WriteSchedule, UpdateColumns, At, InProgress
  <1>1. /\ Target(r) \in DOMAIN services /\ job[r].op \in Writers
        /\ txn[r] # Nothing <=> Transactional(r)
        /\ txn[r] # Nothing => txn[r] \in Transactions
    BY <1>0, UnderWay DEF ServiceWork, EarlyParts, TxnOK
  <1>2. CASE Violation(r)
    BY <1>0, <1>2, ViolationKeeps
  <1>3. CASE WriteSchedule(r) /\ ~Violation(r)
    <2>1. Goes(r) /\ pc'[r] = "finish" /\ job' = job /\ UNCHANGED <<services, regions>>
      BY <1>0, <1>3, UnderWay DEF WriteSchedule, Goes, Continue
    <2>2. ServiceWork(r)'
      <3>1. Target(r)' = Target(r)
        BY <2>1 DEF Target, Creates
      <3>2. QED
        BY <1>1, <2>1, <3>1 DEF ServiceWork
    <2>3. /\ DOMAIN schedules' \subseteq DOMAIN services
          /\ \/ txn' = txn /\ ~Transactional(r)
             \/ Transactional(r) /\ txn' = [txn EXCEPT ![r].scheduled = TRUE]
      BY <1>0, <1>1, <1>3, UnderWay DEF WriteSchedule, PutSchedule, ServiceRowsOK
    <2>4. /\ DOMAIN txn' = Requests /\ \A q \in Requests \ {r} : txn'[q] = txn[q]
          /\ txn[r] = Nothing => txn'[r] = Nothing
          /\ txn[r] # Nothing => /\ txn'[r] \in Transactions
                                 /\ txn'[r].gone = txn[r].gone /\ txn'[r].new = txn[r].new
      <3>1. CASE txn' = txn /\ ~Transactional(r)
        BY <1>0, <1>1, <3>1, UnderWay
      <3>2. CASE Transactional(r) /\ txn' = [txn EXCEPT ![r].scheduled = TRUE]
        <4>1. DOMAIN txn' = Requests /\ \A q \in Requests \ {r} : txn'[q] = txn[q]
          BY <1>0, <3>2, UnderWay
        <4>2. txn'[r] = [txn[r] EXCEPT !.scheduled = TRUE]
          BY <1>0, <3>2, UnderWay
        <4>3. QED
          BY <1>1, <3>2, <4>1, <4>2 DEF Transactions
      <3>3. QED
        BY <2>3, <3>1, <3>2
    <2>5. TxnsOK'
      BY <2>1, <2>4, QuietTxns DEF EarlyParts
    <2>6. ServiceRowsOK'
      BY <1>0, <2>1, <2>3, UnderWay DEF ServiceRowsOK
    <2>7. QED
      BY <2>1, <2>2, <2>5, <2>6, ServiceGoKeeps
  <1>4. CASE UpdateColumns(r)
    <2> DEFINE dto == job[r].dto
    <2>1. /\ Goes(r) /\ pc'[r] = RegionPart("update", dto) /\ job' = job
          /\ UNCHANGED <<services, regions, schedules>>
          /\ pc[r] = "columns" /\ Transactional(r) /\ txn' = [txn EXCEPT ![r].locked = TRUE]
      BY <1>0, <1>4, UnderWay DEF UpdateColumns, Goes, Continue, At, Transactional, RegionPart,
                                  SchedulePart
    <2>2. /\ pc'[r] \in {"snapshot", "findSchedule", "finish"}
          /\ pc'[r] = "snapshot" => ListOf(r) # Nothing
      BY <2>1 DEF RegionPart, SchedulePart, ListOf
    <2>3. ServiceWork(r)'
      <3>1. Target(r)' = Target(r) /\ ListOf(r)' = ListOf(r)
        BY <2>1 DEF Target, Creates, ListOf
      <3>2. QED
        BY <1>1, <2>1, <2>2, <3>1 DEF ServiceWork
    <2>4. /\ DOMAIN txn' = Requests /\ \A q \in Requests \ {r} : txn'[q] = txn[q]
          /\ txn'[r] \in Transactions
          /\ txn'[r].gone = txn[r].gone /\ txn'[r].new = txn[r].new
      <3>1. DOMAIN txn' = Requests /\ \A q \in Requests \ {r} : txn'[q] = txn[q]
        BY <1>0, <2>1, UnderWay
      <3>2. txn'[r] = [txn[r] EXCEPT !.locked = TRUE]
        BY <1>0, <2>1, UnderWay
      <3>3. QED
        BY <1>1, <2>1, <3>1, <3>2 DEF Transactions
    <2>5. TxnsOK'
      BY <1>1, <2>1, <2>2, <2>4, QuietTxns DEF EarlyParts
    <2>6. ServiceRowsOK'
      BY <1>0, <2>1, UnderWay DEF ServiceRowsOK
    <2>7. QED
      BY <2>1, <2>3, <2>5, <2>6, ServiceGoKeeps
  <1>5. QED
    BY <1>2, <1>3, <1>4

\* What a COMMIT brings was apart from what the other transactions bring.
LEMMA FinishKeeps ==
    ASSUME ServiceInv, NEW r \in Requests, Finish(r)
    PROVE  ServiceInv'
  <1>0. InProgress(r) /\ Goes(r) /\ pc[r] = "finish" /\ pc'[r] = "answered"
    BY DEF Finish, InProgress, Goes, Answer, Answers, ServiceInv, HttpInv
  <1>1. ServiceWork(r)'
    BY <1>0 DEF ServiceWork, InProgress
  <1>2. /\ Target(r) \in DOMAIN services /\ job[r].op \in Writers
        /\ txn[r] # Nothing <=> Transactional(r)
        /\ txn[r] # Nothing => txn[r] \in Transactions
    BY <1>0, UnderWay DEF ServiceWork, EarlyParts, TxnOK
  <1>3. CASE ~Transactional(r)
    BY <1>0, <1>1, <1>2, <1>3, QuietStepKeeps DEF Finish, serviceTables
  <1>4. CASE Transactional(r)
    <2> DEFINE s == Target(r)
    <2>1. Committed(r) /\ Rollback(r)
      BY <1>4 DEF Finish
    <2>2. /\ DOMAIN txn' = Requests /\ txn'[r] = Nothing
          /\ \A q \in Requests \ {r} : txn'[q] = txn[q]
      BY <1>0, <2>1, UnderWay DEF Rollback
    <2>3. regions' = After(r) /\ OnePerDistrict(After(r))
      BY <1>0, <1>2, <1>4, <2>1, UnderWay DEF Committed, After, TxnOK
    <2>4. OnePerDistrict(regions)'
      BY <2>3 DEF OnePerDistrict
    <2>5. ASSUME NEW q \in Requests \ {r}, txn[q] # Nothing
          PROVE  OnePerDistrict(After(q))'
      <3>1. After(q)' = (After(r) \ txn[q].gone) \cup txn[q].new
        BY <2>2, <2>3 DEF After
      <3>2. Apart(q, r) /\ Apart(r, q) /\ OnePerDistrict(After(q))
        BY <1>0, <1>2, <1>4, <2>5, UnderWay DEF TxnsOK, TxnOK
      <3>3. \A x \in txn[q].new, y \in After(r) \ txn[q].gone :
               (SameKey(x, y) => x = y) /\ (SameKey(y, x) => x = y)
        BY <3>2 DEF Apart, After, OnePerDistrict
      <3>4. \A x, y \in txn[q].new : SameKey(x, y) => x = y
        BY <3>2 DEF OnePerDistrict, After
      <3>5. QED
        BY <2>3, <3>1, <3>3, <3>4 DEF OnePerDistrict, SameKey
    <2>6. TxnOK(r)'
      BY <1>0, <2>2 DEF TxnOK, InProgress
    <2>7. TxnsOK'
      BY <1>0, <2>2, <2>4, <2>5, <2>6, UnderWay, TxnsOfOthers
    <2>8. /\ DOMAIN services' = DOMAIN services
          /\ \A t \in DOMAIN services' : services'[t] \in ServiceRows
      <3>1. job[r].dto \in Drafts \cup Changes
        BY <1>0, <1>2, UnderWay DEF ServiceJobs, Writers
      <3>2. job[r].dto.order \in Nat \cup {Nothing}
        BY <3>1, CatalogConstants DEF ServiceDto
      <3>3. \A t \in DOMAIN services : services[t] \in ServiceRows
        BY <1>0, UnderWay DEF ServiceRowsOK
      <3>4. CASE job[r].dto.order = Nothing
        BY <2>1, <3>3, <3>4 DEF Committed
      <3>5. CASE job[r].dto.order # Nothing
        <4>1. PutService(s, [services[s] EXCEPT !.order = job[r].dto.order])
          BY <2>1, <3>5 DEF Committed
        <4>2. [services[s] EXCEPT !.order = job[r].dto.order] \in ServiceRows
          BY <1>2, <3>2, <3>3, <3>5 DEF ServiceRows
        <4>3. QED
          BY <1>2, <3>3, <4>1, <4>2 DEF PutService
      <3>6. QED
        BY <3>4, <3>5
    <2>9. DOMAIN schedules' \subseteq DOMAIN services
      BY <1>0, <1>2, <2>1, UnderWay DEF Committed, PutSchedule, ServiceRowsOK
    <2>10. /\ regions' \subseteq RegionRows
           /\ \A x \in regions' : x.service \in DOMAIN services
      BY <1>0, <1>2, <1>4, <2>3, UnderWay DEF After, ServiceRowsOK, TxnOK, Transactions
    <2>11. ServiceRowsOK'
      BY <2>8, <2>9, <2>10 DEF ServiceRowsOK
    <2>12. QED
      BY <1>0, <1>1, <2>7, <2>8, <2>11, ServiceGoKeeps
  <1>5. QED
    BY <1>3, <1>4

LEMMA WriteServiceKeeps ==
    ASSUME ServiceInv, NEW r \in Requests,
           WriteActive(r) \/ InsertService(r) \/ WriteService(r)
    PROVE  ServiceInv'
  <1>0. InProgress(r) /\ pc[r] \in {"setActive", "insertService", "write"}
    BY DEF WriteActive, InsertService, WriteService, At, InProgress
  <1>1. /\ ServiceWork(r) /\ ServiceRowsOK /\ job[r] \in ServiceJobs
        /\ txn[r] # Nothing <=> Transactional(r)
    BY <1>0, UnderWay DEF TxnOK
  <1>2. CASE Violation(r)
    BY <1>0, <1>2, ViolationKeeps
  <1>3. CASE WriteActive(r)
    <2>1. PICK row : row = [services[Target(r)] EXCEPT !.active = held[r].active]
      OBVIOUS
    <2>2. /\ Goes(r) /\ pc'[r] = "answered" /\ UNCHANGED <<regions, schedules, txn>>
          /\ PutService(Target(r), row)
      BY <1>0, <1>3, <2>1, UnderWay DEF WriteActive, Goes, Answer, Answers
    <2>3. Target(r) \in DOMAIN services /\ held[r].active \in BOOLEAN
      BY <1>0, <1>1, <1>3 DEF ServiceWork, WriteActive
    <2>4. row \in ServiceRows
      BY <1>1, <2>1, <2>3 DEF ServiceRowsOK, ServiceRows
    <2>5. ServiceRowsOK' /\ DOMAIN services' = DOMAIN services
      BY <1>1, <2>2, <2>3, <2>4 DEF ServiceRowsOK, PutService
    <2>6. txn[r] = Nothing
      <3>1. job[r].op # "update"
        BY <1>0, <1>3, <1>1 DEF WriteActive, ServiceWork, ServiceJobs
      <3>2. QED
        BY <1>1, <3>1 DEF Transactional
    <2>7. TxnsOK' /\ ServiceWork(r)'
      BY <1>0, <2>2, <2>6, UnderWay, QuietTxns DEF ServiceWork, InProgress
    <2>8. QED
      BY <2>2, <2>5, <2>7, ServiceGoKeeps
  <1>4. CASE InsertService(r)
    <2>1. PICK row : row = [order |-> held[r].order, active |-> TRUE]
      OBVIOUS
    <2>2. /\ Goes(r) /\ pc'[r] = "snapshot" /\ UNCHANGED <<regions, schedules, txn>> /\ job' = job
          /\ PutService(r, row) /\ job[r].op = "adminCreate"
      BY <1>0, <1>4, <2>1, UnderWay DEF InsertService, Goes, Continue, At
    <2>3. row \in ServiceRows
      BY <1>0, <1>1, <1>4, <2>1 DEF ServiceWork, ServiceRows, InsertService, At
    <2>4. ServiceRowsOK' /\ DOMAIN services' = DOMAIN services \cup {r}
      BY <1>1, <2>2, <2>3 DEF ServiceRowsOK, PutService
    <2>5. txn[r] = Nothing
      BY <1>1, <2>2 DEF Transactional
    <2>6. TxnsOK'
      BY <1>0, <2>2, <2>5, UnderWay, QuietTxns
    <2>7. job[r].dto.list # Nothing
      BY <1>1, <2>2, CatalogConstants DEF ServiceJobs
    <2>8. ServiceWork(r)'
      BY <2>2, <2>4, <2>7 DEF ServiceWork, Target, Creates, ListOf, Writers
    <2>9. QED
      BY <2>2, <2>4, <2>6, <2>8, ServiceGoKeeps
  <1>5. CASE WriteService(r) /\ ~Violation(r)
    <2> DEFINE s == Target(r)
    <2>1. PICK row : row = Merge(services[s], held[r].entity, held[r].dirty)
      OBVIOUS
    <2>2. /\ Goes(r) /\ UNCHANGED <<regions, txn>> /\ job' = job
          /\ PutService(s, row)
          /\ UNCHANGED schedules \/ PutSchedule(s, held[r].schedule)
          /\ job[r].op \in {"adminUpdate", "adminDelete"}
          /\ \/ pc'[r] = "answered"
             \/ job[r].op = "adminUpdate" /\ pc'[r] = RegionPart("adminUpdate", job[r].dto)
      BY <1>0, <1>5, <2>1, UnderWay DEF WriteService, Goes, Continue, Answer, Answers, RegionPart,
                                        SchedulePart
    <2>3. s \in DOMAIN services /\ held[r].entity \in ServiceRows
      BY <1>0, <1>1, <1>5 DEF ServiceWork, WriteService
    <2>4. row \in ServiceRows
      BY <1>1, <2>1, <2>3 DEF ServiceRowsOK, ServiceRows, Merge
    <2>5. DOMAIN services' = DOMAIN services /\ DOMAIN schedules' \subseteq DOMAIN services
      BY <1>1, <2>2, <2>3 DEF ServiceRowsOK, PutService, PutSchedule
    <2>6. ServiceRowsOK'
      <3>1. \A t \in DOMAIN services' : services'[t] \in ServiceRows
        BY <1>1, <2>2, <2>4 DEF ServiceRowsOK, PutService
      <3>2. QED
        BY <1>1, <2>2, <2>5, <3>1 DEF ServiceRowsOK
    <2>7. txn[r] = Nothing
      BY <1>1, <2>2 DEF Transactional
    <2>8. TxnsOK'
      BY <1>0, <2>2, <2>7, UnderWay, QuietTxns
    <2>9. pc'[r] # "answered" =>
             /\ pc'[r] \in {"snapshot", "findSchedule", "writeSchedule", "finish"}
             /\ pc'[r] = "snapshot" => ListOf(r) # Nothing
      BY <2>2 DEF RegionPart, SchedulePart, ListOf
    <2>10. ServiceWork(r)'
      <3>1. s' = s /\ ListOf(r)' = ListOf(r) /\ (pc'[r] # "answered" => job'[r].op \in Writers)
        BY <2>2 DEF Target, Creates, ListOf, Writers
      <3>2. QED
        BY <2>3, <2>5, <2>9, <3>1 DEF ServiceWork, InProgress
    <2>11. QED
      BY <2>2, <2>5, <2>6, <2>8, <2>10, ServiceGoKeeps
  <1>6. QED
    BY <1>2, <1>3, <1>4, <1>5

LEMMA ServicesKeepInv == ServiceSpec => []ServiceInv
  <1>1. ServiceInit => ServiceInv
    <2> SUFFICES ASSUME ServiceInit PROVE ServiceInv
      OBVIOUS
    <2>1. HttpTypeOK /\ HttpInv
      BY HttpTypesStart, HttpStarts DEF ServiceInit
    <2>2. Arrived = {} /\ \A r \in Requests : pc[r] = "idle"
      BY DEF ServiceInit, HttpInit, Arrived
    <2>3. PICK d \in Districts :
             regions = {[service |-> Nobody, district |-> d, fee |-> 1, by |-> Nobody]}
      BY DEF ServiceInit, ServiceTablesSeeded
    <2>4. /\ DOMAIN services = {Nobody} /\ services[Nobody] \in ServiceRows
          /\ DOMAIN schedules \subseteq {Nobody}
          /\ DOMAIN txn = Requests /\ \A r \in Requests : txn[r] = Nothing
      BY DEF ServiceInit, ServiceTablesSeeded, ServiceRows
    <2>5. ServiceRowsOK
      BY <2>3, <2>4 DEF ServiceRowsOK, RegionRows, Creators
    <2>6. TxnsOK
      BY <2>2, <2>3, <2>4 DEF TxnsOK, TxnOK, OnePerDistrict, InProgress
    <2>7. QED
      BY <2>1, <2>2, <2>4, <2>5, <2>6 DEF ServiceInv, ServiceWork, InProgress
  <1>2. ServiceInv /\ [ServiceNext]_serviceVars => ServiceInv'
    <2>1. ServiceInv /\ UNCHANGED serviceVars => ServiceInv'
      BY DEF serviceVars, serviceTables, httpVars, ServiceInv, HttpTypeOK, HttpInv, Arrived,
             Answered, InProgress, ServiceRowsOK, TxnsOK, TxnOK, Apart, After, ServiceWork, Transactional,
             Target, Creates, ListOf
    <2>2. QED
      BY <2>1, ServicesRequestKeeps, AdminServicesRequestKeeps, FindRegionsKeeps,
         DeleteRegionsKeeps, InsertRegionsKeeps, InsertRegionKeeps, WriteScheduleKeeps,
         FinishKeeps, WriteServiceKeeps, ViolationKeeps
      DEF ServiceNext, ServiceRequest, ServiceStep
  <1>3. QED
    BY <1>1, <1>2, PTL DEF ServiceSpec

\* Services are of their types, their regions have one row per district - through every
\* replacement by two transactions or by the writer without one - and a transaction
\* belongs to an update under way.
THEOREM ServicesTypeCorrect == ServiceSpec => []ServiceTypeOK
  BY ServicesKeepInv, ServiceInvIsTypeOK, PTL
-----------------------------------------------------------------------------
(* Services: what the public list shows of the regions.                    *)

ShownCities(R) ==
    UNION {{[district |-> c.city, fee |-> IF c.fee = Nothing THEN g.fee ELSE c.fee] : c \in g.cities} :
              g \in GroupRegionsBySido(R)}

FeesOf(R, d) == {x.fee : x \in {y \in R : y.district = d}}

SidosOf(R) == {x.district : x \in RowsAt(R, "SIDO")}

\* What a list shows of a city is a row's fee, and a row's fee is what it shows.
FeesAreStored(R) ==
    /\ \A c \in ShownCities(R) :
          c.fee \in FeesOf(R, IF FeesOf(R, c.district) # {} THEN c.district
                                                            ELSE ParentOf[c.district])
    /\ \A x \in RowsAt(R, "SIDO") :
          \E g \in GroupRegionsBySido(R) : g.sido = x.district /\ g.fee = x.fee
    /\ \A x \in RowsAt(R, "SIGUNGU") :
          \/ \E c \in ShownCities(R) : c.district = x.district /\ c.fee = x.fee
          \/ SidosOf(R) # {} /\ ParentOf[x.district] \notin SidosOf(R)

\* A group shows of each of its rows the fee that row has.
LEMMA GroupShowsRows ==
    ASSUME NEW sido, NEW fee, NEW rows, \A x \in rows : x.fee \in Nat
    PROVE  /\ Group(sido, fee, rows).sido = sido /\ Group(sido, fee, rows).fee = fee
           /\ \A c \in Group(sido, fee, rows).cities : \E x \in rows :
                 x.district = c.city /\ x.fee = IF c.fee = Nothing THEN fee ELSE c.fee
           /\ \A x \in rows : \E c \in Group(sido, fee, rows).cities :
                 x.district = c.city /\ x.fee = IF c.fee = Nothing THEN fee ELSE c.fee
  <1> DEFINE show(x) == [city |-> x.district, fee |-> IF x.fee # fee THEN x.fee ELSE Nothing]
  <1>1. /\ Group(sido, fee, rows).sido = sido /\ Group(sido, fee, rows).fee = fee
        /\ Group(sido, fee, rows).cities = {show(x) : x \in rows}
    BY DEF Group
  <1>2. \A x \in rows : /\ show(x).city = x.district
                        /\ x.fee = IF show(x).fee = Nothing THEN fee ELSE show(x).fee
    BY NothingIsNoNumber
  <1> HIDE DEF show
  <1>3. QED
    BY <1>1, <1>2

LEMMA RowsShowTheirFees ==
    ASSUME NEW R, R \subseteq RegionRows
    PROVE  FeesAreStored(R)
  <1> DEFINE sigungus == RowsAt(R, "SIGUNGU")
             provinces == RowsAt(R, "SIDO")
             under(sido) == {x \in sigungus : ParentOf[x.district] = sido}
             groups == GroupRegionsBySido(R)
             shownFee(c, g) == IF c.fee = Nothing THEN g.fee ELSE c.fee
  <1>1. \A x \in R : x.fee \in Nat /\ x.district \in Districts /\ x.fee # Nothing
    BY NothingIsNoNumber DEF RegionRows
  <1>2. \A x \in R : x.fee \in FeesOf(R, x.district)
    BY DEF FeesOf
  <1>3. \A d : FeesOf(R, d) = {} <=> \A x \in R : x.district # d
    BY DEF FeesOf
  <1>4. \A sido : under(sido) \subseteq R /\ \A x \in under(sido) : x.fee \in Nat
    BY <1>1 DEF RowsAt
  <1>5. provinces \subseteq R /\ sigungus \subseteq R
    BY DEF RowsAt
  \* A city of a group has its own row, or it is shown with the whole of a province.
  <1>6. \A g \in groups : \A c \in g.cities :
           \/ \E x \in R : x.district = c.city /\ x.fee = shownFee(c, g)
           \/ /\ \A x \in R : x.district # c.city
              /\ \E y \in R : y.district = ParentOf[c.city] /\ y.fee = shownFee(c, g)
    <2> SUFFICES ASSUME NEW g \in groups, NEW c \in g.cities,
                        \A x \in R : ~(x.district = c.city /\ x.fee = shownFee(c, g))
                 PROVE  /\ \A x \in R : x.district # c.city
                        /\ \E y \in R : y.district = ParentOf[c.city] /\ y.fee = shownFee(c, g)
      OBVIOUS
    <2>1. ~(\E sido, fee : g = Group(sido, fee, under(sido)))
      <3> SUFFICES ASSUME NEW sido, NEW fee, g = Group(sido, fee, under(sido)) PROVE FALSE
        OBVIOUS
      <3>1. PICK x \in under(sido) : x.district = c.city /\ x.fee = IF c.fee = Nothing THEN fee ELSE c.fee
        BY <1>4, GroupShowsRows
      <3>2. g.fee = fee
        BY <1>4, GroupShowsRows
      <3>3. QED
        BY <1>4, <3>1, <3>2
    <2>2. PICK y \in provinces :
             g = IF under(y.district) = {} THEN WholeProvince(y.district, y.fee)
                 ELSE Group(y.district, y.fee, under(y.district))
      <3>1. provinces # {}
        BY <2>1 DEF GroupRegionsBySido
      <3>2. QED
        BY <3>1 DEF GroupRegionsBySido
    <2>3. under(y.district) = {} /\ g = WholeProvince(y.district, y.fee)
      BY <2>1, <2>2
    <2>4. /\ c.city \in Districts /\ LevelOf[c.city] = "SIGUNGU" /\ ParentOf[c.city] = y.district
          /\ c.fee = Nothing /\ g.fee = y.fee
      BY <2>3 DEF WholeProvince, CitiesOf
    <2>5. \A x \in R : x.district # c.city
      BY <2>3, <2>4 DEF RowsAt
    <2>6. QED
      BY <1>5, <2>4, <2>5
  <1>7. \A c \in ShownCities(R) :
           c.fee \in FeesOf(R, IF FeesOf(R, c.district) # {} THEN c.district ELSE ParentOf[c.district])
    <2> SUFFICES ASSUME NEW g \in groups, NEW c \in g.cities
                 PROVE  shownFee(c, g) \in FeesOf(R, IF FeesOf(R, c.city) # {} THEN c.city
                                                                           ELSE ParentOf[c.city])
      BY DEF ShownCities
    <2>1. CASE \E x \in R : x.district = c.city /\ x.fee = shownFee(c, g)
      BY <1>2, <1>3, <2>1
    <2>2. CASE /\ \A x \in R : x.district # c.city
               /\ \E y \in R : y.district = ParentOf[c.city] /\ y.fee = shownFee(c, g)
      BY <1>2, <1>3, <2>2
    <2>3. QED
      BY <1>6, <2>1, <2>2
  <1>8. \A x \in provinces : \E g \in groups : g.sido = x.district /\ g.fee = x.fee
    <2> SUFFICES ASSUME NEW x \in provinces PROVE \E g \in groups : g.sido = x.district /\ g.fee = x.fee
      OBVIOUS
    <2>1. PICK g : g = IF under(x.district) = {} THEN WholeProvince(x.district, x.fee)
                       ELSE Group(x.district, x.fee, under(x.district))
      OBVIOUS
    <2>2. g \in groups
      BY <2>1 DEF GroupRegionsBySido
    <2>3. g.sido = x.district /\ g.fee = x.fee
      BY <2>1 DEF WholeProvince, Group
    <2>4. QED
      BY <2>2, <2>3
  <1>9. ASSUME NEW x \in sigungus, provinces = {} \/ ParentOf[x.district] \in SidosOf(R)
        PROVE  \E c \in ShownCities(R) : c.district = x.district /\ c.fee = x.fee
    <2> DEFINE sido == ParentOf[x.district]
    <2>1. x \in under(sido)
      OBVIOUS
    <2>2. \E fee : Group(sido, fee, under(sido)) \in groups
      <3>1. CASE provinces = {}
        BY <3>1 DEF GroupRegionsBySido
      <3>2. CASE provinces # {}
        <4>1. PICK y \in provinces : y.district = sido
          BY <1>9, <3>2 DEF SidosOf
        <4>2. Group(y.district, y.fee, under(y.district)) \in groups
          BY <2>1, <4>1 DEF GroupRegionsBySido
        <4>3. QED
          BY <4>1, <4>2
      <3>3. QED
        BY <3>1, <3>2
    <2>3. PICK fee : Group(sido, fee, under(sido)) \in groups
      BY <2>2
    <2>4. PICK g \in groups : g = Group(sido, fee, under(sido))
      BY <2>3
    <2>5. PICK c \in g.cities : x.district = c.city /\ x.fee = IF c.fee = Nothing THEN fee ELSE c.fee
      <3>1. PICK rows : rows = under(sido)
        OBVIOUS
      <3>2. \A y \in rows : y.fee \in Nat
        BY <1>4, <3>1
      <3>3. \A y \in rows : \E c \in Group(sido, fee, rows).cities :
               y.district = c.city /\ y.fee = IF c.fee = Nothing THEN fee ELSE c.fee
        BY <3>2, GroupShowsRows
      <3> HIDE DEF under
      <3>4. QED
        BY <2>1, <2>4, <3>1, <3>3
    <2>6. g.fee = fee
      BY <1>4, <2>4, GroupShowsRows
    <2>7. PICK shown : shown = [district |-> c.city, fee |-> shownFee(c, g)]
      OBVIOUS
    <2>8. shown \in ShownCities(R)
      BY <2>5, <2>7 DEF ShownCities
    <2>9. QED
      BY <2>5, <2>6, <2>7, <2>8
  <1>10. SidosOf(R) # {} <=> provinces # {}
    BY DEF SidosOf
  <1>11. QED
    BY <1>7, <1>8, <1>9, <1>10 DEF FeesAreStored

LEMMA ServiceInvShowsFees == ServiceInv => ShownFeesAreStored
  <1> SUFFICES ASSUME ServiceInv PROVE ShownFeesAreStored
    OBVIOUS
  <1>1. \A s : FeesAreStored(RegionsOf(s))
    <2>1. \A s : RegionsOf(s) \subseteq RegionRows
      BY DEF RegionsOf, ServiceInv, ServiceRowsOK
    <2>2. QED
      BY <2>1, RowsShowTheirFees
  <1>2. QED
    BY <1>1 DEF ShownFeesAreStored, FeesAreStored, ShownCities, FeesOf, SidosOf
-----------------------------------------------------------------------------
(* Services: what the steps do to the orders and the regions.              *)

LateParts == {"findSchedule", "writeSchedule", "finish"}

\* What a request that arrives does to the tables: nothing, or a whole new service, or
\* it opens its transaction.
ServiceStarted(r, j) ==
    /\ Starts(r, j) /\ j \in ServiceJobs /\ \A q \in Requests \ {r} : txn'[q] = txn[q]
    /\ \/ /\ UNCHANGED serviceTables /\ pc'[r] = "answered" /\ answer'[r] # "ok"
       \/ /\ j.op = "create" /\ pc'[r] = "answered" /\ answer'[r] = "ok" /\ txn'[r] = txn[r]
          /\ DOMAIN services' = DOMAIN services \cup {r}
          /\ \A t \in DOMAIN services \ {r} : services'[t] = services[t]
          /\ DOMAIN j.dto.list \subseteq Districts
          /\ regions' = regions \cup
                {[service |-> r, district |-> d, fee |-> j.dto.list[d], by |-> r] :
                    d \in DOMAIN j.dto.list}
       \/ /\ j.op = "update" /\ UNCHANGED <<services, regions>>
          /\ txn'[r] # Nothing /\ txn'[r].gone = {} /\ txn'[r].new = {}
          /\ pc'[r] \in {"columns", "snapshot"} \cup LateParts
          /\ pc'[r] \in LateParts => j.dto.list = Nothing
       \/ /\ UNCHANGED serviceTables /\ pc'[r] = "setActive" /\ j.op \in {"delete", "toggle"}
       \/ /\ UNCHANGED serviceTables /\ j.op = "adminCreate"
          /\ \/ pc'[r] = "max" /\ j.dto.order = Nothing
             \/ pc'[r] = "insertService" /\ j.dto.order # Nothing
       \/ /\ UNCHANGED serviceTables /\ pc'[r] = "load" /\ j.op \in {"adminUpdate", "adminDelete"}
          /\ j.service \in DOMAIN services
          /\ held'[r].row.order = services[j.service].order

LEMMA ServiceStarts ==
    ASSUME ServiceInv, NEW r \in Requests, ServiceRequest(r)
    PROVE  \E j : ServiceStarted(r, j)
  <1> USE DEF Starts, Begin, Serve, Arrive, Answers
  <1>0. /\ HttpInv /\ KnownServices \subseteq Creators /\ ServiceRowsOK
        /\ DOMAIN pc = Requests /\ DOMAIN job = Requests /\ DOMAIN held = Requests
        /\ DOMAIN txn = Requests /\ DOMAIN answer = Requests
    BY DEF ServiceInv, HttpInv, TxnsOK, KnownServices, Creators, Arrived
  <1>1. ASSUME NEW dto \in Drafts, Create(r, dto) PROVE \E j : ServiceStarted(r, j)
    <2>1. PICK j : j = [op |-> "create", dto |-> dto]
      OBVIOUS
    <2>2. j \in ServiceJobs /\ j.op = "create" /\ j.dto = dto
      BY <2>1 DEF ServiceJobs
    <2>3. Starts(r, j) /\ pc'[r] = "answered" /\ txn' = txn
      BY <1>0, <1>1, <2>1 DEF Create, serviceTables
    <2>4. CASE Serve(r, j, "refused") /\ UNCHANGED serviceTables
      BY <1>0, <2>2, <2>3, <2>4 DEF ServiceStarted
    <2>5. CASE Serve(r, j, "error") /\ UNCHANGED serviceTables
      BY <1>0, <2>2, <2>3, <2>5 DEF ServiceStarted
    <2>6. CASE /\ DOMAIN dto.list \subseteq Districts /\ Serve(r, j, "ok")
               /\ PutService(r, [order |-> IF dto.order = Nothing THEN 0 ELSE dto.order,
                                 active |-> TRUE])
               /\ regions' = regions \cup
                     {[service |-> r, district |-> d, fee |-> dto.list[d], by |-> r] :
                         d \in DOMAIN dto.list}
      <3>1. /\ DOMAIN services' = DOMAIN services \cup {r}
            /\ \A t \in DOMAIN services \ {r} : services'[t] = services[t]
        BY <2>6 DEF PutService
      <3>2. answer'[r] = "ok"
        BY <1>0, <2>6
      <3>3. /\ DOMAIN j.dto.list \subseteq Districts
            /\ regions' = regions \cup
                  {[service |-> r, district |-> d, fee |-> j.dto.list[d], by |-> r] :
                      d \in DOMAIN j.dto.list}
        BY <2>2, <2>6
      <3>4. \A q \in Requests \ {r} : txn'[q] = txn[q]
        BY <2>3
      <3>5. txn'[r] = txn[r]
        BY <2>3
      <3>7. ServiceStarted(r, j)
        BY <2>2, <2>3, <3>1, <3>2, <3>3, <3>4, <3>5 DEF ServiceStarted
      <3>8. QED
        BY <3>7
    <2>7. QED
      BY <1>1, <2>1, <2>4, <2>5, <2>6 DEF Create
  <1>2. ASSUME NEW s \in KnownServices, NEW dto \in Changes, Update(r, s, dto)
        PROVE  \E j : ServiceStarted(r, j)
    <2>1. PICK j : j = [op |-> "update", service |-> s, dto |-> dto]
      OBVIOUS
    <2>2. j \in ServiceJobs /\ j.op = "update" /\ j.service = s /\ j.dto = dto
      BY <1>0, <2>1 DEF ServiceJobs
    <2>3. CASE UNCHANGED serviceTables /\ \E what \in {"refused", "notFound"} : Serve(r, j, what)
      BY <1>0, <2>2, <2>3 DEF ServiceStarted, serviceTables
    <2>4. CASE /\ \/ Begin(r, j, "columns", Nothing)
                  \/ Begin(r, j, RegionPart("update", dto), Nothing)
               /\ txn' = [txn EXCEPT ![r] = NoWrites]
               /\ UNCHANGED <<services, regions, schedules>>
      <3>1. /\ txn'[r] = NoWrites /\ \A q \in Requests \ {r} : txn'[q] = txn[q]
        BY <1>0, <2>4
      <3>2. txn'[r] # Nothing /\ txn'[r].gone = {} /\ txn'[r].new = {}
        <4>1. NoWrites \in Transactions
          BY DEF NoWrites, Transactions
        <4>2. NoWrites.gone = {} /\ NoWrites.new = {}
          BY DEF NoWrites
        <4>3. QED
          BY <3>1, <4>1, <4>2, NothingIsNoTransaction
      <3>3. /\ pc'[r] \in {"columns", RegionPart("update", dto)}
            /\ Starts(r, j)
        BY <1>0, <2>4 DEF RegionPart, SchedulePart
      <3>4. /\ pc'[r] \in {"columns", "snapshot"} \cup LateParts
            /\ pc'[r] \in LateParts => dto.list = Nothing
        BY <3>3 DEF RegionPart, SchedulePart, LateParts
      <3>5. QED
        BY <2>2, <2>4, <3>1, <3>2, <3>3, <3>4 DEF ServiceStarted
    <2>5. QED
      BY <1>2, <2>1, <2>3, <2>4 DEF Update
  <1>3. ASSUME NEW s \in KnownServices, NEW op \in {"delete", "toggle"}, SetActive(r, s, op)
        PROVE  \E j : ServiceStarted(r, j)
    <2>1. PICK j : j = [op |-> op, service |-> s]
      OBVIOUS
    <2>2. j \in ServiceJobs /\ j.op = op /\ j.service = s
      BY <1>0, <2>1 DEF ServiceJobs
    <2>3. QED
      BY <1>0, <1>3, <2>1, <2>2 DEF SetActive, ServiceStarted, serviceTables
  <1>4. ASSUME NEW dto \in Drafts, AdminCreate(r, dto) PROVE \E j : ServiceStarted(r, j)
    <2>1. PICK j : j = [op |-> "adminCreate", dto |-> dto]
      OBVIOUS
    <2>2. j \in ServiceJobs /\ j.op = "adminCreate" /\ j.dto = dto
      BY <2>1 DEF ServiceJobs
    <2>3. QED
      BY <1>0, <1>4, <2>1, <2>2 DEF AdminCreate, ServiceStarted, serviceTables
  <1>5. ASSUME NEW s \in KnownServices, NEW dto \in Changes, AdminUpdate(r, s, dto)
        PROVE  \E j : ServiceStarted(r, j)
    <2>1. PICK j : j = [op |-> "adminUpdate", service |-> s, dto |-> dto]
      OBVIOUS
    <2>2. j \in ServiceJobs /\ j.op = "adminUpdate" /\ j.service = s
      BY <1>0, <2>1 DEF ServiceJobs
    <2>3. Loaded(s).row.order = services[s].order
      BY DEF Loaded
    <2>4. QED
      BY <1>0, <1>5, <2>1, <2>2, <2>3 DEF AdminUpdate, ServiceStarted, serviceTables
  <1>6. ASSUME NEW s \in KnownServices, AdminDelete(r, s) PROVE \E j : ServiceStarted(r, j)
    <2>1. PICK j : j = [op |-> "adminDelete", service |-> s]
      OBVIOUS
    <2>2. j \in ServiceJobs /\ j.op = "adminDelete" /\ j.service = s
      BY <1>0, <2>1 DEF ServiceJobs
    <2>3. s \in DOMAIN services => [Loaded(s) EXCEPT !.row.active = FALSE].row.order = services[s].order
      BY <1>0 DEF Loaded, ServiceRowsOK, ServiceRows
    <2>4. PICK loaded : loaded = [Loaded(s) EXCEPT !.row.active = FALSE]
      OBVIOUS
    <2>5. /\ Starts(r, j) /\ UNCHANGED serviceTables
          /\ \/ pc'[r] = "answered" /\ answer'[r] # "ok"
             \/ pc'[r] = "load" /\ s \in DOMAIN services /\ held'[r] = loaded
      BY <1>0, <1>6, <2>1, <2>4 DEF AdminDelete
    <2>6. QED
      BY <2>2, <2>3, <2>4, <2>5 DEF ServiceStarted, serviceTables
  <1>7. QED
    BY <1>1, <1>2, <1>3, <1>4, <1>5, <1>6 DEF ServiceRequest, ServicesRequest, AdminServicesRequest

\* A later step writes the order of its service only at its end, from what it was given or
\* has held since it read the row; the INSERT of a new service writes the order it found.
OrdersWent(r) ==
    /\ \/ DOMAIN services' = DOMAIN services
       \/ /\ DOMAIN services' = DOMAIN services \cup {r}
          /\ pc[r] = "insertService" /\ pc'[r] = "snapshot" /\ services'[r].order = held[r].order
    /\ \A t \in DOMAIN services :
          \/ services'[t].order = services[t].order
          \/ t = r /\ pc[r] = "insertService"
          \/ t = Target(r) /\ job[r].op = "update" /\ job[r].dto.order # Nothing
          \/ t = Target(r) /\ pc[r] = "write" /\ services'[t].order = held[r].entity.order
    /\ pc'[r] \notin {"max", "load"}
    /\ pc'[r] = "insertService" => pc[r] = "max" /\ held'[r].order = MaxOrder + 1
    /\ pc'[r] = "write" => pc[r] = "load" /\ held'[r].entity = held[r].row

SameWrites(r) ==
    \/ txn'[r] = txn[r]
    \/ txn[r] # Nothing /\ txn'[r] # Nothing /\ txn'[r].gone = txn[r].gone /\ txn'[r].new = txn[r].new

\* What it does to the regions: nothing, ...
RegionsStayed(r) ==
    /\ regions' = regions
    /\ \/ pc'[r] = "answered" /\ answer'[r] # "ok" /\ txn'[r] = Nothing
       \/ /\ pc'[r] = "answered" /\ txn'[r] = txn[r]
          /\ \/ job[r].op \in {"delete", "toggle", "adminDelete"}
             \/ pc[r] = "finish" /\ ~Transactional(r)
       \/ /\ pc'[r] \notin {"answered", "insert"} /\ SameWrites(r)
          /\ pc'[r] = "delete" => held'[r].rows = RegionsOf(Target(r))
          /\ pc'[r] \in LateParts => pc[r] \in LateParts \/ ListOf(r) = Nothing
          /\ pc[r] \in LateParts \cup {"insert"} => pc'[r] \in LateParts

\* ... the DELETE, ...
RegionsDeleted(r) ==
    /\ pc[r] = "delete" /\ pc'[r] = "insert" /\ held'[r].districts = DOMAIN ListOf(r)
    /\ IF Transactional(r) THEN /\ regions' = regions /\ txn'[r] # Nothing
                                /\ txn'[r].gone = held[r].rows \cap regions /\ txn'[r].new = {}
                           ELSE regions' = regions \ held[r].rows /\ txn'[r] = txn[r]

\* ... the INSERT of the list, or of a district of it, ...
RegionsInserted(r) ==
    /\ pc[r] = "insert" /\ Transactional(r) /\ pc'[r] \in LateParts
    /\ held[r].districts \subseteq Districts /\ regions' = regions
    /\ txn'[r] # Nothing /\ txn'[r].gone = txn[r].gone
    /\ txn'[r].new = {NewRegion(r, d) : d \in held[r].districts}

RegionInserted(r) ==
    /\ pc[r] = "insert" /\ ~Transactional(r) /\ txn'[r] = txn[r]
    /\ \E d \in held[r].districts :
          /\ regions' = regions \cup {NewRegion(r, e) : e \in {d} \cap Districts}
          /\ \/ held[r].districts = {d} /\ pc'[r] \in LateParts
             \/ pc'[r] = "insert" /\ held'[r].districts = held[r].districts \ {d}

\* ... or the COMMIT.
RegionsCommitted(r) ==
    /\ pc[r] = "finish" /\ Transactional(r) /\ pc'[r] = "answered" /\ answer'[r] = "ok"
    /\ txn'[r] = Nothing /\ regions' = After(r)

ServiceWent(r) ==
    /\ Goes(r) /\ \A q \in Requests \ {r} : txn'[q] = txn[q]
    /\ OrdersWent(r)
    /\ \/ RegionsStayed(r) \/ RegionsDeleted(r) \/ RegionsInserted(r) \/ RegionInserted(r)
       \/ RegionsCommitted(r)

LEMMA ServiceFails ==
    ASSUME ServiceInv, NEW r \in Requests, InProgress(r), Violation(r)
    PROVE  ServiceWent(r)
  <1>1. Goes(r) /\ pc'[r] = "answered" /\ answer'[r] # "ok" /\ services' = services /\ regions' = regions
    BY DEF Violation, Goes, Answer, Answers, ServiceInv, HttpInv
  <1>2. txn'[r] = Nothing /\ \A q \in Requests \ {r} : txn'[q] = txn[q]
    BY UnderWay DEF Violation, Rollback
  <1>3. OrdersWent(r)
    BY <1>1 DEF OrdersWent
  <1>4. QED
    BY <1>1, <1>2, <1>3 DEF ServiceWent, RegionsStayed

\* Steps that leave services and regions alone.
LEMMA QuietStepGoes ==
    ASSUME ServiceInv, NEW r \in Requests,
           \/ FindRegions(r) \/ FindSchedule(r) \/ FindMaxOrder(r) \/ LoadService(r)
           \/ WriteSchedule(r) \/ UpdateColumns(r)
    PROVE  ServiceWent(r)
  <1>0. InProgress(r) /\ ServiceWork(r)
    BY DEF FindRegions, FindSchedule, FindMaxOrder, LoadService, WriteSchedule, UpdateColumns,
       At, InProgress, ServiceInv
  <1>1. CASE Violation(r)
    BY <1>0, <1>1, ServiceFails
  <1>2. CASE ~Violation(r)
    <2>1. services' = services /\ regions' = regions /\ Goes(r)
      BY <1>0, <1>2
         DEF FindRegions, FindSchedule, FindMaxOrder, LoadService, WriteSchedule, UpdateColumns, At,
             serviceTables, Goes, Continue, RegionPart, SchedulePart
    <2>2. /\ \A q \in Requests \ {r} : txn'[q] = txn[q]
          /\ SameWrites(r)
      <3>1. CASE txn' = txn
        BY <3>1 DEF SameWrites
      <3>2. CASE Transactional(r) /\ (\/ txn' = [txn EXCEPT ![r].scheduled = TRUE]
                                      \/ txn' = [txn EXCEPT ![r].locked = TRUE])
        <4>1. txn[r] # Nothing /\ txn[r] \in Transactions /\ DOMAIN txn = Requests
          BY <1>0, <3>2, UnderWay DEF TxnOK
        <4>2. \A q \in Requests \ {r} : txn'[q] = txn[q]
          BY <3>2, <4>1
        <4>3. txn'[r] \in {[txn[r] EXCEPT !.scheduled = TRUE], [txn[r] EXCEPT !.locked = TRUE]}
          BY <3>2, <4>1
        <4>4. txn'[r] \in Transactions /\ txn'[r].gone = txn[r].gone /\ txn'[r].new = txn[r].new
          BY <4>1, <4>3 DEF Transactions
        <4>5. QED
          BY <4>1, <4>2, <4>4, NothingIsNoTransaction DEF SameWrites
      <3>3. QED
        BY <1>2, <3>1, <3>2
           DEF FindRegions, FindSchedule, FindMaxOrder, LoadService, WriteSchedule,
               UpdateColumns, At,
             serviceTables, Transactional
    <2>3. /\ pc'[r] \in {"delete", "writeSchedule", "finish", "insertService", "write", "snapshot",
                        "findSchedule"}
          /\ pc'[r] = "delete" => held'[r].rows = RegionsOf(Target(r))
          /\ pc'[r] = "insertService" => pc[r] = "max" /\ held'[r].order = MaxOrder + 1
          /\ pc'[r] = "write" => pc[r] = "load" /\ held'[r].entity = held[r].row
          /\ pc'[r] \in LateParts => pc[r] \in LateParts \/ ListOf(r) = Nothing
          /\ pc[r] \in LateParts \cup {"insert"} => pc'[r] \in LateParts
      <3>1. CASE FindRegions(r)
        BY <1>0, <3>1, UnderWay DEF FindRegions, Continue, LateParts
      <3>2. CASE FindSchedule(r) \/ (WriteSchedule(r) /\ ~Violation(r))
        BY <1>0, <3>2, UnderWay DEF FindSchedule, WriteSchedule, Continue, LateParts
      <3>3. CASE FindMaxOrder(r) \/ LoadService(r)
        BY <1>0, <3>3, UnderWay DEF FindMaxOrder, LoadService, At, Continue, LateParts
      <3>4. CASE UpdateColumns(r)
        BY <1>0, <3>4, UnderWay
           DEF UpdateColumns, At, Continue, LateParts, RegionPart, SchedulePart, ListOf
      <3>5. QED
        BY <1>2, <3>1, <3>2, <3>3, <3>4
    <2>4. OrdersWent(r)
      BY <2>1, <2>3 DEF OrdersWent
    <2>5. RegionsStayed(r)
      BY <2>1, <2>2, <2>3 DEF RegionsStayed
    <2>6. QED
      BY <2>1, <2>2, <2>4, <2>5 DEF ServiceWent
  <1>3. QED
    BY <1>1, <1>2

LEMMA RegionStepGoes ==
    ASSUME ServiceInv, NEW r \in Requests,
           \/ DeleteRegions(r) \/ InsertRegions(r) \/ \E d \in held[r].districts : InsertRegion(r, d)
    PROVE  ServiceWent(r)
  <1>0. InProgress(r) /\ ServiceWork(r)
    BY DEF DeleteRegions, InsertRegions, InsertRegion, InProgress, ServiceInv
  <1>1. CASE Violation(r)
    BY <1>0, <1>1, ServiceFails
  <1>2. CASE ~Violation(r)
    <2>0. /\ DOMAIN txn = Requests /\ (Transactional(r) => txn[r] # Nothing /\ txn[r] \in Transactions)
          /\ Transactional(r) /\ pc[r] = "delete" => txn[r].new = {}
      BY <1>0, UnderWay DEF TxnOK, EarlyParts
    <2>1. services' = services /\ Goes(r) /\ pc'[r] \in {"insert"} \cup LateParts
      BY <1>0, <1>2, UnderWay, PartsAfterRegions
         DEF DeleteRegions, InsertRegions, InsertRegion, Goes, Continue, LateParts
    <2>2. OrdersWent(r)
      BY <2>1 DEF OrdersWent, LateParts
    <2>3. ASSUME DeleteRegions(r) PROVE RegionsDeleted(r) /\ \A q \in Requests \ {r} : txn'[q] = txn[q]
      <3>1. pc[r] = "delete" /\ pc'[r] = "insert" /\ held'[r].districts = DOMAIN ListOf(r)
        BY <1>0, <2>3, UnderWay DEF DeleteRegions, Continue
      <3>2. CASE Transactional(r)
        <4>1. regions' = regions /\ txn' = [txn EXCEPT ![r].gone = held[r].rows \cap regions]
          BY <2>3, <3>2 DEF DeleteRegions
        <4>2. /\ txn'[r] = [txn[r] EXCEPT !.gone = held[r].rows \cap regions]
              /\ \A q \in Requests \ {r} : txn'[q] = txn[q]
          BY <2>0, <4>1
        <4>3. txn'[r] # Nothing
          <5>1. held[r].rows \cap regions \in SUBSET RegionRows
            BY <1>0, UnderWay DEF ServiceRowsOK
          <5>2. txn'[r] \in Transactions
            BY <2>0, <3>2, <4>2, <5>1 DEF Transactions
          <5>3. QED
            BY <5>2, NothingIsNoTransaction
        <4>4. txn'[r].gone = held[r].rows \cap regions /\ txn'[r].new = {}
          BY <2>0, <3>1, <3>2, <4>2 DEF Transactions
        <4>5. QED
          BY <3>1, <3>2, <4>1, <4>2, <4>3, <4>4 DEF RegionsDeleted
      <3>3. CASE ~Transactional(r)
        <4>1. regions' = regions \ (held[r].rows \cap regions) /\ txn' = txn
          BY <2>3, <3>3 DEF DeleteRegions
        <4>2. QED
          BY <3>1, <3>3, <4>1 DEF RegionsDeleted
      <3>4. QED
        BY <3>2, <3>3
    <2>4. ASSUME InsertRegions(r) PROVE RegionsInserted(r) /\ \A q \in Requests \ {r} : txn'[q] = txn[q]
      <3> DEFINE new == {NewRegion(r, d) : d \in held[r].districts}
      <3>1. /\ pc[r] = "insert" /\ Transactional(r) /\ held[r].districts \subseteq Districts /\ regions' = regions
            /\ txn' = [txn EXCEPT ![r].new = new] /\ pc'[r] = AfterRegions(r)
        BY <1>0, <1>2, <2>4, UnderWay DEF InsertRegions, Continue
      <3>2. new \in SUBSET RegionRows
        <4>1. /\ Target(r) \in DOMAIN services /\ job[r].op \in Writers /\ ListOf(r) # Nothing
              /\ held[r].districts \subseteq DOMAIN ListOf(r)
          BY <1>0, <3>1 DEF ServiceWork, EarlyParts
        <4>2. \A d \in Districts \cap DOMAIN ListOf(r) : NewRegion(r, d) \in RegionRows
          BY <1>0, <4>1, NewRegionsAreRows
        <4>3. QED
          BY <3>1, <4>1, <4>2
      <3>3. \A q \in Requests \ {r} : txn'[q] = txn[q]
        BY <3>1
      <3> HIDE DEF new
      <3>4. txn'[r] = [txn[r] EXCEPT !.new = new]
        BY <2>0, <3>1
      <3>5. txn'[r] \in Transactions /\ txn'[r].new = new /\ txn'[r].gone = txn[r].gone
        BY <2>0, <3>1, <3>2, <3>4 DEF Transactions
      <3>6. QED
        BY <3>1, <3>3, <3>5, PartsAfterRegions, NothingIsNoTransaction
           DEF RegionsInserted, LateParts, new
    <2>5. ASSUME NEW d \in held[r].districts, InsertRegion(r, d)
          PROVE  RegionInserted(r) /\ \A q \in Requests \ {r} : txn'[q] = txn[q]
      <3>1. /\ pc[r] = "insert" /\ ~Transactional(r) /\ txn' = txn
            /\ regions' = regions \cup {NewRegion(r, e) : e \in {d} \cap Districts}
            /\ \/ held[r].districts = {d} /\ pc'[r] = AfterRegions(r)
               \/ pc'[r] = "insert" /\ held'[r].districts = held[r].districts \ {d}
        BY <1>0, <1>2, <2>5, UnderWay DEF InsertRegion, Continue
      <3>2. QED
        BY <3>1, PartsAfterRegions DEF RegionInserted, LateParts
    <2>6. QED
      BY <2>1, <2>2, <2>3, <2>4, <2>5 DEF ServiceWent
  <1>3. QED
    BY <1>1, <1>2

LEMMA WritingServiceStepGoes ==
    ASSUME ServiceInv, NEW r \in Requests,
           Finish(r) \/ WriteActive(r) \/ InsertService(r) \/ WriteService(r)
    PROVE  ServiceWent(r)
  <1>0. InProgress(r) /\ ServiceWork(r)
    BY DEF Finish, WriteActive, InsertService, WriteService, At, InProgress, ServiceInv
  <1>1. /\ DOMAIN txn = Requests /\ job[r] \in ServiceJobs /\ DOMAIN pc = Requests /\ DOMAIN held = Requests
        /\ DOMAIN answer = Requests /\ ServiceRowsOK /\ (Goes(r) \/ Violation(r))
    BY <1>0, UnderWay
       DEF Finish, WriteActive, InsertService, WriteService, Goes, Continue, Answer, Answers,
                          RegionPart, SchedulePart, HttpInv
  <1>2. CASE Violation(r)
    BY <1>0, <1>2, ServiceFails
  <1>3. CASE Finish(r)
    <2>1. pc[r] = "finish" /\ pc'[r] = "answered" /\ answer'[r] = "ok" /\ Goes(r)
      BY <1>0, <1>3, UnderWay DEF Finish, Answer, HttpInv, Goes, Answers
    <2>2. CASE ~Transactional(r)
      BY <1>3, <2>1, <2>2 DEF Finish, serviceTables, ServiceWent, OrdersWent, RegionsStayed
    <2>3. CASE Transactional(r)
      <3>1. /\ txn'[r] = Nothing /\ \A q \in Requests \ {r} : txn'[q] = txn[q]
            /\ regions' = After(r)
        BY <1>1, <1>3, <2>3 DEF Finish, Rollback, Committed, After
      <3>2. /\ DOMAIN services' = DOMAIN services
            /\ \A t \in DOMAIN services : \/ services'[t].order = services[t].order
                                          \/ t = Target(r) /\ job[r].dto.order # Nothing
        <4>1. Target(r) \in DOMAIN services
          BY <1>0, <2>1 DEF ServiceWork
        <4>2. QED
          BY <1>3, <2>3, <4>1 DEF Finish, Committed, PutService
      <3>3. OrdersWent(r)
        BY <2>1, <2>3, <3>2 DEF OrdersWent, Transactional
      <3>4. QED
        BY <2>1, <2>3, <3>1, <3>3 DEF ServiceWent, RegionsCommitted
    <2>4. QED
      BY <2>2, <2>3
  <1>4. CASE WriteActive(r)
    <2>1. /\ pc'[r] = "answered" /\ UNCHANGED <<regions, txn>> /\ Goes(r)
          /\ PutService(Target(r), [services[Target(r)] EXCEPT !.active = held[r].active])
          /\ Target(r) \in DOMAIN services /\ job[r].op \in {"delete", "toggle"}
      BY <1>0, <1>1, <1>4 DEF WriteActive, Answer, Answers, Goes, ServiceWork
    <2>2. [services[Target(r)] EXCEPT !.active = held[r].active].order = services[Target(r)].order
      BY <1>0, <2>1, UnderWay DEF ServiceRowsOK, ServiceRows
    <2>3. OrdersWent(r)
      BY <2>1, <2>2 DEF OrdersWent, PutService
    <2>4. QED
      BY <2>1, <2>3 DEF ServiceWent, RegionsStayed
  <1>5. CASE InsertService(r)
    <2>1. /\ pc[r] = "insertService" /\ pc'[r] = "snapshot" /\ UNCHANGED <<regions, txn>> /\ Goes(r)
          /\ PutService(r, [order |-> held[r].order, active |-> TRUE])
      BY <1>0, <1>1, <1>5 DEF InsertService, At, Continue, Goes
    <2>2. OrdersWent(r)
      BY <2>1 DEF OrdersWent, PutService
    <2>3. QED
      BY <2>1, <2>2 DEF ServiceWent, RegionsStayed, SameWrites, LateParts
  <1>6. CASE WriteService(r) /\ ~Violation(r)
    <2>1. PICK row : row = Merge(services[Target(r)], held[r].entity, held[r].dirty)
      OBVIOUS
    <2>2. /\ pc[r] = "write" /\ UNCHANGED <<regions, txn>> /\ Goes(r) /\ PutService(Target(r), row)
          /\ \/ job[r].op = "adminDelete" /\ pc'[r] = "answered"
             \/ pc'[r] = RegionPart("adminUpdate", job[r].dto)
      BY <1>0, <1>1, <1>6, <2>1
         DEF WriteService, Continue, Goes, Answer, Answers, RegionPart, SchedulePart
    <2>3. /\ Target(r) \in DOMAIN services
          /\ row.order \in {services[Target(r)].order, held[r].entity.order}
      <3>1. Target(r) \in DOMAIN services
        BY <1>0, <2>2 DEF ServiceWork
      <3>2. services[Target(r)] \in ServiceRows
        BY <1>0, <3>1, UnderWay DEF ServiceRowsOK
      <3>3. QED
        BY <2>1, <3>1, <3>2 DEF Merge, ServiceRows
    <2>4. /\ pc'[r] \in {"answered", "snapshot", "findSchedule", "finish"}
          /\ pc'[r] \in LateParts => ListOf(r) = Nothing
          /\ pc'[r] = "answered" => job[r].op = "adminDelete"
      BY <2>2 DEF RegionPart, SchedulePart, LateParts, ListOf
    <2>5. OrdersWent(r)
      BY <2>2, <2>3, <2>4 DEF OrdersWent, PutService
    <2>6. QED
      BY <2>2, <2>4, <2>5 DEF ServiceWent, RegionsStayed, SameWrites, LateParts
  <1>7. QED
    BY <1>2, <1>3, <1>4, <1>5, <1>6

LEMMA ServiceGoes ==
    ASSUME ServiceInv, NEW r \in Requests, ServiceStep(r)
    PROVE  ServiceWent(r)
  BY QuietStepGoes, RegionStepGoes, WritingServiceStepGoes, ServiceFails DEF ServiceStep

-----------------------------------------------------------------------------
\* Has an update given a service another order?
OrderGiven(s) ==
    \E u \in Arrived : job[u].op = "update" /\ job[u].service = s /\ job[u].dto.order # Nothing

\* A service being made is not there yet, and whoever holds a row whose order nobody was
\* to change holds the order it has.
OrdersHeld ==
    /\ \A r \in Requests : pc[r] \in {"max", "insertService"} => r \notin DOMAIN services
    /\ \A r \in Requests : (pc[r] \in {"load", "write"} /\ ~OrderGiven(Target(r))) =>
          services[Target(r)].order =
             IF pc[r] = "load" THEN held[r].row.order ELSE held[r].entity.order

\* A service made with no order given comes, or will come, after those it found.
OrdersAscend ==
    \A r \in Arrived : \A q \in DOMAIN services :
       (/\ job[r].op = "adminCreate" /\ job[r].dto.order = Nothing
        /\ q = Nobody \/ q \in earlier[r]
        /\ ~OrderGiven(q)) =>
          /\ pc[r] = "insertService" => held[r].order > services[q].order
          /\ (r \in DOMAIN services /\ ~OrderGiven(r)) => services[r].order > services[q].order

ServiceOrders == OrdersHeld /\ OrdersAscend

LEMMA OrdersStayGiven ==
    ASSUME ArrivedStay
    PROVE  \A s : OrderGiven(s) => OrderGiven(s)'
  BY DEF ArrivedStay, OrderGiven

LEMMA StartKeepsServiceOrders ==
    ASSUME ServiceInv, ServiceOrders, NEW r \in Requests, NEW j, ServiceStarted(r, j)
    PROVE  ServiceOrders'
  <1>0. HttpInv /\ Starts(r, j) /\ ArrivedStay
    BY StepsLeaveArrived DEF ServiceInv, ServiceStarted
  <1>1. \A s : OrderGiven(s) => OrderGiven(s)'
    BY <1>0, OrdersStayGiven
  <1>2. /\ r \notin Arrived /\ r \notin DOMAIN services /\ r # Nobody /\ DOMAIN services \subseteq Creators
        /\ \A q \in Requests : r \notin earlier[q]
        /\ earlier'[r] \subseteq Requests \ {r} /\ job'[r] = j /\ pc'[r] # "idle"
        /\ Arrived' = Arrived \cup {r}
    BY <1>0, StartFacts, RequestConstants DEF Arrived, ServiceInv, HttpInv, Answered, Creators
  <1>3. /\ DOMAIN services \subseteq DOMAIN services' /\ DOMAIN services' \subseteq DOMAIN services \cup {r}
        /\ \A t \in DOMAIN services : services'[t] = services[t]
        /\ r \in DOMAIN services' => pc'[r] = "answered" /\ j.op = "create"
    BY <1>2 DEF ServiceStarted, serviceTables
  <1>4. ASSUME NEW q \in Requests \ {r}
        PROVE  /\ pc'[q] = pc[q] /\ job'[q] = job[q] /\ held'[q] = held[q] /\ earlier'[q] = earlier[q]
               /\ Target(q)' = Target(q)
               /\ InProgress(q) /\ pc[q] \notin {"max", "insertService"} => Target(q) \in DOMAIN services
    <2>1. pc'[q] = pc[q] /\ job'[q] = job[q] /\ held'[q] = held[q] /\ earlier'[q] = earlier[q]
      BY <1>0, StartFacts
    <2>2. QED
      BY <2>1 DEF Target, Creates, ServiceInv, ServiceWork
  <1>5. OrdersHeld'
    <2>1. \A q \in Requests : pc'[q] \in {"max", "insertService"} => q \notin DOMAIN services'
      <3>1. pc'[r] \in {"max", "insertService"} => r \notin DOMAIN services'
        BY <1>2, <1>3
      <3>2. QED
        BY <1>3, <1>4, <3>1 DEF ServiceOrders, OrdersHeld
    <2>2. ASSUME NEW q \in Requests, pc'[q] \in {"load", "write"}, ~OrderGiven(Target(q))'
          PROVE  services'[Target(q)'].order =
                    IF pc'[q] = "load" THEN held'[q].row.order ELSE held'[q].entity.order
      <3>1. CASE q = r
        <4>1. /\ pc'[r] = "load" /\ j.op \in {"adminUpdate", "adminDelete"} /\ services' = services
              /\ held'[r].row.order = services[j.service].order
          BY <2>2, <3>1 DEF ServiceStarted, serviceTables, LateParts
        <4>2. Target(r)' = j.service
          BY <1>2, <4>1 DEF Target, Creates
        <4>3. QED
          BY <3>1, <4>1, <4>2
      <3>2. CASE q # r
        <4>1. pc[q] \in {"load", "write"} /\ Target(q) \in DOMAIN services
          BY <1>4, <2>2, <3>2 DEF InProgress
        <4>2. ~OrderGiven(Target(q))
          BY <1>1, <1>4, <2>2, <3>2
        <4>3. services'[Target(q)'].order = services[Target(q)].order
          BY <1>3, <1>4, <3>2, <4>1
        <4>4. QED
          BY <1>4, <3>2, <4>1, <4>2, <4>3 DEF ServiceOrders, OrdersHeld
      <3>3. QED
        BY <3>1, <3>2
    <2>3. QED
      BY <2>1, <2>2 DEF OrdersHeld
  <1>6. OrdersAscend'
    <2> SUFFICES ASSUME NEW p \in Arrived', NEW q \in DOMAIN services',
                        job'[p].op = "adminCreate", job'[p].dto.order = Nothing,
                        q = Nobody \/ q \in earlier'[p], ~OrderGiven(q)'
                 PROVE  /\ pc'[p] = "insertService" => held'[p].order > services'[q].order
                        /\ (p \in DOMAIN services' /\ ~OrderGiven(p)') =>
                              services'[p].order > services'[q].order
      BY DEF OrdersAscend
    <2>1. CASE p = r
      <3>1. pc'[r] # "insertService" /\ r \notin DOMAIN services'
        BY <1>2, <1>3, <2>1 DEF ServiceStarted, LateParts
      <3>2. QED
        BY <2>1, <3>1
    <2>2. CASE p # r
      <3>1. p \in Arrived /\ p \in Requests \ {r}
        BY <1>2, <2>2 DEF Arrived
      <3>2. q \in DOMAIN services /\ (q = Nobody \/ q \in earlier[p])
        BY <1>2, <1>3, <1>4, <3>1
      <3>3. ~OrderGiven(q)
        BY <1>1
      <3>4. QED
        BY <1>1, <1>3, <1>4, <3>1, <3>2, <3>3 DEF ServiceOrders, OrdersAscend
    <2>3. QED
      BY <2>1, <2>2
  <1>7. QED
    BY <1>5, <1>6 DEF ServiceOrders

\* An order changes only where it is given.
LEMMA OrderColumn ==
    ASSUME ServiceInv, ServiceOrders, NEW r \in Requests, ServiceWent(r)
    PROVE  \A t \in DOMAIN services : OrderGiven(t) \/ services'[t].order = services[t].order
  <1> SUFFICES ASSUME NEW t \in DOMAIN services, services'[t].order # services[t].order, ~OrderGiven(t)
               PROVE  FALSE
    OBVIOUS
  <1>1. InProgress(r) /\ r \in Arrived
    BY DEF ServiceWent, Goes, InProgress, Arrived
  <1>2. CASE t = r /\ pc[r] = "insertService"
    BY <1>2 DEF ServiceOrders, OrdersHeld
  <1>3. CASE t = Target(r) /\ job[r].op = "update" /\ job[r].dto.order # Nothing
    BY <1>1, <1>3 DEF OrderGiven, Target, Creates
  <1>4. CASE t = Target(r) /\ pc[r] = "write" /\ services'[t].order = held[r].entity.order
    BY <1>4 DEF ServiceOrders, OrdersHeld
  <1>5. QED
    BY <1>2, <1>3, <1>4 DEF ServiceWent, OrdersWent

LEMMA GoKeepsServiceOrders ==
    ASSUME ServiceInv, ServiceInv', ServiceOrders, NEW r \in Requests, ServiceWent(r)
    PROVE  ServiceOrders'
  <1>0. HttpInv /\ Goes(r) /\ ArrivedStay /\ OrdersWent(r)
    BY StepsLeaveArrived DEF ServiceInv, ServiceWent
  <1>1. \A s : OrderGiven(s) => OrderGiven(s)'
    BY <1>0, OrdersStayGiven
  <1>2. /\ r \in Arrived /\ r # Nobody /\ Arrived' = Arrived /\ job' = job /\ earlier' = earlier
        /\ \A q \in Requests : r \notin earlier[q]
        /\ \A q : Target(q)' = Target(q)
        /\ InProgress(r)
        /\ \A q \in Requests \ {r} : pc'[q] = pc[q] /\ held'[q] = held[q]
    <2>1. /\ job' = job /\ earlier' = earlier /\ Arrived' = Arrived /\ InProgress(r)
          /\ \A q \in Requests \ {r} : pc'[q] = pc[q] /\ held'[q] = held[q]
      BY <1>0, GoFacts, GoKeepsHttpInv DEF Goes
    <2>2. r \in Arrived /\ r # Nobody /\ \A q \in Requests : r \notin earlier[q]
      BY <1>0, <2>1, RequestConstants DEF Arrived, InProgress, HttpInv, Answered
    <2>3. QED
      BY <2>1, <2>2 DEF Target, Creates
  <1>3. /\ DOMAIN services \subseteq DOMAIN services' /\ DOMAIN services' \subseteq DOMAIN services \cup {r}
        /\ r \in DOMAIN services' \ DOMAIN services =>
              pc[r] = "insertService" /\ services'[r].order = held[r].order
    BY <1>0 DEF OrdersWent
  <1>4. \A t \in DOMAIN services : OrderGiven(t) \/ services'[t].order = services[t].order
    BY OrderColumn
  <1>5. \A q \in Requests :
           (InProgress(q) /\ pc[q] \notin {"max", "insertService"}) => Target(q) \in DOMAIN services
    BY DEF ServiceInv, ServiceWork
  <1>6. OrdersHeld'
    <2>1. \A q \in Requests : pc'[q] \in {"max", "insertService"} => q \notin DOMAIN services'
      <3>1. ASSUME pc'[r] \in {"max", "insertService"} PROVE r \notin DOMAIN services'
        <4>1. pc[r] = "max"
          BY <1>0, <3>1 DEF OrdersWent
        <4>2. QED
          BY <1>3, <4>1 DEF ServiceOrders, OrdersHeld
      <3>2. QED
        BY <1>2, <1>3, <3>1 DEF ServiceOrders, OrdersHeld
    <2>2. ASSUME NEW q \in Requests, pc'[q] \in {"load", "write"}, ~OrderGiven(Target(q))'
          PROVE  services'[Target(q)'].order =
                    IF pc'[q] = "load" THEN held'[q].row.order ELSE held'[q].entity.order
      <3>1. ~OrderGiven(Target(q))
        BY <1>1, <1>2, <2>2
      <3>2. CASE q = r
        <4>1. pc'[r] = "write" /\ pc[r] = "load" /\ held'[r].entity = held[r].row
          BY <1>0, <2>2, <3>2 DEF OrdersWent
        <4>2. Target(r) \in DOMAIN services
          BY <1>2, <1>5, <4>1
        <4>3. services[Target(r)].order = held[r].row.order
          BY <3>1, <3>2, <4>1 DEF ServiceOrders, OrdersHeld
        <4>4. QED
          BY <1>2, <1>4, <3>1, <3>2, <4>1, <4>2, <4>3
      <3>3. CASE q # r
        <4>1. pc[q] \in {"load", "write"} /\ Target(q) \in DOMAIN services
          BY <1>2, <1>5, <2>2, <3>3 DEF InProgress
        <4>2. QED
          BY <1>2, <1>4, <3>1, <3>3, <4>1 DEF ServiceOrders, OrdersHeld
      <3>4. QED
        BY <3>2, <3>3
    <2>3. QED
      BY <2>1, <2>2 DEF OrdersHeld
  <1>7. OrdersAscend'
    <2> SUFFICES ASSUME NEW p \in Arrived, NEW q \in DOMAIN services',
                        job[p].op = "adminCreate", job[p].dto.order = Nothing,
                        q = Nobody \/ q \in earlier[p], ~OrderGiven(q)'
                 PROVE  /\ pc'[p] = "insertService" => held'[p].order > services'[q].order
                        /\ (p \in DOMAIN services' /\ ~OrderGiven(p)') =>
                              services'[p].order > services'[q].order
      BY <1>2 DEF OrdersAscend
    <2>1. q \in DOMAIN services /\ ~OrderGiven(q) /\ services'[q].order = services[q].order
      BY <1>1, <1>2, <1>3, <1>4 DEF Arrived
    <2>2. /\ pc[p] = "insertService" => held[p].order > services[q].order
          /\ (p \in DOMAIN services /\ ~OrderGiven(p)) => services[p].order > services[q].order
      BY <2>1 DEF ServiceOrders, OrdersAscend
    <2>3. pc'[p] = "insertService" => held'[p].order > services'[q].order
      <3>1. CASE p = r
        <4>1. pc'[r] = "insertService" => held'[r].order = MaxOrder + 1
          BY <1>0 DEF OrdersWent
        <4>2. MaxOrder \in Nat /\ services[q].order <= MaxOrder /\ services[q].order \in Nat
          BY <2>1, MaxOrderIsHighest DEF ServiceInv, ServiceRowsOK, ServiceRows
        <4>3. QED
          BY <2>1, <3>1, <4>1, <4>2
      <3>2. CASE p # r
        BY <1>2, <2>1, <2>2, <3>2 DEF Arrived
      <3>3. QED
        BY <3>1, <3>2
    <2>4. (p \in DOMAIN services' /\ ~OrderGiven(p)') => services'[p].order > services'[q].order
      <3>1. CASE p \in DOMAIN services
        BY <1>1, <1>4, <2>1, <2>2, <3>1
      <3>2. CASE p \notin DOMAIN services
        BY <1>3, <2>1, <2>2, <3>2
      <3>3. QED
        BY <3>1, <3>2
    <2>5. QED
      BY <2>3, <2>4
  <1>8. QED
    BY <1>6, <1>7 DEF ServiceOrders

LEMMA LaterServicesFollow == ServiceInv /\ ServiceOrders => LaterServicesComeLater
  <1> SUFFICES ASSUME ServiceInv, ServiceOrders,
                      NEW r \in DOMAIN services \cap Requests, NEW q \in DOMAIN services,
                      job[r].op = "adminCreate", job[r].dto.order = Nothing,
                      q = Nobody \/ q \in earlier[r],
                      \A u \in Requests : (pc[u] # "idle" /\ job[u].op = "update") =>
                         job[u].service \notin {q, r} \/ job[u].dto.order = Nothing
               PROVE  services[r].order > services[q].order
    BY DEF LaterServicesComeLater
  <1>1. ~OrderGiven(q) /\ ~OrderGiven(r)
    BY DEF OrderGiven, Arrived
  <1>2. r \in Arrived
    BY RequestConstants DEF ServiceInv
  <1>3. QED
    BY <1>1, <1>2 DEF ServiceOrders, OrdersAscend

-----------------------------------------------------------------------------
\* What a request holds or has written of regions is of its service, and none if it was to
\* change none.
HeldRegions(r) ==
    /\ pc[r] = "delete" => \A x \in held[r].rows : x.service = Target(r)
    /\ txn[r] # Nothing => /\ \A x \in txn[r].gone : x.service = Target(r)
                           /\ ListOf(r) = Nothing => txn[r].gone = {} /\ txn[r].new = {}

\* Two that replace the regions of a service overlapped, or one without a transaction
\* stopped half way.
RegionsDisturbed(s) ==
    \/ \E v, w \in RegionWriters(s) : Overlap(v, w)
    \/ \E w \in RegionWriters(s) : ~Transactional(w) /\ answer[w] \notin {"none", "ok"}

DoneWriters(s) == {w \in RegionWriters(s) : Succeeded(w)}

RegionsExplained(s) ==
    \/ \E w \in DoneWriters(s) : /\ RegionsOf(s) = WrittenBy(w)
                                 /\ \A v \in DoneWriters(s) : w \notin earlier[v]
    \/ /\ s = Nobody /\ DoneWriters(s) = {} /\ \A x \in RegionsOf(s) : x.by = Nobody
       /\ RegionsOf(s) # {}

\* How far the one that is replacing them has got.
RegionsInHand(w) ==
    LET R == RegionsOf(Target(w))
    IN  /\ pc[w] = "delete" => held[w].rows = R
        /\ pc[w] = "insert" =>
              IF Transactional(w)
              THEN txn[w].gone = R /\ held[w].districts = DOMAIN ListOf(w)
              ELSE R = {NewRegion(w, d) : d \in (DOMAIN ListOf(w) \ held[w].districts) \cap Districts}
        /\ pc[w] \in LateParts =>
              IF Transactional(w) THEN txn[w].gone = R /\ txn[w].new = WrittenBy(w)
                                  ELSE R = WrittenBy(w)

\* One without a transaction lets everybody see it at work; a new service has no regions
\* until then.
ReplacesOpenly(w) ==
    /\ InProgress(w) /\ ~Transactional(w)
    /\ job[w].op = "adminCreate" \/ pc[w] \in LateParts \cup {"insert"}

RegionsFollowed(s) ==
    \/ RegionsDisturbed(s)
    \/ /\ \A w \in RegionWriters(s) : InProgress(w) => RegionsInHand(w)
       /\ (\A w \in RegionWriters(s) : ~ReplacesOpenly(w)) => RegionsExplained(s)

ServiceRegions ==
    /\ \A r \in Requests : HeldRegions(r)
    /\ \A s \in DOMAIN services : RegionsFollowed(s)

LEMMA RegionsAccounted == ServiceInv /\ ServiceRegions => RegionsAreExplained
  <1> SUFFICES ASSUME ServiceInv, ServiceRegions, NEW s \in DOMAIN services
               PROVE  \/ \E w \in DoneWriters(s) : /\ RegionsOf(s) = WrittenBy(w)
                                                   /\ \A v \in DoneWriters(s) : w \notin earlier[v]
                      \/ /\ s = Nobody /\ DoneWriters(s) = {}
                         /\ \A x \in RegionsOf(s) : x.by = Nobody
                         /\ RegionsOf(s) # {}
                      \/ \E v, w \in RegionWriters(s) : Overlap(v, w)
                      \/ \E w \in RegionWriters(s) : ~Transactional(w) /\ ~Succeeded(w)
    BY DEF RegionsAreExplained, DoneWriters
  <1>1. RegionsFollowed(s)
    BY DEF ServiceRegions
  <1>2. CASE RegionsDisturbed(s)
    BY <1>2 DEF RegionsDisturbed, Succeeded
  <1>3. CASE \E w \in RegionWriters(s) : ReplacesOpenly(w)
    <2>1. \A w \in Requests : InProgress(w) => ~Succeeded(w)
      BY DEF ServiceInv, HttpInv, InProgress, Succeeded
    <2>2. QED
      BY <1>3, <2>1 DEF ReplacesOpenly, RegionWriters
  <1>4. CASE RegionsExplained(s)
    BY <1>4 DEF RegionsExplained
  <1>5. QED
    BY <1>1, <1>2, <1>3, <1>4 DEF RegionsFollowed

\* What is asked decides what is written.
LEMMA SameJobWrites ==
    ASSUME NEW w, job'[w] = job[w]
    PROVE  /\ Target(w)' = Target(w) /\ ListOf(w)' = ListOf(w) /\ WrittenBy(w)' = WrittenBy(w)
           /\ (Transactional(w)' <=> Transactional(w))
           /\ \A d : NewRegion(w, d)' = NewRegion(w, d)
  BY DEF WrittenBy, NewRegion, ListOf, Target, Creates, Transactional

LEMMA DisturbedStays ==
    ASSUME ServiceInv, ArrivedStay, NEW s, RegionsDisturbed(s)
    PROVE  RegionsDisturbed(s)'
  <1>1. \A w \in RegionWriters(s) :
           /\ w \in RegionWriters(s)' /\ (Transactional(w)' <=> Transactional(w))
           /\ answer[w] # "none" => answer'[w] = answer[w]
    BY SameJobWrites DEF ArrivedStay, RegionWriters, Arrived
  <1>2. CASE \E v, w \in RegionWriters(s) : Overlap(v, w)
    <2>1. PICK v \in RegionWriters(s), w \in RegionWriters(s) : Overlap(v, w)
      BY <1>2
    <2>2. Overlap(v, w)'
      BY <2>1 DEF ArrivedStay
    <2>3. QED
      BY <1>1, <2>2 DEF RegionsDisturbed
  <1>3. CASE \E w \in RegionWriters(s) : ~Transactional(w) /\ answer[w] \notin {"none", "ok"}
    BY <1>1, <1>3 DEF RegionsDisturbed
  <1>4. QED
    BY <1>2, <1>3 DEF RegionsDisturbed

LEMMA ExplainedStays ==
    ASSUME NEW s, RegionsExplained(s), RegionsOf(s)' = RegionsOf(s), DoneWriters(s)' = DoneWriters(s),
           \A w \in DoneWriters(s) : job'[w] = job[w] /\ earlier'[w] = earlier[w]
    PROVE  RegionsExplained(s)'
  <1>1. \A w \in DoneWriters(s) : WrittenBy(w)' = WrittenBy(w)
    BY SameJobWrites
  <1>2. QED
    BY <1>1 DEF RegionsExplained

LEMMA InHandStays ==
    ASSUME NEW w, job'[w] = job[w], pc'[w] = pc[w], held'[w] = held[w], txn'[w] = txn[w],
           NEW s, s = Target(w), RegionsOf(s)' = RegionsOf(s), RegionsInHand(w)
    PROVE  RegionsInHand(w)'
  <1>1. /\ Target(w)' = Target(w) /\ ListOf(w)' = ListOf(w) /\ WrittenBy(w)' = WrittenBy(w)
        /\ (Transactional(w)' <=> Transactional(w))
        /\ \A d : NewRegion(w, d)' = NewRegion(w, d)
    BY SameJobWrites
  <1>2. RegionsOf(Target(w))' = RegionsOf(Target(w))
    BY <1>1 DEF RegionsOf
  <1>3. QED
    BY <1>1, <1>2 DEF RegionsInHand

\* A start leaves the regions of every service there is.
LEMMA StartKeepsServiceRegions ==
    ASSUME ServiceInv, ServiceRegions, NEW r \in Requests, NEW j, ServiceStarted(r, j)
    PROVE  ServiceRegions'
  <1>0. HttpInv /\ Starts(r, j) /\ ArrivedStay /\ j \in ServiceJobs
    BY StepsLeaveArrived DEF ServiceInv, ServiceStarted
  <1>1. /\ r \notin Arrived /\ r \notin DOMAIN services /\ pc[r] = "idle" /\ pc'[r] # "idle" /\ job'[r] = j
        /\ txn[r] = Nothing /\ answer[r] = "none"
        /\ \A q \in Requests : r \notin earlier[q]
        /\ earlier'[r] \subseteq Requests \ {r}
    BY <1>0, StartFacts, RequestConstants
       DEF Arrived, ServiceInv, HttpInv, Answered, TxnsOK, TxnOK, InProgress
  <1>2. ASSUME NEW q \in Requests \ {r}
        PROVE  /\ pc'[q] = pc[q] /\ job'[q] = job[q] /\ held'[q] = held[q] /\ earlier'[q] = earlier[q]
               /\ answer'[q] = answer[q] /\ txn'[q] = txn[q]
               /\ Target(q)' = Target(q) /\ ListOf(q)' = ListOf(q)
               /\ (Transactional(q)' <=> Transactional(q))
    <2>1. /\ pc'[q] = pc[q] /\ job'[q] = job[q] /\ held'[q] = held[q]
          /\ earlier'[q] = earlier[q] /\ answer'[q] = answer[q]
      BY <1>0, StartFacts
    <2>2. QED
      BY <2>1, SameJobWrites DEF ServiceStarted
  <1>3. ASSUME NEW q \in Requests PROVE HeldRegions(q)'
    <2>1. CASE q = r
      <3>1. pc'[r] # "delete" /\ (txn'[r] # Nothing => txn'[r].gone = {} /\ txn'[r].new = {})
        BY <1>1 DEF ServiceStarted, serviceTables, LateParts
      <3>2. QED
        BY <2>1, <3>1 DEF HeldRegions
    <2>2. CASE q # r
      BY <1>2, <2>2 DEF HeldRegions, ServiceRegions
    <2>3. QED
      BY <2>1, <2>2
  <1>4. ASSUME NEW s \in DOMAIN services, s # r PROVE RegionsFollowed(s)'
    <2>1. CASE RegionsDisturbed(s)'
      BY <2>1 DEF RegionsFollowed
    <2>2. CASE ~RegionsDisturbed(s)'
      <3>1. ~RegionsDisturbed(s) /\ RegionsFollowed(s)
        BY <1>0, <2>2, DisturbedStays DEF ServiceRegions
      <3>2. RegionsOf(s)' = RegionsOf(s)
        BY <1>4 DEF RegionsOf, ServiceStarted, serviceTables
      <3>3. \A w \in Requests \ {r} : w \in RegionWriters(s)' <=> w \in RegionWriters(s)
        BY <1>2 DEF RegionWriters
      <3>4. r \notin RegionWriters(s)
        BY <1>1 DEF RegionWriters
      <3>5. r \in RegionWriters(s)' =>
               /\ ~Succeeded(r)' /\ ~ReplacesOpenly(r)'
               /\ pc'[r] \in {"answered", "columns", "snapshot", "load"}
        <4> SUFFICES ASSUME r \in RegionWriters(s)'
                     PROVE  /\ ~Succeeded(r)' /\ ~ReplacesOpenly(r)'
                            /\ pc'[r] \in {"answered", "columns", "snapshot", "load"}
          OBVIOUS
        <4>1. /\ j.op \in {"update", "adminUpdate"} /\ j.dto.list # Nothing
          <5>1. /\ j.op \in {"create", "adminCreate", "update", "adminUpdate"} /\ j.dto.list # Nothing
                /\ Target(r)' = s
            BY <1>1 DEF RegionWriters, ListOf
          <5>2. QED
            BY <1>1, <1>4, <5>1 DEF Target, Creates
        <4>2. /\ pc'[r] \in {"answered", "columns", "snapshot", "load"} /\ answer'[r] # "ok"
              /\ pc'[r] = "answered" => answer'[r] # "ok"
          BY <1>0, <1>1, <4>1, StartFacts DEF ServiceStarted, LateParts
        <4>3. QED
          BY <1>1, <4>1, <4>2 DEF Succeeded, ReplacesOpenly, Transactional, LateParts
      <3>6. DoneWriters(s)' = DoneWriters(s)
        <4>1. \A w \in Requests : w \in DoneWriters(s)' <=> w \in DoneWriters(s)
          BY <1>2, <3>3, <3>4, <3>5 DEF DoneWriters, Succeeded
        <4>2. QED
          BY <4>1 DEF DoneWriters, RegionWriters
      <3>7. \A w \in RegionWriters(s)' : InProgress(w)' => RegionsInHand(w)'
        <4> SUFFICES ASSUME NEW w \in RegionWriters(s)', InProgress(w)' PROVE RegionsInHand(w)'
          OBVIOUS
        <4>1. w \in Requests
          BY DEF RegionWriters
        <4>2. CASE w = r
          <5>1. pc'[r] \in {"columns", "snapshot", "load"}
            BY <3>5, <4>2 DEF InProgress
          <5>2. QED
            BY <4>2, <5>1 DEF RegionsInHand, LateParts
        <4>3. CASE w # r
          <5>1. w \in RegionWriters(s) /\ InProgress(w) /\ Target(w) = s
            BY <1>2, <3>3, <4>1, <4>3 DEF InProgress, RegionWriters
          <5>2. RegionsInHand(w)
            BY <3>1, <5>1 DEF RegionsFollowed
          <5>3. QED
            BY <1>2, <3>2, <4>1, <4>3, <5>1, <5>2, InHandStays
        <4>4. QED
          BY <4>2, <4>3
      <3>8. (\A w \in RegionWriters(s)' : ~ReplacesOpenly(w)') => RegionsExplained(s)'
        <4> SUFFICES ASSUME \A w \in RegionWriters(s)' : ~ReplacesOpenly(w)' PROVE RegionsExplained(s)'
          OBVIOUS
        <4>1. \A w \in RegionWriters(s) : ~ReplacesOpenly(w)
          <5> SUFFICES ASSUME NEW w \in RegionWriters(s), ReplacesOpenly(w) PROVE FALSE
            OBVIOUS
          <5>1. w \in Requests \ {r} /\ w \in RegionWriters(s)'
            BY <3>3, <3>4 DEF RegionWriters
          <5>2. ReplacesOpenly(w)'
            BY <1>2, <5>1 DEF ReplacesOpenly, InProgress
          <5>3. QED
            BY <5>1, <5>2
        <4>2. RegionsExplained(s)
          BY <3>1, <4>1 DEF RegionsFollowed
        <4>3. \A w \in DoneWriters(s) : job'[w] = job[w] /\ earlier'[w] = earlier[w]
          BY <1>2, <3>4 DEF DoneWriters, RegionWriters
        <4>4. QED
          BY <3>2, <3>6, <4>2, <4>3, ExplainedStays
      <3>9. QED
        BY <3>7, <3>8 DEF RegionsFollowed
    <2>3. QED
      BY <2>1, <2>2
  <1>5. ASSUME r \in DOMAIN services' PROVE RegionsFollowed(r)'
    <2>1. /\ j.op = "create" /\ pc'[r] = "answered" /\ answer'[r] = "ok"
          /\ DOMAIN j.dto.list \subseteq Districts
          /\ regions' = regions \cup
                {[service |-> r, district |-> d, fee |-> j.dto.list[d], by |-> r] :
                    d \in DOMAIN j.dto.list}
      BY <1>1, <1>5 DEF ServiceStarted, serviceTables
    <2>2. Target(r)' = r /\ ListOf(r)' = j.dto.list /\ ListOf(r)' # Nothing
      <3>1. j.dto \in Drafts
        BY <1>0, <2>1 DEF ServiceJobs
      <3>2. j.dto.list # Nothing
        BY <3>1, CatalogConstants
      <3>3. QED
        BY <1>1, <2>1, <3>2 DEF Target, Creates, ListOf
    <2>3. r \in DoneWriters(r)'
      BY <1>1, <2>1, <2>2 DEF DoneWriters, RegionWriters, Succeeded
    <2>4. RegionsOf(r)' = WrittenBy(r)'
      <3>1. \A x \in regions : x.service # r
        BY <1>1 DEF ServiceInv, ServiceRowsOK
      <3>2. WrittenBy(r)' = {[service |-> r, district |-> d, fee |-> j.dto.list[d], by |-> r] :
                                d \in DOMAIN j.dto.list}
        BY <2>1, <2>2 DEF WrittenBy, NewRegion
      <3>3. \A x \in WrittenBy(r)' : x.service = r
        BY <3>2
      <3>4. regions' = regions \cup WrittenBy(r)'
        BY <2>1, <3>2
      <3>5. \A x : x \in RegionsOf(r)' <=> x \in WrittenBy(r)'
        BY <3>1, <3>3, <3>4 DEF RegionsOf
      <3>6. QED
        BY <3>5
    <2>5. \A v \in DoneWriters(r)' : r \notin earlier'[v]
      <3>1. \A v \in Requests : r \notin earlier'[v]
        BY <1>1, <1>2
      <3>2. QED
        BY <3>1 DEF DoneWriters, RegionWriters
    <2>6. RegionsExplained(r)'
      BY <2>3, <2>4, <2>5 DEF RegionsExplained
    <2>7. \A w \in RegionWriters(r)' : ~InProgress(w)'
      <3> SUFFICES ASSUME NEW w \in RegionWriters(r)', InProgress(w)' PROVE FALSE
        OBVIOUS
      <3>1. w \in Requests \ {r}
        BY <2>1 DEF RegionWriters, InProgress
      <3>2. InProgress(w) /\ Target(w) = r /\ ServiceWork(w)
        BY <1>2, <3>1 DEF RegionWriters, InProgress, ServiceInv
      <3>3. QED
        BY <1>1, <3>1, <3>2 DEF ServiceWork, Target, Creates
    <2>8. QED
      BY <2>6, <2>7 DEF RegionsFollowed
  <1>6. DOMAIN services' \subseteq DOMAIN services \cup {r}
    BY DEF ServiceStarted, serviceTables
  <1>7. QED
    BY <1>1, <1>3, <1>4, <1>5, <1>6 DEF ServiceRegions

\* What a later step leaves alone.
LEMMA ServiceGoFacts ==
    ASSUME ServiceInv, NEW r \in Requests, ServiceWent(r)
    PROVE  /\ Goes(r) /\ ArrivedStay /\ InProgress(r) /\ r \in Arrived /\ answer[r] = "none"
           /\ pc'[r] # "idle" /\ (answer'[r] # "none" <=> pc'[r] = "answered")
           /\ ServiceWork(r) /\ TxnOK(r) /\ ServiceRowsOK /\ job[r] \in ServiceJobs
           /\ job' = job /\ earlier' = earlier
           /\ \A q \in Requests : r \notin earlier[q]
           /\ \A q \in Requests \ {r} : /\ pc'[q] = pc[q] /\ held'[q] = held[q]
                                        /\ answer'[q] = answer[q] /\ txn'[q] = txn[q]
           /\ \A s : RegionWriters(s)' = RegionWriters(s)
  <1>0. HttpInv /\ Goes(r) /\ ArrivedStay
    BY StepsLeaveArrived DEF ServiceInv, ServiceWent
  <1>1. InProgress(r)
    BY <1>0 DEF Goes
  <1>2. /\ job' = job /\ earlier' = earlier /\ pc'[r] # "idle" /\ pc[r] # "idle" /\ answer[r] = "none"
        /\ (answer'[r] # "none" <=> pc'[r] = "answered")
        /\ \A q \in Requests \ {r} : /\ pc'[q] = pc[q] /\ held'[q] = held[q] /\ answer'[q] = answer[q]
    BY <1>0, GoFacts
  <1>3. \A q \in Requests : r \notin earlier[q]
    BY <1>0, <1>1 DEF HttpInv, Answered, InProgress
  <1>4. \A s : RegionWriters(s)' = RegionWriters(s)
    <2>1. \A q \in Requests : pc'[q] # "idle" <=> pc[q] # "idle"
      BY <1>2
    <2>2. QED
      BY <1>2, <2>1 DEF RegionWriters, Target, Creates, ListOf
  <1>5. QED
    BY <1>0, <1>1, <1>2, <1>3, <1>4, UnderWay DEF ServiceWent

LEMMA GoKeepsHeldRegions ==
    ASSUME ServiceInv, ServiceRegions, NEW r \in Requests, ServiceWent(r)
    PROVE  \A q \in Requests : HeldRegions(q)'
  <1>0. /\ InProgress(r) /\ ServiceWork(r) /\ TxnOK(r) /\ job' = job
        /\ \A q \in Requests \ {r} : pc'[q] = pc[q] /\ held'[q] = held[q] /\ txn'[q] = txn[q]
    BY ServiceGoFacts
  <1>1. \A q : Target(q)' = Target(q) /\ ListOf(q)' = ListOf(q)
    BY <1>0, SameJobWrites
  <1>2. HeldRegions(r)'
    <2>0. HeldRegions(r) /\ (pc[r] \in {"delete", "insert"} => ListOf(r) # Nothing)
      BY <1>0 DEF ServiceRegions, ServiceWork
    <2>1. pc'[r] = "delete" => \A x \in held'[r].rows : x.service = Target(r)
      BY DEF ServiceWent, RegionsStayed, RegionsDeleted, RegionsInserted, RegionInserted,
         RegionsCommitted,
             LateParts, RegionsOf
    <2>2. txn'[r] # Nothing =>
             /\ \A x \in txn'[r].gone : x.service = Target(r)
             /\ ListOf(r) = Nothing => txn'[r].gone = {} /\ txn'[r].new = {}
      <3>1. CASE RegionsStayed(r)
        BY <2>0, <3>1 DEF RegionsStayed, SameWrites, HeldRegions
      <3>2. CASE RegionsDeleted(r)
        BY <2>0, <3>2 DEF RegionsDeleted, HeldRegions
      <3>3. CASE RegionsInserted(r)
        <4>1. txn[r] # Nothing
          BY <1>0, <3>3 DEF RegionsInserted, TxnOK
        <4>2. QED
          BY <2>0, <3>3, <4>1 DEF RegionsInserted, HeldRegions
      <3>4. CASE RegionInserted(r)
        BY <2>0, <3>4 DEF RegionInserted, HeldRegions
      <3>5. CASE RegionsCommitted(r)
        BY <3>5 DEF RegionsCommitted
      <3>6. QED
        BY <3>1, <3>2, <3>3, <3>4, <3>5 DEF ServiceWent
    <2>3. QED
      BY <1>1, <2>1, <2>2 DEF HeldRegions
  <1>3. ASSUME NEW q \in Requests \ {r} PROVE HeldRegions(q)'
    BY <1>0, <1>1 DEF HeldRegions, ServiceRegions
  <1>4. QED
    BY <1>2, <1>3

\* Only those that are to replace the regions of a service do.
LEMMA RegionsOfOthers ==
    ASSUME ServiceInv, ServiceRegions, NEW r \in Requests, ServiceWent(r), NEW s, r \notin RegionWriters(s)
    PROVE  RegionsOf(s)' = RegionsOf(s)
  <1>0. /\ InProgress(r) /\ ServiceWork(r) /\ TxnOK(r) /\ HeldRegions(r)
    BY ServiceGoFacts DEF ServiceRegions
  <1>1. job[r].op \in Writers => Target(r) # s \/ ListOf(r) = Nothing
    BY <1>0 DEF RegionWriters, Writers, InProgress
  <1>2. CASE RegionsStayed(r) \/ RegionsInserted(r)
    BY <1>2 DEF RegionsStayed, RegionsInserted, RegionsOf
  <1>3. CASE RegionsDeleted(r)
    <2>1. Target(r) # s
      BY <1>0, <1>1, <1>3 DEF RegionsDeleted, ServiceWork, EarlyParts
    <2>2. QED
      BY <1>0, <1>3, <2>1 DEF RegionsDeleted, RegionsOf, HeldRegions
  <1>4. CASE RegionInserted(r)
    <2>1. Target(r) # s
      BY <1>0, <1>1, <1>4 DEF RegionInserted, ServiceWork, EarlyParts
    <2>2. QED
      BY <1>4, <2>1 DEF RegionInserted, RegionsOf, NewRegion
  <1>5. CASE RegionsCommitted(r)
    <2>1. txn[r] # Nothing /\ \A x \in txn[r].new : x.service = Target(r)
      BY <1>0, <1>5 DEF RegionsCommitted, TxnOK
    <2>2. Target(r) # s \/ ListOf(r) = Nothing
      BY <1>1, <1>5 DEF RegionsCommitted, Transactional, Writers
    <2>3. QED
      BY <1>0, <1>5, <2>1, <2>2 DEF RegionsCommitted, After, HeldRegions, RegionsOf
  <1>6. QED
    BY <1>2, <1>3, <1>4, <1>5 DEF ServiceWent

LEMMA GoKeepsOthersRegions ==
    ASSUME ServiceInv, ServiceRegions, NEW r \in Requests, ServiceWent(r),
           NEW s \in DOMAIN services, r \notin RegionWriters(s)
    PROVE  RegionsFollowed(s)'
  <1>0. /\ ArrivedStay /\ job' = job /\ earlier' = earlier /\ RegionWriters(s)' = RegionWriters(s)
        /\ RegionsOf(s)' = RegionsOf(s)
        /\ \A q \in Requests \ {r} : /\ pc'[q] = pc[q] /\ held'[q] = held[q]
                                     /\ answer'[q] = answer[q] /\ txn'[q] = txn[q]
        /\ RegionsFollowed(s)
    BY ServiceGoFacts, RegionsOfOthers DEF ServiceRegions
  <1>1. CASE RegionsDisturbed(s)
    BY <1>0, <1>1, DisturbedStays DEF RegionsFollowed
  <1>2. CASE ~RegionsDisturbed(s)
    <2>1. \A w \in RegionWriters(s) : w \in Requests \ {r} /\ Target(w) = s
      BY DEF RegionWriters
    <2>2. DoneWriters(s)' = DoneWriters(s)
      BY <1>0, <2>1 DEF DoneWriters, Succeeded
    <2>3. ASSUME NEW w \in RegionWriters(s), InProgress(w)' PROVE RegionsInHand(w)'
      <3>1. InProgress(w)
        BY <1>0, <2>1, <2>3 DEF InProgress
      <3>2. RegionsInHand(w)
        BY <1>0, <1>2, <3>1 DEF RegionsFollowed
      <3>3. QED
        BY <1>0, <2>1, <3>2, InHandStays
    <2>4. ASSUME \A w \in RegionWriters(s) : ~ReplacesOpenly(w)' PROVE RegionsExplained(s)'
      <3>1. \A w \in RegionWriters(s) : ~ReplacesOpenly(w)
        BY <1>0, <2>1, <2>4 DEF ReplacesOpenly, InProgress, Transactional
      <3>2. RegionsExplained(s)
        BY <1>0, <1>2, <3>1 DEF RegionsFollowed
      <3>3. QED
        BY <1>0, <2>2, <3>2, ExplainedStays
    <2>5. QED
      BY <1>0, <2>3, <2>4 DEF RegionsFollowed
  <1>3. QED
    BY <1>1, <1>2

\* The one that replaces them, alone.
LEMMA GoKeepsOwnRegions ==
    ASSUME ServiceInv, ServiceRegions, NEW r \in Requests, ServiceWent(r),
           NEW s \in DOMAIN services', r \in RegionWriters(s)
    PROVE  RegionsFollowed(s)'
  <1> SUFFICES ASSUME ~RegionsDisturbed(s)' PROVE RegionsFollowed(s)'
    BY DEF RegionsFollowed
  <1>0. /\ HttpInv /\ ArrivedStay /\ InProgress(r) /\ r \in Arrived /\ answer[r] = "none"
        /\ pc'[r] # "idle" /\ (answer'[r] # "none" <=> pc'[r] = "answered")
        /\ ServiceWork(r) /\ TxnOK(r) /\ job[r] \in ServiceJobs /\ job' = job /\ earlier' = earlier
        /\ \A q \in Requests : r \notin earlier[q]
        /\ \A q \in Requests \ {r} : pc'[q] = pc[q] /\ answer'[q] = answer[q]
        /\ RegionWriters(s)' = RegionWriters(s)
    BY ServiceGoFacts DEF ServiceInv
  <1>1. /\ Target(r) = s /\ ListOf(r) # Nothing
        /\ job[r].op \in {"create", "adminCreate", "update", "adminUpdate"}
        /\ Target(r)' = s /\ ListOf(r)' = ListOf(r) /\ WrittenBy(r)' = WrittenBy(r)
        /\ (Transactional(r)' <=> Transactional(r))
        /\ \A d : NewRegion(r, d)' = NewRegion(r, d)
    BY <1>0, SameJobWrites DEF RegionWriters
  <1>2. ~RegionsDisturbed(s)
    BY <1>0, DisturbedStays
  <1>3. \A w \in RegionWriters(s) : w # r => ~InProgress(w) /\ ~InProgress(w)'
    <2>1. \A w \in RegionWriters(s) : w # r => ~InProgress(w)
      BY <1>0, <1>2, InProgressOverlap DEF RegionsDisturbed, RegionWriters
    <2>2. QED
      BY <1>0, <2>1 DEF RegionWriters, InProgress
  <1>4. s \in DOMAIN services =>
           RegionsInHand(r) /\ (~ReplacesOpenly(r) => RegionsExplained(s))
    BY <1>0, <1>2, <1>3 DEF ServiceRegions, RegionsFollowed, ReplacesOpenly
  <1>5. SUFFICES /\ InProgress(r)' => RegionsInHand(r)'
                 /\ ~ReplacesOpenly(r)' => RegionsExplained(s)'
    BY <1>0, <1>3 DEF RegionsFollowed
  <1>6. ASSUME ~Succeeded(r)', RegionsOf(s)' = RegionsOf(s), RegionsExplained(s)
        PROVE  RegionsExplained(s)'
    <2>1. DoneWriters(s)' = DoneWriters(s)
      BY <1>0, <1>6 DEF DoneWriters, Succeeded, RegionWriters
    <2>2. QED
      BY <1>0, <1>6, <2>1, ExplainedStays
  <1>7. ASSUME Succeeded(r)', RegionsOf(s)' = WrittenBy(r)
        PROVE  RegionsExplained(s)'
    <2>1. r \in DoneWriters(s)'
      BY <1>0, <1>7 DEF DoneWriters
    <2>2. \A v \in DoneWriters(s)' : r \notin earlier'[v]
      BY <1>0 DEF DoneWriters, RegionWriters
    <2>3. QED
      BY <1>1, <1>7, <2>1, <2>2 DEF RegionsExplained
  <1>8. pc'[r] = "answered" /\ ~Transactional(r) => Succeeded(r)'
    BY <1>0, <1>1 DEF RegionsDisturbed, Succeeded
  <1>9. CASE s \notin DOMAIN services
    <2>1. pc[r] = "insertService" /\ pc'[r] = "snapshot" /\ job[r].op = "adminCreate"
      BY <1>0, <1>9 DEF ServiceWent, OrdersWent, ServiceWork
    <2>2. InProgress(r)' /\ ReplacesOpenly(r)'
      BY <1>0, <1>1, <2>1 DEF ReplacesOpenly, InProgress, Transactional
    <2>3. RegionsInHand(r)'
      BY <2>1 DEF RegionsInHand, LateParts
    <2>4. QED
      BY <2>2, <2>3
  <1>10. CASE s \in DOMAIN services /\ RegionsStayed(r)
    <2>1. RegionsOf(s)' = RegionsOf(s)
      BY <1>10 DEF RegionsStayed, RegionsOf
    <2>2. CASE pc'[r] = "answered" /\ answer'[r] # "ok" /\ txn'[r] = Nothing
      <3>1. Transactional(r) /\ ~Succeeded(r)' /\ ~ReplacesOpenly(r) /\ ~InProgress(r)'
        BY <1>8, <2>2 DEF Succeeded, ReplacesOpenly, InProgress
      <3>2. QED
        BY <1>4, <1>6, <1>10, <2>1, <3>1
    <2>3. CASE pc'[r] = "answered" /\ pc[r] = "finish" /\ ~Transactional(r)
      <3>1. Succeeded(r)' /\ ~InProgress(r)'
        BY <1>8, <2>3 DEF InProgress
      <3>2. RegionsOf(s) = WrittenBy(r)
        BY <1>1, <1>4, <1>10, <2>3 DEF RegionsInHand, LateParts
      <3>3. QED
        BY <1>7, <2>1, <3>1, <3>2
    <2>4. CASE /\ pc'[r] \notin {"answered", "insert"} /\ SameWrites(r)
               /\ pc'[r] = "delete" => held'[r].rows = RegionsOf(Target(r))
               /\ pc'[r] \in LateParts => pc[r] \in LateParts
               /\ pc[r] \in LateParts \cup {"insert"} => pc'[r] \in LateParts
      <3>1. ~Succeeded(r)'
        BY <1>0, <2>4 DEF Succeeded
      <3>2. ~ReplacesOpenly(r)' => ~ReplacesOpenly(r)
        BY <1>0, <1>1, <2>4 DEF ReplacesOpenly, InProgress
      <3>3. pc'[r] = "delete" => held'[r].rows = RegionsOf(s)'
        BY <1>1, <2>1, <2>4
      <3>4. pc'[r] \in LateParts =>
               IF Transactional(r) THEN txn'[r].gone = RegionsOf(s) /\ txn'[r].new = WrittenBy(r)
                                   ELSE RegionsOf(s) = WrittenBy(r)
        BY <1>1, <1>4, <1>10, <2>4 DEF RegionsInHand, SameWrites
      <3>5. RegionsOf(Target(r))' = RegionsOf(s)'
        BY <1>1 DEF RegionsOf
      <3>6. RegionsInHand(r)'
        BY <1>1, <2>1, <2>4, <3>3, <3>4, <3>5 DEF RegionsInHand
      <3>7. QED
        BY <1>4, <1>6, <1>10, <2>1, <3>1, <3>2, <3>6
    <2>5. QED
      BY <1>1, <1>10, <2>2, <2>3, <2>4 DEF RegionsStayed
  <1>11. CASE s \in DOMAIN services /\ RegionsDeleted(r)
    <2>1. /\ pc[r] = "delete" /\ pc'[r] = "insert" /\ held'[r].districts = DOMAIN ListOf(r)
          /\ held[r].rows = RegionsOf(s)
      BY <1>1, <1>4, <1>11 DEF RegionsDeleted, RegionsInHand
    <2>2. RegionsOf(Target(r))' = RegionsOf(s)'
      BY <1>1 DEF RegionsOf
    <2>3. ~Succeeded(r)'
      BY <1>0, <2>1 DEF Succeeded
    <2>4. CASE Transactional(r)
      <3>1. RegionsOf(s)' = RegionsOf(s) /\ txn'[r].gone = RegionsOf(s)
        BY <1>11, <2>1, <2>4 DEF RegionsDeleted, RegionsOf
      <3>2. RegionsInHand(r)'
        BY <1>1, <2>1, <2>2, <2>4, <3>1 DEF RegionsInHand, LateParts
      <3>3. ~ReplacesOpenly(r)
        BY <2>4 DEF ReplacesOpenly
      <3>4. QED
        BY <1>4, <1>6, <1>11, <2>3, <3>1, <3>2, <3>3
    <2>5. CASE ~Transactional(r)
      <3>1. RegionsOf(s)' = {}
        BY <1>11, <2>1, <2>5 DEF RegionsDeleted, RegionsOf
      <3>2. {NewRegion(r, d) : d \in (DOMAIN ListOf(r) \ DOMAIN ListOf(r)) \cap Districts} = {}
        OBVIOUS
      <3>3. RegionsInHand(r)'
        BY <1>1, <2>1, <2>2, <2>5, <3>1, <3>2 DEF RegionsInHand, LateParts
      <3>4. ReplacesOpenly(r)'
        BY <1>1, <2>1, <2>5 DEF ReplacesOpenly, InProgress
      <3>5. QED
        BY <3>3, <3>4
    <2>6. QED
      BY <2>4, <2>5
  <1>12. CASE s \in DOMAIN services /\ RegionsInserted(r)
    <2>1. /\ pc[r] = "insert" /\ pc'[r] \in LateParts /\ Transactional(r) /\ regions' = regions
          /\ txn'[r].gone = RegionsOf(s) /\ held[r].districts = DOMAIN ListOf(r)
          /\ held[r].districts \subseteq Districts
          /\ txn'[r].new = {NewRegion(r, d) : d \in held[r].districts}
      BY <1>1, <1>4, <1>12 DEF RegionsInserted, RegionsInHand
    <2>2. RegionsOf(s)' = RegionsOf(s) /\ RegionsOf(Target(r))' = RegionsOf(s)
      BY <1>1, <2>1 DEF RegionsOf
    <2>3. txn'[r].new = WrittenBy(r)
      BY <2>1 DEF WrittenBy
    <2>4. RegionsInHand(r)'
      BY <1>1, <2>1, <2>2, <2>3 DEF RegionsInHand, LateParts
    <2>5. ~Succeeded(r)' /\ ~ReplacesOpenly(r)
      BY <1>0, <2>1 DEF Succeeded, LateParts, ReplacesOpenly
    <2>6. QED
      BY <1>4, <1>6, <1>12, <2>2, <2>4, <2>5
  <1>13. CASE s \in DOMAIN services /\ RegionInserted(r)
    <2> DEFINE rest == held[r].districts
    <2>1. PICK d \in rest :
             /\ regions' = regions \cup {NewRegion(r, e) : e \in {d} \cap Districts}
             /\ \/ rest = {d} /\ pc'[r] \in LateParts
                \/ pc'[r] = "insert" /\ held'[r].districts = rest \ {d}
      BY <1>13 DEF RegionInserted
    <2>2. /\ ~Transactional(r) /\ rest \subseteq DOMAIN ListOf(r)
          /\ RegionsOf(s) = {NewRegion(r, e) : e \in (DOMAIN ListOf(r) \ rest) \cap Districts}
      BY <1>0, <1>1, <1>4, <1>13 DEF RegionInserted, RegionsInHand, ServiceWork
    <2>3. RegionsOf(s)' = {NewRegion(r, e) : e \in (DOMAIN ListOf(r) \ (rest \ {d})) \cap Districts}
      <3>1. \A e : NewRegion(r, e).service = s
        BY <1>1 DEF NewRegion
      <3>2. RegionsOf(s)' = RegionsOf(s) \cup {NewRegion(r, e) : e \in {d} \cap Districts}
        BY <2>1, <3>1 DEF RegionsOf
      <3>3. QED
        BY <2>1, <2>2, <3>2
    <2>4. RegionsOf(Target(r))' = RegionsOf(s)'
      BY <1>1 DEF RegionsOf
    <2>5. pc'[r] \in LateParts => RegionsOf(s)' = WrittenBy(r)
      BY <2>1, <2>3 DEF WrittenBy, LateParts
    <2>6. RegionsInHand(r)'
      BY <1>1, <2>1, <2>2, <2>3, <2>4, <2>5 DEF RegionsInHand, LateParts
    <2>7. ReplacesOpenly(r)'
      BY <1>1, <2>1, <2>2 DEF ReplacesOpenly, InProgress, LateParts
    <2>8. QED
      BY <2>6, <2>7
  <1>14. CASE s \in DOMAIN services /\ RegionsCommitted(r)
    <2>1. txn[r].gone = RegionsOf(s) /\ txn[r].new = WrittenBy(r)
      BY <1>1, <1>4, <1>14 DEF RegionsCommitted, RegionsInHand, LateParts
    <2>2. \A x \in WrittenBy(r) : x.service = s
      BY <1>1 DEF WrittenBy, NewRegion
    <2>3. regions' = (regions \ RegionsOf(s)) \cup WrittenBy(r)
      BY <1>14, <2>1 DEF RegionsCommitted, After
    <2>4. RegionsOf(s)' = WrittenBy(r)
      <3>1. \A x : x \in RegionsOf(s)' <=> x \in WrittenBy(r)
        BY <2>2, <2>3 DEF RegionsOf
      <3>2. QED
        BY <3>1
    <2>5. Succeeded(r)' /\ ~InProgress(r)'
      BY <1>14 DEF RegionsCommitted, Succeeded, InProgress
    <2>6. QED
      BY <1>7, <2>4, <2>5
  <1>15. QED
    BY <1>9, <1>10, <1>11, <1>12, <1>13, <1>14 DEF ServiceWent

LEMMA GoKeepsServiceRegions ==
    ASSUME ServiceInv, ServiceRegions, NEW r \in Requests, ServiceWent(r)
    PROVE  ServiceRegions'
  <1>1. ASSUME NEW s \in DOMAIN services' PROVE RegionsFollowed(s)'
    <2>1. CASE r \in RegionWriters(s)
      BY <2>1, GoKeepsOwnRegions
    <2>2. CASE r \notin RegionWriters(s)
      <3>1. s \in DOMAIN services
        <4> SUFFICES ASSUME s \notin DOMAIN services PROVE FALSE
          OBVIOUS
        <4>1. s = r /\ pc[r] = "insertService" /\ InProgress(r)
          BY ServiceGoFacts DEF ServiceWent, OrdersWent
        <4>2. job[r].op = "adminCreate" /\ job[r] \in ServiceJobs
          BY <4>1, ServiceGoFacts DEF ServiceWork
        <4>3. ListOf(r) # Nothing /\ Target(r) = r
          BY <4>2, CatalogConstants DEF ServiceJobs, ListOf, Target, Creates
        <4>4. QED
          BY <2>2, <4>1, <4>2, <4>3 DEF RegionWriters, InProgress
      <3>2. QED
        BY <2>2, <3>1, GoKeepsOthersRegions
    <2>3. QED
      BY <2>1, <2>2
  <1>2. QED
    BY <1>1, GoKeepsHeldRegions DEF ServiceRegions

-----------------------------------------------------------------------------
ServicePast == ServiceOrders /\ ServiceRegions

ServiceHistory == ServiceInv /\ ServicePast

LEMMA ServicePastStarts == ServiceInit => ServicePast
  <1> SUFFICES ASSUME ServiceInit PROVE ServicePast
    OBVIOUS
  <1>1. /\ Arrived = {} /\ \A r \in Requests : pc[r] = "idle" /\ txn[r] = Nothing
        /\ DOMAIN services = {Nobody}
    BY DEF ServiceInit, ServiceTablesSeeded, HttpInit, Arrived
  <1>2. PICK d \in Districts :
           regions = {[service |-> Nobody, district |-> d, fee |-> 1, by |-> Nobody]}
    BY DEF ServiceInit, ServiceTablesSeeded
  <1>3. \A s : RegionWriters(s) = {} /\ DoneWriters(s) = {}
    BY <1>1 DEF RegionWriters, DoneWriters
  <1>4. RegionsExplained(Nobody)
    <2>1. RegionsOf(Nobody) = regions
      BY <1>2 DEF RegionsOf
    <2>2. QED
      BY <1>2, <1>3, <2>1 DEF RegionsExplained
  <1>5. ServiceOrders
    BY <1>1 DEF ServiceOrders, OrdersHeld, OrdersAscend
  <1>6. ServiceRegions
    BY <1>1, <1>3, <1>4 DEF ServiceRegions, HeldRegions, RegionsFollowed
  <1>7. QED
    BY <1>5, <1>6 DEF ServicePast

LEMMA ServiceNextKeepsPast ==
    ASSUME ServiceHistory, ServiceInv', [ServiceNext]_serviceVars
    PROVE  ServicePast'
  <1>1. ASSUME NEW r \in Requests, ServiceRequest(r) PROVE ServicePast'
    <2>1. PICK j : ServiceStarted(r, j)
      BY <1>1, ServiceStarts DEF ServiceHistory
    <2>2. QED
      BY <2>1, StartKeepsServiceOrders, StartKeepsServiceRegions DEF ServiceHistory, ServicePast
  <1>2. ASSUME NEW r \in Requests, ServiceStep(r) PROVE ServicePast'
    <2>1. ServiceWent(r)
      BY <1>2, ServiceGoes DEF ServiceHistory
    <2>2. QED
      BY <2>1, GoKeepsServiceOrders, GoKeepsServiceRegions DEF ServiceHistory, ServicePast
  <1>3. CASE UNCHANGED serviceVars
    <2> USE <1>3 DEF serviceVars, serviceTables, httpVars, ServiceHistory, ServicePast
    <2>1. ServiceOrders'
      BY DEF ServiceOrders, OrdersHeld, OrdersAscend, OrderGiven, Arrived, Target, Creates
    <2>2. /\ \A q : HeldRegions(q)' <=> HeldRegions(q)
          /\ \A q : RegionsInHand(q)' <=> RegionsInHand(q)
          /\ \A q : ReplacesOpenly(q)' <=> ReplacesOpenly(q)
          /\ \A q : InProgress(q)' <=> InProgress(q)
      BY DEF HeldRegions, RegionsInHand, ReplacesOpenly, RegionsOf, Target, Creates, ListOf, WrittenBy,
             NewRegion, Transactional, InProgress
    <2>3. \A s : RegionWriters(s)' = RegionWriters(s)
      BY DEF RegionWriters, Target, Creates, ListOf
    <2>4. \A s : /\ RegionsDisturbed(s)' <=> RegionsDisturbed(s)
                 /\ RegionsExplained(s)' <=> RegionsExplained(s)
      BY <2>3
         DEF RegionsDisturbed, RegionsExplained, DoneWriters, Succeeded, Overlap, Transactional,
                  RegionsOf, WrittenBy, NewRegion, Target, Creates, ListOf
    <2>5. ServiceRegions'
      BY <2>2, <2>3, <2>4 DEF ServiceRegions, RegionsFollowed
    <2>6. QED
      BY <2>1, <2>5
  <1>4. QED
    BY <1>1, <1>2, <1>3 DEF ServiceNext

\* However requests to the services interleave, what a service has of regions is what the
\* last list that was written whole asked for, and a new service comes after the others,
\* but for the overlaps, failures and new orders that the properties name.
THEOREM ServicesHistoryHolds == ServiceSpec => []ServiceHistory
  <1>1. ServiceHistory /\ ServiceInv' /\ [ServiceNext]_serviceVars => ServicePast'
    BY ServiceNextKeepsPast
  <1>2. ServiceHistory <=> ServiceInv /\ ServicePast
    BY DEF ServiceHistory
  <1>3. QED
    BY <1>1, <1>2, ServicePastStarts, ServicesKeepInv, PTL DEF ServiceSpec

LEMMA ServiceHistoryHolds ==
    ServiceHistory => RegionsAreExplained /\ LaterServicesComeLater
  BY RegionsAccounted, LaterServicesFollow DEF ServiceHistory, ServicePast
-----------------------------------------------------------------------------
(* Icons                                                                   *)

\* The icon a request is about to write, before save()'s load and after.
IconToSave(r) == IF pc[r] = "write" THEN held[r].entity ELSE held[r]

IconWork(r) ==
    \/ /\ pc[r] = "insert" /\ job[r].op = "createIcon"
       /\ job[r].dto \in CreateIconDtos
    \/ /\ pc[r] \in {"checkName", "load", "write"} /\ job[r].op = "updateIcon"
       /\ job[r].icon \in DOMAIN icons /\ IconToSave(r) \in CreateIconDtos

IconInv ==
    /\ HttpInv
    /\ IconTypeOK
    /\ \A r \in Requests : InProgress(r) => IconWork(r)

LEMMA StartKeepsIconInv ==
    ASSUME IconInv, NEW r \in Requests, NEW j \in IconJobs, Starts(r, j), UNCHANGED icons,
           InProgress(r)' => IconWork(r)'
    PROVE  IconInv'
  <1>1. HttpInv' /\ HttpTypeOK'
    BY NothingIsNoIconJob, StartKeepsHttpInv, StartKeepsHttpTypes DEF IconInv, IconTypeOK
  <1>2. ASSUME NEW q \in Requests \ {r}, InProgress(q)' PROVE IconWork(q)'
    BY <1>2, StartFacts DEF IconInv, InProgress, IconWork, IconToSave
  <1>3. QED
    BY <1>1, <1>2 DEF IconInv, IconTypeOK

\* A later step, if what it writes is an icon whose name no other has.
LEMMA GoKeepsIconInv ==
    ASSUME IconInv, NEW r \in Requests, Goes(r), InProgress(r)' => IconWork(r)',
           \/ UNCHANGED icons
           \/ \E i \in Creators, row \in CreateIconDtos :
                 ~NameTaken(row.name, DOMAIN icons \ {i}) /\ PutIcon(i, row)
    PROVE  IconInv'
  <1>1. HttpInv' /\ HttpTypeOK'
    BY GoKeepsHttpInv, GoKeepsHttpTypes DEF IconInv, IconTypeOK
  <1>2. IconTypeOK' /\ DOMAIN icons \subseteq DOMAIN icons'
    <2>1. CASE UNCHANGED icons
      BY <1>1, <2>1 DEF IconInv, IconTypeOK
    <2>2. ASSUME NEW i \in Creators, NEW row \in CreateIconDtos, PutIcon(i, row),
                 ~NameTaken(row.name, DOMAIN icons \ {i})
          PROVE  IconTypeOK' /\ DOMAIN icons \subseteq DOMAIN icons'
      <3>1. /\ DOMAIN icons' = DOMAIN icons \cup {i} /\ icons'[i] = row
            /\ \A k \in DOMAIN icons \ {i} : icons'[k] = icons[k] /\ icons[k].name # row.name
        BY <2>2 DEF PutIcon, NameTaken
      <3>2. \A k \in DOMAIN icons' : icons'[k] \in CreateIconDtos
        BY <3>1 DEF IconInv, IconTypeOK
      <3>3. ASSUME NEW k \in DOMAIN icons', NEW m \in DOMAIN icons', icons'[k].name = icons'[m].name
            PROVE  k = m
        BY <3>1, <3>3 DEF IconInv, IconTypeOK
      <3>4. DOMAIN icons' \subseteq Creators
        BY <3>1 DEF IconInv, IconTypeOK
      <3>5. QED
        BY <1>1, <3>1, <3>2, <3>3, <3>4 DEF IconTypeOK
    <2>3. QED
      BY <2>1, <2>2
  <1>3. ASSUME NEW q \in Requests \ {r}, InProgress(q)' PROVE IconWork(q)'
    BY <1>2, <1>3, GoFacts DEF IconInv, InProgress, IconWork, IconToSave
  <1>4. QED
    BY <1>1, <1>2, <1>3 DEF IconInv

LEMMA ChangedIsIcon ==
    ASSUME NEW row \in CreateIconDtos, NEW dto \in IconChanges
    PROVE  Changed(row, dto) \in CreateIconDtos
  BY IconConstants DEF Changed, CreateIconDtos, UpdateIconDtos

LEMMA IconRequestKeeps ==
    ASSUME IconInv, NEW r \in Requests, IconRequest(r)
    PROVE  IconInv'
  <1> USE DEF Starts, Begin, Serve, Arrive, Answers, IconJobs
  <1>1. ASSUME NEW dto \in NewIcons, CreateIcon(r, dto) PROVE IconInv'
    <2> DEFINE j == [op |-> "createIcon", dto |-> dto]
    <2>1. j \in IconJobs /\ Starts(r, j) /\ UNCHANGED icons
      BY <1>1 DEF CreateIcon
    <2>2. pc'[r] \in {"insert", "answered"} /\ job'[r] = j
      BY <1>1 DEF CreateIcon, IconInv, HttpInv
    <2>3. InProgress(r)' => IconWork(r)'
      BY <2>2, IconConstants DEF InProgress, IconWork
    <2>4. QED
      BY <2>1, <2>3, StartKeepsIconInv
  <1>2. ASSUME NEW i \in KnownIcons, NEW dto \in IconChanges, UpdateIcon(r, i, dto) PROVE IconInv'
    <2> DEFINE j == [op |-> "updateIcon", icon |-> i, dto |-> dto]
    <2>1. j \in IconJobs /\ Starts(r, j) /\ UNCHANGED icons
      BY <1>2 DEF UpdateIcon, KnownIcons, IconInv, IconTypeOK, Creators
    <2>2. /\ pc'[r] \in {"checkName", "load", "answered"} /\ job'[r] = j
          /\ pc'[r] # "answered" => i \in DOMAIN icons /\ held'[r] = Changed(icons[i], dto)
      BY <1>2 DEF UpdateIcon, IconInv, HttpInv
    <2>3. InProgress(r)' => IconWork(r)'
      BY <2>1, <2>2, ChangedIsIcon DEF InProgress, IconWork, IconToSave, IconInv, IconTypeOK
    <2>4. QED
      BY <2>1, <2>3, StartKeepsIconInv
  <1>3. QED
    BY <1>1, <1>2 DEF IconRequest

LEMMA IconStepKeeps ==
    ASSUME IconInv, NEW r \in Requests, IconStep(r)
    PROVE  IconInv'
  <1> USE DEF Goes, Continue, Answer, Answers, At, InProgress, IconWork
  <1>1. CASE InsertIcon(r)
    <2>1. Goes(r) /\ ~InProgress(r)'
      BY <1>1 DEF InsertIcon, IconInv, HttpInv
    <2>2. job[r].dto \in CreateIconDtos /\ r \in Creators
      BY <1>1 DEF InsertIcon, IconInv, Creators
    <2>3. UNCHANGED icons \/ /\ ~NameTaken(job[r].dto.name, DOMAIN icons \ {r})
                             /\ PutIcon(r, job[r].dto)
      BY <1>1 DEF InsertIcon, NameTaken
    <2>4. QED
      BY <2>1, <2>2, <2>3, GoKeepsIconInv
  <1>2. CASE CheckName(r)
    <2>1. Goes(r) /\ UNCHANGED icons
      BY <1>2 DEF CheckName
    <2>2. InProgress(r)' => pc'[r] = "load" /\ held'[r] = held[r] /\ job' = job
      BY <1>2 DEF CheckName, IconInv, HttpInv
    <2>3. InProgress(r)' => IconWork(r)'
      BY <1>2, <2>1, <2>2 DEF CheckName, IconInv, IconToSave
    <2>4. QED
      BY <2>1, <2>3, GoKeepsIconInv
  <1>3. CASE LoadIcon(r)
    <2>1. Goes(r) /\ UNCHANGED icons
      BY <1>3 DEF LoadIcon
    <2>2. pc'[r] = "write" /\ held'[r].entity = held[r] /\ job' = job
      BY <1>3 DEF LoadIcon, IconInv, HttpInv
    <2>3. IconWork(r)'
      BY <1>3, <2>1, <2>2 DEF LoadIcon, IconInv, IconToSave
    <2>4. QED
      BY <2>1, <2>3, GoKeepsIconInv
  <1>4. CASE WriteIcon(r)
    <2> DEFINE i == job[r].icon
               row == Merge(icons[i], held[r].entity, held[r].dirty)
    <2>1. Goes(r) /\ ~InProgress(r)'
      BY <1>4 DEF WriteIcon, IconInv, HttpInv
    <2>2. i \in DOMAIN icons /\ i \in Creators /\ held[r].entity \in CreateIconDtos
      BY <1>4 DEF WriteIcon, IconInv, IconTypeOK, IconToSave
    <2>3. row \in CreateIconDtos
      BY <2>2 DEF Merge, CreateIconDtos, IconInv, IconTypeOK
    <2>4. UNCHANGED icons \/ (~NameTaken(row.name, DOMAIN icons \ {i}) /\ PutIcon(i, row))
      BY <1>4 DEF WriteIcon
    <2>5. QED
      BY <2>1, <2>2, <2>3, <2>4, GoKeepsIconInv
  <1>5. CASE StatementFails(r) /\ UNCHANGED icons
    <2>1. Goes(r) /\ ~InProgress(r)'
      BY <1>5 DEF StatementFails, IconInv, HttpInv
    <2>2. QED
      BY <1>5, <2>1, GoKeepsIconInv
  <1>6. QED
    BY <1>1, <1>2, <1>3, <1>4, <1>5 DEF IconStep

LEMMA IconsKeepInv == IconSpec => []IconInv
  <1>1. IconInit => IconInv
    BY HttpStarts, HttpTypesStart
       DEF IconInit, HttpInit, IconTablesSeeded, IconInv, IconTypeOK, CreateIconDtos, IconTypes,
           Creators, InProgress
  <1>2. IconInv /\ UNCHANGED iconVars => IconInv'
    BY DEF iconVars, httpVars, IconInv, IconTypeOK, HttpInv, HttpTypeOK, Arrived, Answered,
           InProgress, IconWork, IconToSave
  <1>3. IconInv /\ [IconNext]_iconVars => IconInv'
    BY <1>2, IconRequestKeeps, IconStepKeeps DEF IconNext
  <1>4. QED
    BY <1>1, <1>3, PTL DEF IconSpec

\* Icons are of their types, and no two share a name, whatever the looks before the
\* writes have seen.
THEOREM IconsTypeCorrect == IconSpec => []IconTypeOK
  <1>1. IconInv => IconTypeOK
    BY DEF IconInv
  <1>2. QED
    BY <1>1, IconsKeepInv, PTL
-----------------------------------------------------------------------------
(* Icons: the names they were given.                                       *)

UpdatesOfIcon(i) == {u \in Arrived : job[u].op = "updateIcon" /\ job[u].icon = i}

\* Who gives the icon a name, and what explains that it has another one.
GivesName(r, i) == job[r].dto.name # Nothing /\ (r = i \/ r \in UpdatesOfIcon(i))

NameExcused(r, i) ==
    \E u \in UpdatesOfIcon(i) \ {r} :
       Overlap(u, r) \/ (r \in earlier[u] /\ job[u].dto.name # Nothing)

\* An icon is there once the request that makes it has succeeded; what has succeeded
\* has found its icon; an update that brings a name holds it.
IconsMade ==
    /\ \A i \in DOMAIN icons \cap Requests : job[i].op = "createIcon" /\ Succeeded(i)
    /\ \A r \in Arrived :
          /\ job[r].op \in {"createIcon", "updateIcon"}
          /\ Succeeded(r) =>
                IF job[r].op = "createIcon" THEN r \in DOMAIN icons
                                            ELSE job[r].icon \in DOMAIN icons
          /\ (InProgress(r) /\ job[r].op = "updateIcon" /\ job[r].dto.name # Nothing) =>
                IconToSave(r).name = job[r].dto.name

\* Undisturbed, a name is in the row and in every copy of it that an update holds; its own
\* update will write it, or it is there.
NamesAgree ==
    \A i \in DOMAIN icons : \A r \in Arrived : GivesName(r, i) => NameExcused(r, i) \/
       /\ Succeeded(r) =>
             /\ icons[i].name = job[r].dto.name
             /\ \A u \in UpdatesOfIcon(i) :
                   InProgress(u) => IconToSave(u).name = job[r].dto.name
       /\ pc[r] = "write" => "name" \in held[r].dirty \/ icons[i].name = job[r].dto.name

IconHistory == IconInv /\ IconsMade /\ NamesAgree

\* A request that arrives writes nothing; an update holds the row it found, with what it
\* changes.
IconStarted(r, j) ==
    /\ Starts(r, j) /\ UNCHANGED icons /\ answer'[r] # "ok" /\ pc'[r] # "write"
    /\ j.op \in {"createIcon", "updateIcon"}
    /\ (j.op = "updateIcon" /\ pc'[r] # "answered") =>
          /\ j.icon \in DOMAIN icons
          /\ held'[r].name = IF j.dto.name = Nothing THEN icons[j.icon].name ELSE j.dto.name

\* The UPDATE of an update comes to the row.
WroteName(r, i) ==
    /\ pc[r] = "write" /\ job[r].op = "updateIcon" /\ job[r].icon = i /\ pc'[r] = "answered"
    /\ i \in DOMAIN icons
    /\ icons'[i].name = IF "name" \in held[r].dirty THEN held[r].entity.name ELSE icons[i].name

\* A later step inserts the request's own row or writes the one it updates.
IconWent(r) ==
    /\ Goes(r)
    /\ DOMAIN icons \subseteq DOMAIN icons'
    /\ \A i \in DOMAIN icons' \ DOMAIN icons :
          i = r /\ job[r].op = "createIcon" /\ answer'[r] = "ok" /\ icons'[r] = job[r].dto
    /\ \A i \in DOMAIN icons : icons'[i].name = icons[i].name \/ WroteName(r, i)
    /\ answer'[r] = "ok" =>
          IF job[r].op = "createIcon" THEN r \in DOMAIN icons' \ DOMAIN icons
                                      ELSE WroteName(r, job[r].icon)
    /\ (job[r].op = "updateIcon" /\ InProgress(r)') =>
          /\ pc[r] # "write" /\ IconToSave(r)' = IconToSave(r)
          /\ pc'[r] = "write" => /\ UNCHANGED icons
                                 /\ \/ "name" \in held'[r].dirty
                                    \/ IconToSave(r).name = icons[job[r].icon].name
    /\ pc'[r] = "write" => job[r].op = "updateIcon"

LEMMA IconStarts ==
    ASSUME IconInv, NEW r \in Requests, IconRequest(r)
    PROVE  \E j : IconStarted(r, j)
  <1> USE DEF Starts, Begin, Serve, Arrive, Answers
  <1>0. answer[r] # "ok" \/ pc[r] # "idle"
    BY DEF IconInv, HttpInv
  <1>1. ASSUME NEW dto \in NewIcons, CreateIcon(r, dto) PROVE \E j : IconStarted(r, j)
    <2> DEFINE j == [op |-> "createIcon", dto |-> dto]
    <2>1. Starts(r, j) /\ UNCHANGED icons /\ j.op = "createIcon"
      BY <1>1 DEF CreateIcon
    <2>2. answer'[r] # "ok" /\ pc'[r] \in {"insert", "answered"}
      BY <1>0, <1>1 DEF CreateIcon, IconInv, HttpInv
    <2> HIDE DEF j
    <2>3. QED
      BY <2>1, <2>2 DEF IconStarted
  <1>2. ASSUME NEW i \in KnownIcons, NEW dto \in IconChanges, UpdateIcon(r, i, dto)
        PROVE  \E j : IconStarted(r, j)
    <2> DEFINE j == [op |-> "updateIcon", icon |-> i, dto |-> dto]
    <2>1. Starts(r, j) /\ UNCHANGED icons
      BY <1>2 DEF UpdateIcon
    <2>2. /\ answer'[r] # "ok" /\ pc'[r] \in {"checkName", "load", "answered"}
          /\ pc'[r] # "answered" => i \in DOMAIN icons /\ held'[r] = Changed(icons[i], dto)
      BY <1>0, <1>2 DEF UpdateIcon, IconInv, HttpInv
    <2>3. pc'[r] # "answered" =>
             held'[r].name = IF dto.name = Nothing THEN icons[i].name ELSE dto.name
      BY <2>2 DEF Changed
    <2>4. j.op = "updateIcon" /\ j.icon = i /\ j.dto = dto
      OBVIOUS
    <2> HIDE DEF j
    <2>5. QED
      BY <2>1, <2>2, <2>3, <2>4 DEF IconStarted
  <1>3. QED
    BY <1>1, <1>2 DEF IconRequest

LEMMA IconGoes ==
    ASSUME IconInv, IconsMade, NEW r \in Requests, IconStep(r)
    PROVE  IconWent(r)
  <1> USE DEF Goes, Continue, Answer, Answers, At, InProgress
  <1>0. r \in Requests /\ (r \in DOMAIN icons => pc[r] = "answered")
    BY DEF IconInv, HttpInv, IconsMade, Succeeded
  <1>1. CASE InsertIcon(r)
    <2>1. /\ Goes(r) /\ pc[r] = "insert" /\ pc'[r] = "answered" /\ job[r].op = "createIcon"
          /\ IF answer'[r] = "ok" THEN PutIcon(r, job[r].dto) ELSE UNCHANGED icons
      BY <1>1 DEF InsertIcon, IconInv, HttpInv
    <2>2. r \notin DOMAIN icons
      BY <1>0, <2>1
    <2>3. answer'[r] = "ok" =>
             /\ DOMAIN icons' = DOMAIN icons \cup {r} /\ icons'[r] = job[r].dto
             /\ \A i \in DOMAIN icons : icons'[i] = icons[i]
      BY <2>1, <2>2 DEF PutIcon
    <2>4. QED
      BY <2>1, <2>2, <2>3 DEF IconWent
  <1>2. CASE CheckName(r)
    <2>1. /\ Goes(r) /\ UNCHANGED icons /\ pc[r] = "checkName" /\ answer'[r] # "ok"
          /\ pc'[r] # "answered" => pc'[r] = "load" /\ held'[r] = held[r]
          /\ job[r].op = "updateIcon"
      BY <1>2 DEF CheckName, IconInv, HttpInv
    <2>2. QED
      BY <2>1 DEF IconWent, IconToSave
  <1>3. CASE LoadIcon(r)
    <2>1. /\ Goes(r) /\ UNCHANGED icons /\ pc[r] = "load" /\ answer'[r] # "ok"
          /\ pc'[r] = "write" /\ job[r].op = "updateIcon"
          /\ held'[r].entity = held[r] /\ held'[r].dirty = Dirty(held[r], icons[job[r].icon])
      BY <1>3 DEF LoadIcon, IconInv, HttpInv
    <2>2. "name" \in DOMAIN held[r]
      BY <1>3, <2>1 DEF IconInv, IconWork, IconToSave, CreateIconDtos
    <2>3. "name" \in held'[r].dirty \/ held[r].name = icons[job[r].icon].name
      BY <2>1, <2>2 DEF Dirty
    <2>4. IconToSave(r) = held[r] /\ IconToSave(r)' = held[r]
      BY <2>1 DEF IconToSave
    <2>5. QED
      BY <2>1, <2>3, <2>4 DEF IconWent
  <1>4. CASE WriteIcon(r)
    <2>0. PICK i, row : i = job[r].icon /\ row = Merge(icons[i], held[r].entity, held[r].dirty)
      OBVIOUS
    <2>1. /\ Goes(r) /\ pc[r] = "write" /\ pc'[r] = "answered" /\ job[r].op = "updateIcon"
          /\ IF answer'[r] = "ok" THEN PutIcon(i, row) ELSE UNCHANGED icons
      BY <1>4, <2>0 DEF WriteIcon, IconInv, HttpInv
    <2>2. i \in DOMAIN icons /\ "name" \in DOMAIN icons[i]
      BY <2>0, <2>1 DEF IconInv, IconWork, IconTypeOK, CreateIconDtos
    <2>3. row.name = IF "name" \in held[r].dirty THEN held[r].entity.name ELSE icons[i].name
      BY <2>0, <2>2 DEF Merge
    <2>4. answer'[r] = "ok" =>
             /\ DOMAIN icons' = DOMAIN icons /\ icons'[i] = row
             /\ \A k \in DOMAIN icons \ {i} : icons'[k] = icons[k]
      BY <2>1, <2>2 DEF PutIcon
    <2>5. answer'[r] = "ok" => WroteName(r, i)
      BY <2>0, <2>1, <2>2, <2>3, <2>4 DEF WroteName
    <2>6. QED
      BY <2>0, <2>1, <2>4, <2>5 DEF IconWent
  <1>5. CASE StatementFails(r) /\ UNCHANGED icons
    <2>1. Goes(r) /\ pc'[r] = "answered" /\ answer'[r] = "error" /\ UNCHANGED icons
      BY <1>5 DEF StatementFails, IconInv, HttpInv
    <2>2. QED
      BY <2>1 DEF IconWent
  <1>6. QED
    BY <1>1, <1>2, <1>3, <1>4, <1>5 DEF IconStep

LEMMA NamesStayExcused ==
    ASSUME ArrivedStay
    PROVE  \A i : /\ UpdatesOfIcon(i) \subseteq UpdatesOfIcon(i)'
                  /\ \A r \in Arrived : NameExcused(r, i) => NameExcused(r, i)'
  <1>1. \A i : UpdatesOfIcon(i) \subseteq Arrived /\ UpdatesOfIcon(i) \subseteq UpdatesOfIcon(i)'
    BY DEF ArrivedStay, UpdatesOfIcon
  <1>2. QED
    BY <1>1 DEF ArrivedStay, NameExcused

\* Who updates what after a start, and after a later step.
LEMMA NewcomersIcon ==
    ASSUME IconInv, NEW r \in Requests, NEW j, IconStarted(r, j)
    PROVE  /\ ArrivedStay /\ UNCHANGED icons /\ ~Succeeded(r)' /\ r \notin Arrived
           /\ Arrived' = Arrived \cup {r} /\ Arrived \subseteq Requests /\ job'[r] = j
           /\ earlier'[r] = Answered
           /\ \A q \in Requests \ {r} :
                 /\ pc'[q] = pc[q] /\ held'[q] = held[q] /\ job'[q] = job[q]
                 /\ earlier'[q] = earlier[q]
                 /\ InProgress(q)' <=> InProgress(q)
                 /\ Succeeded(q)' <=> Succeeded(q)
                 /\ IconToSave(q)' = IconToSave(q)
           /\ \A i : /\ UpdatesOfIcon(i)' \subseteq UpdatesOfIcon(i) \cup {r}
                     /\ r \in UpdatesOfIcon(i)' <=> j.op = "updateIcon" /\ j.icon = i
                     /\ UpdatesOfIcon(i) \subseteq Requests \ {r}
           /\ \A q \in Requests : InProgress(q) => Overlap(q, r)' /\ Overlap(r, q)'
  <1>1. HttpInv /\ ArrivedStay /\ UNCHANGED icons /\ Starts(r, j)
    BY StepsLeaveArrived DEF IconInv, IconStarted
  <1>2. /\ pc[r] = "idle" /\ pc'[r] # "idle" /\ job'[r] = j /\ earlier'[r] = Answered
        /\ \A q \in Requests \ {r} :
              /\ pc'[q] = pc[q] /\ job'[q] = job[q] /\ held'[q] = held[q]
              /\ answer'[q] = answer[q] /\ earlier'[q] = earlier[q]
    BY <1>1, StartFacts
  <1>3. Arrived' = Arrived \cup {r} /\ r \notin Arrived /\ Arrived \subseteq Requests
    BY <1>2 DEF Arrived
  <1>4. \A i : /\ UpdatesOfIcon(i)' \subseteq UpdatesOfIcon(i) \cup {r}
               /\ r \in UpdatesOfIcon(i)' <=> j.op = "updateIcon" /\ j.icon = i
               /\ UpdatesOfIcon(i) \subseteq Requests \ {r}
    BY <1>2, <1>3 DEF UpdatesOfIcon
  <1>5. \A q \in Requests \ {r} :
           /\ InProgress(q)' <=> InProgress(q)
           /\ Succeeded(q)' <=> Succeeded(q)
           /\ IconToSave(q)' = IconToSave(q)
    BY <1>2 DEF InProgress, Succeeded, IconToSave
  <1>6. ~Succeeded(r)'
    BY DEF Succeeded, IconStarted
  <1>7. QED
    BY <1>1, <1>2, <1>3, <1>4, <1>5, <1>6, StartOverlaps

LEMMA GoersIcon ==
    ASSUME IconInv, NEW r \in Requests, IconWent(r)
    PROVE  /\ ArrivedStay /\ InProgress(r) /\ ~Succeeded(r) /\ job' = job /\ earlier' = earlier
           /\ Arrived' = Arrived /\ r \in Arrived /\ Arrived \subseteq Requests
           /\ \A q \in Requests \ {r} :
                 /\ pc'[q] = pc[q] /\ held'[q] = held[q]
                 /\ InProgress(q)' <=> InProgress(q)
                 /\ Succeeded(q)' <=> Succeeded(q)
                 /\ IconToSave(q)' = IconToSave(q)
           /\ \A i : UpdatesOfIcon(i)' = UpdatesOfIcon(i) /\ UpdatesOfIcon(i) \subseteq Arrived
           /\ \A q, i : GivesName(q, i)' <=> GivesName(q, i)
           /\ \A q \in Requests \ {r} : InProgress(q) => Overlap(q, r) /\ Overlap(r, q)
           /\ answer'[r] = "ok" => pc'[r] = "answered"
  <1>1. HttpInv /\ ArrivedStay /\ Goes(r) /\ InProgress(r)
    BY StepsLeaveArrived DEF IconInv, IconWent, Goes
  <1>2. /\ job' = job /\ answer[r] = "none" /\ pc[r] # "idle" /\ pc'[r] # "idle"
        /\ earlier' = earlier
        /\ \A q \in Requests \ {r} :
              pc'[q] = pc[q] /\ held'[q] = held[q] /\ answer'[q] = answer[q]
        /\ answer'[r] = "ok" => pc'[r] = "answered"
    BY <1>1, GoFacts
  <1>3. Arrived' = Arrived /\ r \in Arrived /\ Arrived \subseteq Requests
    BY <1>2 DEF Arrived
  <1>4. \A i : UpdatesOfIcon(i)' = UpdatesOfIcon(i) /\ UpdatesOfIcon(i) \subseteq Arrived
    BY <1>2, <1>3 DEF UpdatesOfIcon
  <1>5. \A q \in Requests \ {r} :
           /\ InProgress(q)' <=> InProgress(q)
           /\ Succeeded(q)' <=> Succeeded(q)
           /\ IconToSave(q)' = IconToSave(q)
    BY <1>2 DEF InProgress, Succeeded, IconToSave
  <1>6. ~Succeeded(r)
    BY <1>2 DEF Succeeded
  <1>7. \A q, i : GivesName(q, i)' <=> GivesName(q, i)
    BY <1>2, <1>4 DEF GivesName
  <1>8. QED
    BY <1>1, <1>2, <1>3, <1>4, <1>5, <1>6, <1>7, InProgressOverlap

LEMMA StartKeepsIconHistory ==
    ASSUME IconHistory, NEW r \in Requests, NEW j, IconStarted(r, j)
    PROVE  IconsMade' /\ NamesAgree'
  <1> USE DEF IconHistory
  <1>1. \A i \in DOMAIN icons : i # r
    BY DEF IconsMade, Succeeded, IconStarted, Starts, Begin, Serve, Arrive, IconInv, HttpInv
  <1>2. ASSUME NEW q \in Arrived'
        PROVE  /\ job'[q].op \in {"createIcon", "updateIcon"}
               /\ Succeeded(q)' =>
                     IF job'[q].op = "createIcon" THEN q \in DOMAIN icons'
                                                  ELSE job'[q].icon \in DOMAIN icons'
               /\ (InProgress(q)' /\ job'[q].op = "updateIcon" /\ job'[q].dto.name # Nothing) =>
                     IconToSave(q)'.name = job'[q].dto.name
    <2>1. CASE q = r
      BY <2>1, NewcomersIcon DEF IconStarted, InProgress, IconToSave
    <2>2. CASE q # r
      BY <1>2, <2>2, NewcomersIcon DEF IconsMade
    <2>3. QED
      BY <2>1, <2>2
  <1>3. IconsMade'
    <2>1. \A i \in DOMAIN icons' \cap Requests : job'[i].op = "createIcon" /\ Succeeded(i)'
      BY <1>1, NewcomersIcon DEF IconsMade
    <2>2. QED
      BY <1>2, <2>1 DEF IconsMade
  <1>4. ASSUME NEW i \in DOMAIN icons', NEW q \in Arrived', GivesName(q, i)', ~NameExcused(q, i)'
        PROVE  /\ Succeeded(q)' =>
                     /\ icons'[i].name = job'[q].dto.name
                     /\ \A u \in UpdatesOfIcon(i)' :
                           InProgress(u)' => IconToSave(u)'.name = job'[q].dto.name
               /\ pc'[q] = "write" =>
                     "name" \in held'[q].dirty \/ icons'[i].name = job'[q].dto.name
    <2>1. CASE q = r
      BY <2>1, NewcomersIcon DEF IconStarted
    <2>2. CASE q # r
      <3>1. q \in Arrived /\ q \in Requests \ {r} /\ i \in DOMAIN icons
        BY <1>4, <2>2, NewcomersIcon
      <3>2. GivesName(q, i) /\ ~NameExcused(q, i)
        BY <1>4, <3>1, NewcomersIcon, NamesStayExcused DEF GivesName
      <3>3. ASSUME Succeeded(q), NEW u \in UpdatesOfIcon(i)', InProgress(u)'
            PROVE  IconToSave(u)'.name = job[q].dto.name
        <4>1. CASE u = r
          <5>1. j.op = "updateIcon" /\ j.icon = i /\ pc'[r] # "answered"
            BY <3>3, <4>1, NewcomersIcon DEF InProgress
          <5>2. q \in earlier'[r]
            BY <3>1, <3>3, NewcomersIcon DEF Answered, Succeeded, IconInv, HttpInv
          <5>3. j.dto.name = Nothing
            BY <1>4, <2>2, <3>3, <4>1, <5>2, NewcomersIcon DEF NameExcused
          <5>4. held'[r].name = icons[i].name /\ pc'[r] # "write"
            BY <5>1, <5>3 DEF IconStarted
          <5>5. QED
            BY <3>1, <3>2, <3>3, <4>1, <5>4 DEF NamesAgree, IconToSave
        <4>2. CASE u # r
          BY <3>1, <3>2, <3>3, <4>2, NewcomersIcon DEF NamesAgree
        <4>3. QED
          BY <4>1, <4>2
      <3>4. QED
        BY <3>1, <3>2, <3>3, NewcomersIcon DEF NamesAgree
    <2>3. QED
      BY <2>1, <2>2
  <1>5. QED
    BY <1>3, <1>4 DEF NamesAgree

LEMMA GoKeepsIconHistory ==
    ASSUME IconHistory, NEW r \in Requests, IconWent(r)
    PROVE  IconsMade' /\ NamesAgree'
  <1> USE DEF IconHistory
  <1>1. r \notin DOMAIN icons
    BY GoersIcon DEF IconsMade
  <1>2. \A u \in Arrived : (InProgress(u) /\ job[u].op = "updateIcon") => job[u].icon \in DOMAIN icons
    BY GoersIcon DEF IconInv, IconWork
  <1>3. IconsMade'
    <2>1. \A i \in DOMAIN icons' \cap Requests : job'[i].op = "createIcon" /\ Succeeded(i)'
      BY GoersIcon DEF IconsMade, IconWent, Succeeded
    <2>2. ASSUME NEW q \in Arrived'
          PROVE  /\ job'[q].op \in {"createIcon", "updateIcon"}
                 /\ Succeeded(q)' =>
                       IF job'[q].op = "createIcon" THEN q \in DOMAIN icons'
                                                    ELSE job'[q].icon \in DOMAIN icons'
                 /\ (InProgress(q)' /\ job'[q].op = "updateIcon" /\ job'[q].dto.name # Nothing) =>
                       IconToSave(q)'.name = job'[q].dto.name
      <3>1. CASE q = r
        BY <3>1, GoersIcon DEF IconsMade, IconWent, Succeeded, WroteName
      <3>2. CASE q # r
        BY <2>2, <3>2, GoersIcon DEF IconsMade, IconWent
      <3>3. QED
        BY <3>1, <3>2
    <2>3. QED
      BY <2>1, <2>2 DEF IconsMade
  <1>4. ASSUME NEW i \in DOMAIN icons', NEW q \in Arrived, GivesName(q, i), ~NameExcused(q, i)'
        PROVE  /\ Succeeded(q)' =>
                     /\ icons'[i].name = job[q].dto.name
                     /\ \A u \in UpdatesOfIcon(i) :
                           InProgress(u)' => IconToSave(u)'.name = job[q].dto.name
               /\ pc'[q] = "write" =>
                     "name" \in held'[q].dirty \/ icons'[i].name = job[q].dto.name
    <2>0. ~NameExcused(q, i) /\ q \in Requests
      BY <1>4, GoersIcon, NamesStayExcused
    <2>1. CASE i \notin DOMAIN icons
      <3>1. i = r /\ job[r].op = "createIcon" /\ answer'[r] = "ok" /\ icons'[r] = job[r].dto
        BY <2>1 DEF IconWent
      <3>2. pc'[r] = "answered"
        BY <3>1, GoersIcon
      <3>3. \A u \in UpdatesOfIcon(r) : u # r /\ ~InProgress(u)
        BY <1>1, <1>2, <3>1, GoersIcon DEF UpdatesOfIcon
      <3>4. CASE q = r
        BY <3>1, <3>2, <3>3, <3>4, GoersIcon
      <3>5. CASE q # r
        <4>1. q \in UpdatesOfIcon(r) /\ ~InProgress(q)
          BY <1>4, <3>1, <3>3, <3>5 DEF GivesName
        <4>2. ~Succeeded(q)
          BY <1>1, <4>1 DEF IconsMade, UpdatesOfIcon
        <4>3. QED
          BY <2>0, <3>5, <4>1, <4>2, GoersIcon DEF InProgress
      <3>6. QED
        BY <3>4, <3>5
    <2>2. CASE i \in DOMAIN icons /\ q = r
      <3>1. r \in UpdatesOfIcon(i) /\ job[r].op = "updateIcon" /\ job[r].icon = i
        BY <1>1, <1>4, <2>2 DEF GivesName, UpdatesOfIcon
      <3>2. IconToSave(r).name = job[r].dto.name
        BY <1>4, <2>2, <3>1, GoersIcon DEF IconsMade, GivesName
      <3>3. ASSUME Succeeded(r)'
            PROVE  icons'[i].name = job[r].dto.name /\ pc'[r] = "answered"
        <4>1. WroteName(r, i) /\ pc'[r] = "answered"
          BY <3>1, <3>3, GoersIcon DEF IconWent, Succeeded
        <4>2. "name" \in held[r].dirty \/ icons[i].name = job[r].dto.name
          BY <1>4, <2>0, <2>2, <4>1 DEF NamesAgree, WroteName
        <4>3. QED
          BY <3>2, <4>1, <4>2 DEF WroteName, IconToSave
      <3>4. ASSUME NEW u \in UpdatesOfIcon(i), InProgress(u)', pc'[r] = "answered" PROVE FALSE
        <4>1. u \in Requests \ {r} /\ InProgress(u)
          BY <3>4, GoersIcon DEF InProgress
        <4>2. QED
          BY <2>0, <2>2, <3>4, <4>1, GoersIcon DEF NameExcused
      <3>5. pc'[r] = "write" => "name" \in held'[r].dirty \/ icons'[i].name = job[r].dto.name
        BY <3>1, <3>2 DEF IconWent, InProgress
      <3>6. QED
        BY <2>2, <3>3, <3>4, <3>5
    <2>3. CASE i \in DOMAIN icons /\ q # r /\ r \in UpdatesOfIcon(i)
      <3>1. ~InProgress(q) /\ pc'[q] # "write" /\ (Succeeded(q)' <=> Succeeded(q))
        BY <2>0, <2>3, GoersIcon DEF NameExcused, InProgress
      <3>2. ASSUME Succeeded(q)
            PROVE  /\ icons'[i].name = job[q].dto.name
                   /\ \A u \in UpdatesOfIcon(i) :
                         InProgress(u)' => IconToSave(u)'.name = job[q].dto.name
        <4>1. /\ icons[i].name = job[q].dto.name
              /\ \A u \in UpdatesOfIcon(i) : InProgress(u) => IconToSave(u).name = job[q].dto.name
          BY <1>4, <2>0, <2>3, <3>2 DEF NamesAgree
        <4>2. icons'[i].name = job[q].dto.name
          BY <2>3, <4>1, GoersIcon DEF IconWent, WroteName, IconToSave
        <4>3. InProgress(r)' => IconToSave(r)'.name = job[q].dto.name
          BY <2>3, <4>1, GoersIcon DEF IconWent, UpdatesOfIcon
        <4>4. QED
          BY <4>1, <4>2, <4>3, GoersIcon
      <3>3. QED
        BY <3>1, <3>2
    <2>4. CASE i \in DOMAIN icons /\ q # r /\ r \notin UpdatesOfIcon(i)
      <3>1. icons'[i].name = icons[i].name
        BY <2>4, GoersIcon DEF IconWent, WroteName, UpdatesOfIcon
      <3>2. \A u \in UpdatesOfIcon(i) : /\ InProgress(u)' <=> InProgress(u)
                                        /\ IconToSave(u)' = IconToSave(u)
        BY <2>4, GoersIcon
      <3>3. QED
        BY <1>4, <2>0, <2>4, <3>1, <3>2, GoersIcon DEF NamesAgree
    <2>5. QED
      BY <2>1, <2>2, <2>3, <2>4
  <1>5. NamesAgree'
    BY <1>4, GoersIcon DEF NamesAgree
  <1>6. QED
    BY <1>3, <1>5

\* However requests about icons interleave, an icon has the name it was given, but for
\* the overlaps and renames that the property names.
THEOREM IconsHistoryHolds == IconSpec => []IconHistory
  <1>1. IconInit => IconsMade /\ NamesAgree
    <2> SUFFICES ASSUME IconInit PROVE IconsMade /\ NamesAgree
      OBVIOUS
    <2>1. Arrived = {} /\ DOMAIN icons = {Nobody}
      BY DEF IconInit, HttpInit, IconTablesSeeded, Arrived
    <2>2. QED
      BY <2>1, RequestConstants DEF IconsMade, NamesAgree
  <1>2. IconHistory /\ [IconNext]_iconVars => IconsMade' /\ NamesAgree'
    <2> SUFFICES ASSUME IconHistory, [IconNext]_iconVars PROVE IconsMade' /\ NamesAgree'
      OBVIOUS
    <2>1. ASSUME NEW r \in Requests, IconRequest(r) PROVE IconsMade' /\ NamesAgree'
      BY <2>1, IconStarts, StartKeepsIconHistory DEF IconHistory
    <2>2. ASSUME NEW r \in Requests, IconStep(r) PROVE IconsMade' /\ NamesAgree'
      BY <2>2, IconGoes, GoKeepsIconHistory DEF IconHistory
    <2>3. CASE UNCHANGED iconVars
      BY <2>3 DEF iconVars, httpVars, IconHistory, IconsMade, NamesAgree, Arrived, GivesName,
         NameExcused, UpdatesOfIcon, IconToSave, Overlap, InProgress, Succeeded
    <2>4. QED
      BY <2>1, <2>2, <2>3 DEF IconNext
  <1>3. IconHistory <=> IconInv /\ IconsMade /\ NamesAgree
    BY DEF IconHistory
  <1>4. QED
    BY <1>1, <1>2, <1>3, IconsKeepInv, PTL DEF IconSpec

LEMMA IconHistoryHolds == IconHistory => NamesStand
  <1> SUFFICES ASSUME IconHistory, NEW i \in DOMAIN icons, NEW r \in Requests,
                      pc[r] # "idle", Succeeded(r), job[r].dto.name # Nothing,
                      r = i \/ (job[r].op = "updateIcon" /\ job[r].icon = i),
                      ~NameExcused(r, i)
               PROVE  icons[i].name = job[r].dto.name
    BY DEF NamesStand, NameExcused, UpdatesOfIcon, Arrived
  <1>1. r \in Arrived /\ GivesName(r, i)
    BY DEF Arrived, GivesName, UpdatesOfIcon
  <1>2. QED
    BY <1>1 DEF IconHistory, NamesAgree
-----------------------------------------------------------------------------
(* Accounts                                                                *)

AccountRowsOK ==
    /\ DOMAIN accounts \subseteq Creators
    /\ \A a \in DOMAIN accounts : accounts[a] \in AccountRows /\ ~Clashes(a, accounts[a])

\* From its first look on, an update holds the row it will write.
AccountWork(r) ==
    /\ pc[r] = "stamp" => job[r].op = "login"
    /\ pc[r] \in {"checkEmail", "checkUsername", "load", "write"} =>
          job[r].op = "updateUser" /\ held[r].entity \in AccountRows

AccountInv ==
    /\ HttpInv
    /\ AccountTypeOK
    /\ \A r \in Arrived : job[r] \in AccountJobs
    /\ \A r \in Requests : AccountWork(r)

LEMMA StartKeepsAccountInv ==
    ASSUME AccountInv, NEW r \in Requests, NEW j \in AccountJobs, Starts(r, j),
           UNCHANGED accounts, AccountWork(r)'
    PROVE  AccountInv'
  <1>1. HttpInv' /\ HttpTypeOK'
    BY NothingIsNoAccountJob, StartKeepsHttpInv, StartKeepsHttpTypes DEF AccountInv, AccountTypeOK
  <1>2. ASSUME NEW q \in Requests \ {r} PROVE AccountWork(q)'
    BY <1>2, StartFacts DEF AccountInv, AccountWork
  <1>3. \A q \in Arrived' : job'[q] \in AccountJobs
    BY StartFacts DEF AccountInv, Arrived
  <1>4. AccountTypeOK'
    BY <1>1 DEF AccountInv, AccountTypeOK, Clashes, EmailTaken, UsernameTaken
  <1>5. QED
    BY <1>1, <1>2, <1>3, <1>4 DEF AccountInv

LEMMA GoKeepsAccountInv ==
    ASSUME AccountInv, NEW r \in Requests, Goes(r), AccountWork(r)', AccountRowsOK'
    PROVE  AccountInv'
  <1>1. HttpInv' /\ HttpTypeOK' /\ Arrived' = Arrived
    BY GoKeepsHttpInv, GoKeepsHttpTypes DEF AccountInv, AccountTypeOK
  <1>2. ASSUME NEW q \in Requests \ {r} PROVE AccountWork(q)'
    BY <1>2, GoFacts DEF AccountInv, AccountWork
  <1>3. \A q \in Arrived' : job'[q] \in AccountJobs
    BY <1>1, GoFacts DEF AccountInv
  <1>4. AccountTypeOK'
    BY <1>1 DEF AccountRowsOK, AccountTypeOK
  <1>5. QED
    BY <1>1, <1>2, <1>3, <1>4 DEF AccountInv

\* A row goes into the table beside rows whose email and username are others.
LEMMA PutAccountKeepsRows ==
    ASSUME AccountInv, NEW a \in Creators, NEW row \in AccountRows, ~Clashes(a, row),
           PutAccount(a, row)
    PROVE  AccountRowsOK'
  <1>1. /\ DOMAIN accounts' = DOMAIN accounts \cup {a} /\ accounts'[a] = row
        /\ \A b \in DOMAIN accounts \ {a} :
              /\ accounts'[b] = accounts[b]
              /\ accounts[b].email # row.email /\ accounts[b].username # row.username
    BY DEF PutAccount, Clashes, EmailTaken, UsernameTaken
  <1>2. \A b, c \in DOMAIN accounts : b # c =>
           accounts[b].email # accounts[c].email /\ accounts[b].username # accounts[c].username
    BY DEF AccountInv, AccountTypeOK, Clashes, EmailTaken, UsernameTaken
  <1>3. \A b, c \in DOMAIN accounts' : b # c =>
           accounts'[b].email # accounts'[c].email /\ accounts'[b].username # accounts'[c].username
    BY <1>1, <1>2
  <1>4. \A b \in DOMAIN accounts' : b \in Creators /\ accounts'[b] \in AccountRows
    BY <1>1 DEF AccountInv, AccountTypeOK
  <1>5. QED
    BY <1>3, <1>4 DEF AccountRowsOK, Clashes, EmailTaken, UsernameTaken

\* So do fewer rows, and rows that keep their email and username.
LEMMA LikeRowsAreRows ==
    ASSUME AccountInv,
           \A a \in DOMAIN accounts' :
              /\ a \in DOMAIN accounts /\ accounts'[a] \in AccountRows
              /\ accounts'[a].email = accounts[a].email
              /\ accounts'[a].username = accounts[a].username
    PROVE  AccountRowsOK'
  <1>1. \A b, c \in DOMAIN accounts : b # c =>
           accounts[b].email # accounts[c].email /\ accounts[b].username # accounts[c].username
    BY DEF AccountInv, AccountTypeOK, Clashes, EmailTaken, UsernameTaken
  <1>2. \A b, c \in DOMAIN accounts' : b # c =>
           accounts'[b].email # accounts'[c].email /\ accounts'[b].username # accounts'[c].username
    BY <1>1
  <1>3. \A b \in DOMAIN accounts' : b \in Creators
    BY DEF AccountInv, AccountTypeOK
  <1>4. QED
    BY <1>2, <1>3 DEF AccountRowsOK, Clashes, EmailTaken, UsernameTaken

LEMMA SameRowsAreRows == AccountInv /\ UNCHANGED accounts => AccountRowsOK'
  BY DEF AccountInv, AccountTypeOK, AccountRowsOK, Clashes, EmailTaken, UsernameTaken

LEMMA GuardKeeps ==
    ASSUME AccountInv, NEW r \in Requests, NEW j \in AccountJobs, Guard(r, j)
    PROVE  AccountInv'
  <1>1. Starts(r, j) /\ UNCHANGED accounts
    BY DEF Guard, Starts, Begin, Serve, Arrive, Answers
  <1>2. pc'[r] \in {"guard", "answered"}
    BY DEF Guard, Begin, Serve, AccountInv, HttpInv
  <1>3. AccountWork(r)'
    BY <1>2 DEF AccountWork
  <1>4. QED
    BY <1>1, <1>3, StartKeepsAccountInv

LEMMA AccountRequestKeeps ==
    ASSUME AccountInv, NEW r \in Requests, LoginRequest(r) \/ UserRequest(r)
    PROVE  AccountInv'
  <1>1. ASSUME NEW email \in Emails, NEW password, Login(r, email, password) PROVE AccountInv'
    <2> DEFINE j == [op |-> "login", email |-> email]
    <2>1. j \in AccountJobs /\ Starts(r, j) /\ UNCHANGED accounts
      BY <1>1 DEF Login, Starts, Begin, Serve, Arrive, Answers, AccountJobs
    <2>2. pc'[r] \in {"stamp", "answered"} /\ job'[r] = j
      BY <1>1 DEF Login, Begin, Serve, Arrive, AccountInv, HttpInv
    <2>3. AccountWork(r)'
      BY <2>2 DEF AccountWork
    <2>4. QED
      BY <2>1, <2>3, StartKeepsAccountInv
  <1>2. KnownAccounts \subseteq Creators
    BY DEF KnownAccounts, AccountInv, AccountTypeOK, Creators
  <1>3. QED
    BY <1>1, <1>2, GuardKeeps DEF LoginRequest, UserRequest, AccountJobs

LEMMA RenewedIsRow ==
    ASSUME NEW r \in Requests, NEW row \in AccountRows, job[r].dto \in UserChanges
    PROVE  Renewed(row, r) \in AccountRows
  BY AccountConstants DEF Renewed, Or, AccountRows, UpdateUserDtos, Creators

\* The steps that leave the table alone.
LEMMA QuietAccountStepKeeps ==
    ASSUME AccountInv, NEW r \in Requests,
           \/ GuardAgain(r) \/ FindDuplicate(r) \/ FindUser(r) \/ CheckEmail(r)
           \/ CheckUsername(r) \/ LoadUser(r) \/ FindToDelete(r)
           \/ StatementFails(r) /\ UNCHANGED accounts
    PROVE  AccountInv'
  <1> USE DEF Goes, Continue, Answer, Answers, At, InProgress
  <1>1. AccountRowsOK'
    BY SameRowsAreRows DEF GuardAgain, FindDuplicate, FindUser, CheckEmail, CheckUsername,
                           LoadUser, FindToDelete
  <1>2. Goes(r)
    BY DEF GuardAgain, FindDuplicate, FindUser, CheckEmail, CheckUsername, LoadUser,
           FindToDelete, StatementFails, AfterEmail
  <1>3. AccountWork(r)'
    <2>1. CASE FindUser(r)
      <3> DEFINE a == job[r].account
                 row == Renewed(accounts[a], r)
                 checks == Checks(accounts[a], row)
      <3>1. job[r] \in AccountJobs /\ job[r].op = "updateUser"
        BY <2>1 DEF FindUser, AccountInv, Arrived
      <3>2. job[r].dto \in UserChanges
        BY <3>1 DEF AccountJobs
      <3>3. Account(a) => row \in AccountRows
        BY <3>2, RenewedIsRow DEF Account, AccountInv, AccountTypeOK
      <3>4. /\ job' = job
            /\ pc'[r] \in {"answered", "checkEmail", "checkUsername", "load"}
            /\ pc'[r] # "answered" => Account(a) /\ held'[r].entity = row
        BY <2>1 DEF FindUser, AfterEmail, AccountInv, HttpInv
      <3>5. QED
        BY <3>1, <3>3, <3>4 DEF AccountWork
    <2>2. CASE GuardAgain(r) \/ FindDuplicate(r) \/ FindToDelete(r) \/ StatementFails(r)
      <3>1. pc'[r] \in {"answered", "find", "insert", "remove"}
        BY <2>2 DEF GuardAgain, FindDuplicate, FindToDelete, StatementFails, AccountInv, HttpInv
      <3>2. QED
        BY <3>1 DEF AccountWork
    <2>3. CASE CheckEmail(r) \/ CheckUsername(r) \/ LoadUser(r)
      <3>1. job[r].op = "updateUser" /\ held[r].entity \in AccountRows
        BY <2>3 DEF CheckEmail, CheckUsername, LoadUser, AccountInv, AccountWork
      <3>2. /\ job' = job
            /\ pc'[r] \in {"answered", "checkUsername", "load", "write"}
            /\ pc'[r] # "answered" => held'[r].entity = held[r].entity
        BY <2>3 DEF CheckEmail, CheckUsername, LoadUser, AfterEmail, AccountInv, HttpInv
      <3>3. QED
        BY <3>1, <3>2 DEF AccountWork
    <2>4. QED
      BY <2>1, <2>2, <2>3
  <1>4. QED
    BY <1>1, <1>2, <1>3, GoKeepsAccountInv

LEMMA WritingAccountStepKeeps ==
    ASSUME AccountInv, NEW r \in Requests,
           UpdateLastLogin(r) \/ InsertUser(r) \/ WriteUser(r) \/ RemoveUser(r)
    PROVE  AccountInv'
  <1> USE DEF Goes, Answer, Answers, At, InProgress
  <1>1. Goes(r) /\ pc'[r] = "answered"
    BY DEF UpdateLastLogin, InsertUser, WriteUser, RemoveUser, AccountInv, HttpInv
  <1>2. AccountWork(r)'
    BY <1>1 DEF AccountWork
  <1>3. r \in Arrived /\ job[r] \in AccountJobs
    BY <1>1, GoFacts DEF Arrived, AccountInv
  <1>4. CASE UpdateLastLogin(r)
    <2>1. \A a \in DOMAIN accounts' :
             /\ a \in DOMAIN accounts /\ accounts'[a] \in AccountRows
             /\ accounts'[a].email = accounts[a].email
             /\ accounts'[a].username = accounts[a].username
      BY <1>4 DEF UpdateLastLogin, AccountInv, AccountTypeOK, AccountRows
    <2>2. QED
      BY <1>1, <1>2, <2>1, LikeRowsAreRows, GoKeepsAccountInv
  <1>5. CASE InsertUser(r)
    <2> DEFINE dto == job[r].dto
               row == [email |-> dto.email, username |-> dto.username, password |-> r,
                       role |-> dto.role, status |-> dto.status, lastLogin |-> Nothing]
    <2>1. dto \in CreateUserDtos
      BY <1>3, <1>5, AccountConstants DEF InsertUser, AccountJobs
    <2>2. row \in AccountRows /\ r \in Creators
      BY <2>1 DEF CreateUserDtos, AccountRows, Creators
    <2>3. UNCHANGED accounts \/ (~Clashes(r, row) /\ PutAccount(r, row))
      BY <1>5 DEF InsertUser
    <2>4. QED
      BY <1>1, <1>2, <2>2, <2>3, SameRowsAreRows, PutAccountKeepsRows, GoKeepsAccountInv
  <1>6. CASE WriteUser(r)
    <2> DEFINE a == job[r].account
               there == held[r].there
               row == IF there /\ Account(a) THEN Merge(accounts[a], held[r].entity, held[r].dirty)
                                             ELSE held[r].entity
    <2>1. held[r].entity \in AccountRows /\ a \in Creators
      BY <1>3, <1>6 DEF WriteUser, AccountJobs, AccountInv, AccountWork
    <2>2. row \in AccountRows
      BY <2>1 DEF Merge, AccountRows, Account, AccountInv, AccountTypeOK
    <2>3. UNCHANGED accounts \/ (~Clashes(a, row) /\ PutAccount(a, row))
      BY <1>6 DEF WriteUser
    <2>4. QED
      BY <1>1, <1>2, <2>1, <2>2, <2>3, SameRowsAreRows, PutAccountKeepsRows, GoKeepsAccountInv
  <1>7. CASE RemoveUser(r)
    <2>1. \A a \in DOMAIN accounts' : a \in DOMAIN accounts /\ accounts'[a] = accounts[a]
      BY <1>7 DEF RemoveUser
    <2>2. QED
      BY <1>1, <1>2, <2>1, LikeRowsAreRows, GoKeepsAccountInv DEF AccountInv, AccountTypeOK
  <1>8. QED
    BY <1>4, <1>5, <1>6, <1>7

LEMMA AccountsKeepInv == AccountSpec => []AccountInv
  <1>1. AccountInit => AccountInv
    <2> SUFFICES ASSUME AccountInit PROVE AccountInv
      OBVIOUS
    <2>1. HttpInv /\ HttpTypeOK
      BY HttpStarts, HttpTypesStart DEF AccountInit
    <2>2. Arrived = {} /\ \A r \in Requests : pc[r] = "idle"
      BY DEF AccountInit, HttpInit, Arrived
    <2>3. DOMAIN accounts = {Nobody} /\ accounts[Nobody] \in AccountRows
      BY AccountConstants DEF AccountInit, AccountTablesSeeded
    <2>4. QED
      BY <2>1, <2>2, <2>3 DEF AccountInv, AccountTypeOK, AccountWork, Creators, Clashes,
                              EmailTaken, UsernameTaken
  <1>2. AccountInv /\ UNCHANGED accountVars => AccountInv'
    BY DEF accountVars, httpVars, AccountInv, AccountTypeOK, HttpInv, HttpTypeOK, Arrived,
           Answered, InProgress, AccountWork, Clashes, EmailTaken, UsernameTaken
  <1>3. AccountInv /\ [AccountNext]_accountVars => AccountInv'
    BY <1>2, AccountRequestKeeps, QuietAccountStepKeeps, WritingAccountStepKeeps
       DEF AccountNext, AccountStep
  <1>4. QED
    BY <1>1, <1>3, PTL DEF AccountSpec

\* Accounts are of their types, and no two share an email or a username, whatever the
\* looks before the writes have seen.
THEOREM AccountsTypeCorrect == AccountSpec => []AccountTypeOK
  <1>1. AccountInv => AccountTypeOK
    BY DEF AccountInv
  <1>2. QED
    BY <1>1, AccountsKeepInv, PTL
-----------------------------------------------------------------------------
(* Accounts: what the steps do to the rows.                                *)

\* From its first look on, an update holds the row it will write.
HoldsUser(u) == pc[u] \in {"checkEmail", "checkUsername", "load", "write"}

\* A request that arrives writes nothing; a login has found its account, the others have
\* passed the first of their guards.
AccountStarted(r, j) ==
    /\ Starts(r, j) /\ j \in AccountJobs /\ UNCHANGED accounts /\ answer'[r] # "ok"
    /\ IF j.op = "login"
          THEN /\ pc'[r] \in {"stamp", "answered"}
               /\ pc'[r] = "stamp" => /\ held'[r].account \in DOMAIN accounts
                                      /\ accounts[held'[r].account].email = j.email
          ELSE pc'[r] \in {"guard", "answered"}
    /\ j.op \in {"updateUser", "deleteUser"} => j.account \in KnownAccounts

StampedUser(r, a) ==
    /\ pc[r] = "stamp" /\ job[r].op = "login" /\ a = held[r].account /\ a \in DOMAIN accounts
    /\ accounts'[a] = [accounts[a] EXCEPT !.lastLogin = r]

InsertedUser(r, a) ==
    /\ a = r /\ pc[r] = "insert" /\ job[r].op = "createUser" /\ pc'[r] = "answered"
    /\ accounts'[a].email = job[r].dto.email

\* The UPDATE or INSERT of an update comes to the row.
WroteUser(r, a) ==
    /\ pc[r] = "write" /\ job[r].op = "updateUser" /\ job[r].account = a
    /\ IF held[r].there
          THEN /\ a \in DOMAIN accounts
               /\ accounts'[a] = Merge(accounts[a], held[r].entity, held[r].dirty)
          ELSE /\ a \notin DOMAIN accounts /\ job[r].dto.password
               /\ accounts'[a] = held[r].entity

\* A later step writes one row at most: the login's time, the new row, the row of an
\* update.  An update holds what it found, changed, until it writes it.
AccountWent(r) ==
    /\ Goes(r) /\ pc'[r] \notin {"guard", "stamp"}
    /\ \A a \in DOMAIN accounts' :
          \/ a \in DOMAIN accounts /\ accounts'[a] = accounts[a]
          \/ StampedUser(r, a) \/ InsertedUser(r, a) \/ WroteUser(r, a)
    /\ answer'[r] = "ok" =>
          /\ job[r].op = "login" =>
                /\ pc[r] = "stamp"
                /\ held[r].account \in DOMAIN accounts' => StampedUser(r, held[r].account)
          /\ job[r].op = "deleteUser" => job[r].account \notin DOMAIN accounts'
          /\ job[r].op = "updateUser" =>
                /\ pc[r] = "write"
                /\ job[r].account \in DOMAIN accounts' => WroteUser(r, job[r].account)
    /\ HoldsUser(r)' =>
          LET a == job[r].account
          IN  /\ job[r].op = "updateUser" /\ UNCHANGED accounts
              /\ \/ /\ pc[r] = "find" /\ pc'[r] # "write" /\ a \in DOMAIN accounts
                    /\ held'[r].entity = Renewed(accounts[a], r)
                 \/ /\ HoldsUser(r) /\ pc[r] # "write" /\ held'[r].entity = held[r].entity
                    /\ (pc'[r] = "write" /\ a \in DOMAIN accounts) =>
                          held'[r].dirty =
                             DirtyColumns(held[r].entity, accounts[a], job[r].dto.password)
    /\ pc[r] = "guard" =>
          /\ answer'[r] # "ok"
          /\ pc'[r] # "answered" =>
                job[r].by \in DOMAIN accounts /\ accounts[job[r].by].status = "active"

LEMMA AccountStarts ==
    ASSUME AccountInv, NEW r \in Requests, LoginRequest(r) \/ UserRequest(r)
    PROVE  \E j : AccountStarted(r, j)
  <1> USE DEF Starts, Begin, Serve, Arrive, Answers
  <1>0. /\ answer[r] # "ok" \/ pc[r] # "idle"
        /\ KnownAccounts \subseteq Creators
    BY DEF AccountInv, HttpInv, AccountTypeOK, KnownAccounts, Creators
  <1>1. ASSUME NEW email \in Emails, NEW password, Login(r, email, password)
        PROVE  \E j : AccountStarted(r, j)
    <2> DEFINE j == [op |-> "login", email |-> email]
    <2>1. Starts(r, j) /\ UNCHANGED accounts
      BY <1>1 DEF Login
    <2>2. j \in AccountJobs /\ j.op = "login" /\ j.email = email
      BY DEF AccountJobs
    <2>3. /\ answer'[r] # "ok" /\ pc'[r] \in {"stamp", "answered"}
          /\ pc'[r] = "stamp" => /\ held'[r].account \in DOMAIN accounts
                                 /\ accounts[held'[r].account].email = email
      BY <1>0, <1>1 DEF Login, AccountInv, HttpInv
    <2> HIDE DEF j
    <2>4. QED
      BY <2>1, <2>2, <2>3 DEF AccountStarted
  <1>2. ASSUME NEW j \in AccountJobs, j.op # "login", Guard(r, j),
               j.op \in {"updateUser", "deleteUser"} => j.account \in KnownAccounts
        PROVE  AccountStarted(r, j)
    <2>1. Starts(r, j) /\ UNCHANGED accounts
      BY <1>2 DEF Guard
    <2>2. answer'[r] # "ok" /\ pc'[r] \in {"guard", "answered"}
      BY <1>0, <1>2 DEF Guard, AccountInv, HttpInv
    <2>3. QED
      BY <1>2, <2>1, <2>2 DEF AccountStarted
  <1>3. CASE UserRequest(r)
    <2>1. PICK by \in KnownAccounts :
             \/ \E dto \in NewUsers : Guard(r, [op |-> "createUser", by |-> by, dto |-> dto])
             \/ \E a \in KnownAccounts :
                   \/ \E dto \in UserChanges :
                         Guard(r, [op |-> "updateUser", by |-> by, account |-> a, dto |-> dto])
                   \/ Guard(r, [op |-> "deleteUser", by |-> by, account |-> a])
      BY <1>3 DEF UserRequest
    <2>2. ASSUME NEW dto \in NewUsers, NEW j, j = [op |-> "createUser", by |-> by, dto |-> dto],
                 Guard(r, j)
          PROVE  AccountStarted(r, j)
      BY <1>0, <1>2, <2>2 DEF AccountJobs
    <2>3. ASSUME NEW a \in KnownAccounts, NEW dto \in UserChanges, NEW j,
                 j = [op |-> "updateUser", by |-> by, account |-> a, dto |-> dto], Guard(r, j)
          PROVE  AccountStarted(r, j)
      BY <1>0, <1>2, <2>3 DEF AccountJobs
    <2>4. ASSUME NEW a \in KnownAccounts, NEW j,
                 j = [op |-> "deleteUser", by |-> by, account |-> a], Guard(r, j)
          PROVE  AccountStarted(r, j)
      BY <1>0, <1>2, <2>4 DEF AccountJobs
    <2>5. QED
      BY <2>1, <2>2, <2>3, <2>4
  <1>4. QED
    BY <1>1, <1>3 DEF LoginRequest

LEMMA AccountGoes ==
    ASSUME AccountInv, NEW r \in Requests, AccountStep(r)
    PROVE  AccountWent(r)
  <1> USE DEF Goes, Continue, Answer, Answers, At, InProgress
  <1>0. AccountWork(r)
    BY DEF AccountInv
  <1>1. CASE UpdateLastLogin(r)
    <2>1. /\ Goes(r) /\ pc[r] = "stamp" /\ pc'[r] = "answered" /\ job[r].op = "login"
          /\ DOMAIN accounts' = DOMAIN accounts
          /\ \A a \in DOMAIN accounts :
                accounts'[a] = IF a = held[r].account THEN [accounts[a] EXCEPT !.lastLogin = r]
                                                      ELSE accounts[a]
      BY <1>0, <1>1 DEF UpdateLastLogin, AccountInv, HttpInv, AccountWork
    <2>2. QED
      BY <2>1 DEF AccountWent, HoldsUser, StampedUser
  <1>2. CASE GuardAgain(r)
    <2>1. /\ Goes(r) /\ UNCHANGED accounts /\ pc[r] = "guard" /\ answer'[r] # "ok"
          /\ pc'[r] \in {"find", "answered"}
          /\ pc'[r] # "answered" =>
                job[r].by \in DOMAIN accounts /\ accounts[job[r].by].status = "active"
      BY <1>2 DEF GuardAgain, Account, Admitted, AccountInv, HttpInv
    <2>2. QED
      BY <2>1 DEF AccountWent, HoldsUser
  <1>3. CASE FindDuplicate(r) \/ FindToDelete(r)
    <2>1. /\ Goes(r) /\ UNCHANGED accounts /\ pc[r] = "find" /\ answer'[r] # "ok"
          /\ pc'[r] \in {"insert", "remove", "answered"}
      BY <1>3 DEF FindDuplicate, FindToDelete, AccountInv, HttpInv
    <2>2. QED
      BY <2>1 DEF AccountWent, HoldsUser
  <1>4. CASE InsertUser(r)
    <2>0. PICK row : row = [email |-> job[r].dto.email, username |-> job[r].dto.username,
                            password |-> r, role |-> job[r].dto.role,
                            status |-> job[r].dto.status, lastLogin |-> Nothing]
      OBVIOUS
    <2>1. /\ Goes(r) /\ pc[r] = "insert" /\ pc'[r] = "answered" /\ job[r].op = "createUser"
          /\ UNCHANGED accounts \/ PutAccount(r, row)
      BY <1>4, <2>0 DEF InsertUser, AccountInv, HttpInv
    <2>2. PutAccount(r, row) =>
             /\ DOMAIN accounts' = DOMAIN accounts \cup {r} /\ accounts'[r] = row
             /\ \A a \in DOMAIN accounts \ {r} : accounts'[a] = accounts[a]
      BY DEF PutAccount
    <2>3. \A a \in DOMAIN accounts' :
             (a \in DOMAIN accounts /\ accounts'[a] = accounts[a]) \/ InsertedUser(r, a)
      BY <2>0, <2>1, <2>2 DEF InsertedUser
    <2>4. QED
      BY <2>1, <2>3 DEF AccountWent, HoldsUser
  <1>5. CASE FindUser(r)
    <2>1. /\ Goes(r) /\ UNCHANGED accounts /\ pc[r] = "find" /\ answer'[r] # "ok"
          /\ job[r].op = "updateUser"
          /\ pc'[r] \in {"checkEmail", "checkUsername", "load", "answered"}
          /\ pc'[r] # "answered" =>
                /\ job[r].account \in DOMAIN accounts
                /\ held'[r].entity = Renewed(accounts[job[r].account], r)
      BY <1>5 DEF FindUser, AfterEmail, Account, AccountInv, HttpInv
    <2>2. QED
      BY <2>1 DEF AccountWent, HoldsUser
  <1>6. CASE CheckEmail(r) \/ CheckUsername(r)
    <2>1. /\ Goes(r) /\ UNCHANGED accounts /\ HoldsUser(r) /\ pc[r] # "write"
          /\ pc[r] # "guard" /\ answer'[r] # "ok"
          /\ job[r].op = "updateUser"
          /\ pc'[r] \in {"checkUsername", "load", "answered"}
          /\ pc'[r] # "answered" => held'[r].entity = held[r].entity
      BY <1>0, <1>6 DEF CheckEmail, CheckUsername, AfterEmail, HoldsUser, AccountWork,
                        AccountInv, HttpInv
    <2>2. QED
      BY <2>1 DEF AccountWent, HoldsUser
  <1>7. CASE LoadUser(r)
    <2> DEFINE a == job[r].account
    <2>1. /\ Goes(r) /\ UNCHANGED accounts /\ pc[r] = "load" /\ pc'[r] = "write"
          /\ answer'[r] # "ok" /\ job[r].op = "updateUser"
          /\ held'[r].entity = held[r].entity
          /\ a \in DOMAIN accounts =>
                held'[r].dirty = DirtyColumns(held[r].entity, accounts[a], job[r].dto.password)
      BY <1>7 DEF LoadUser, Account, AccountInv, HttpInv
    <2>2. QED
      BY <2>1 DEF AccountWent, HoldsUser
  <1>8. CASE WriteUser(r)
    <2>0. PICK a, row :
             /\ a = job[r].account
             /\ row = IF held[r].there /\ Account(a)
                         THEN Merge(accounts[a], held[r].entity, held[r].dirty)
                         ELSE held[r].entity
      OBVIOUS
    <2> DEFINE Puts == /\ PutAccount(a, row)
                       /\ IF held[r].there THEN a \in DOMAIN accounts
                             ELSE a \notin DOMAIN accounts /\ job[r].dto.password
    <2>1. /\ Goes(r) /\ pc[r] = "write" /\ pc'[r] = "answered" /\ job[r].op = "updateUser"
          /\ UNCHANGED accounts \/ Puts
          /\ (answer'[r] = "ok" /\ a \in DOMAIN accounts') => Puts
      <3>1. /\ Goes(r) /\ pc[r] = "write" /\ pc'[r] = "answered" /\ job[r].op = "updateUser"
        BY <1>8 DEF WriteUser, AccountInv, HttpInv
      <3> DEFINE written == held[r].there => Account(a)
                 fails == \/ written /\ Clashes(a, row)
                          \/ ~held[r].there /\ (Account(a) \/ ~job[r].dto.password)
      <3>2. /\ Answer(r, IF fails THEN "error" ELSE "ok")
            /\ IF written /\ ~fails THEN PutAccount(a, row) ELSE UNCHANGED accounts
        BY <1>8, <2>0 DEF WriteUser
      <3>3. answer'[r] = IF fails THEN "error" ELSE "ok"
        BY <3>2 DEF AccountInv, HttpInv
      <3>4. (written /\ ~fails) => Puts
        BY <3>2 DEF Account
      <3>5. (~written /\ ~fails) => a \notin DOMAIN accounts
        BY DEF Account
      <3>6. CASE fails
        <4>1. answer'[r] = "error" /\ UNCHANGED accounts
          BY <3>2, <3>3, <3>6
        <4>2. QED
          BY <3>1, <4>1
      <3>7. CASE written /\ ~fails
        BY <3>1, <3>4, <3>7
      <3>8. CASE ~written /\ ~fails
        <4>1. a \notin DOMAIN accounts /\ UNCHANGED accounts
          BY <3>2, <3>5, <3>8
        <4>2. QED
          BY <3>1, <4>1
      <3>9. QED
        BY <3>6, <3>7, <3>8
    <2>2. PutAccount(a, row) =>
             /\ DOMAIN accounts' = DOMAIN accounts \cup {a} /\ accounts'[a] = row
             /\ \A b \in DOMAIN accounts \ {a} : accounts'[b] = accounts[b]
      BY DEF PutAccount
    <2>3. Puts => WroteUser(r, a)
      BY <2>0, <2>1, <2>2 DEF WroteUser, Account
    <2>4. \A b \in DOMAIN accounts' :
             (b \in DOMAIN accounts /\ accounts'[b] = accounts[b]) \/ WroteUser(r, b)
      BY <2>0, <2>1, <2>2, <2>3 DEF WroteUser
    <2>5. (answer'[r] = "ok" /\ a \in DOMAIN accounts') => WroteUser(r, a)
      BY <2>1, <2>3
    <2>6. QED
      BY <2>0, <2>1, <2>4, <2>5 DEF AccountWent, HoldsUser
  <1>9. CASE RemoveUser(r)
    <2>1. /\ Goes(r) /\ pc[r] = "remove" /\ pc'[r] = "answered" /\ job[r].op = "deleteUser"
          /\ DOMAIN accounts' = DOMAIN accounts \ {job[r].account}
          /\ \A a \in DOMAIN accounts' : accounts'[a] = accounts[a]
      BY <1>9 DEF RemoveUser, AccountInv, HttpInv
    <2>2. QED
      BY <2>1 DEF AccountWent, HoldsUser
  <1>10. CASE StatementFails(r) /\ UNCHANGED accounts
    <2>1. Goes(r) /\ pc'[r] = "answered" /\ answer'[r] = "error" /\ UNCHANGED accounts
      BY <1>10 DEF StatementFails, AccountInv, HttpInv
    <2>2. QED
      BY <2>1 DEF AccountWent, HoldsUser
  <1>11. QED
    BY <1>1, <1>2, <1>3, <1>4, <1>5, <1>6, <1>7, <1>8, <1>9, <1>10 DEF AccountStep
-----------------------------------------------------------------------------
(* Accounts: what was deleted, deactivated and stamped.                    *)

\* What explains that a deleted account is there again, that a status is not the one that
\* u gave, and that the time of a login has gone.
RevivalExcused(d, a) == \E u \in UpdatesOf(a) : job[u].dto.password /\ Overlap(u, d)

Disturbs(v, u) == Overlap(u, v) \/ (u \in earlier[v] /\ job[v].dto.status # Nothing)

StatusExcused(u, a) == \E v \in UpdatesOf(a) \ {u} : pc[v] # "guard" /\ Disturbs(v, u)

ServedExcused(r, u) == \E v \in UpdatesOf(job[r].by) \ {u, r} : Disturbs(v, u)

EmailsChange == \E u \in Arrived : job[u].op = "updateUser" /\ job[u].dto.email # Nothing

LoginExcused(a, l) ==
    \/ EmailsChange
    \/ \E m \in Logins : Overlap(m, l) \/ l \in earlier[m]
    \/ \E u \in UpdatesOf(a) : Overlap(u, l)
    \/ a \in Requests /\ a \notin earlier[l]

\* An account is there, and asked for, once the request that makes it was answered.
AccountsKnown ==
    /\ DOMAIN accounts \subseteq Answered \cup {Nobody}
    /\ \A q \in Arrived : job[q].op \in {"updateUser", "deleteUser"} =>
          job[q].account \in Answered \cup {Nobody}

\* A deleted account is there, or held by an update that could insert it, only with
\* such an excuse.
DeletedAccounts ==
    \A a \in Creators : \A d \in RemovalsOf(a) : Succeeded(d) => RevivalExcused(d, a) \/
       /\ a \notin DOMAIN accounts
       /\ \A u \in UpdatesOf(a) : HoldsUser(u) => ~job[u].dto.password

\* Undisturbed, the status an update gives is in the row, or will be written, and in
\* every copy that a later update holds.
StatusesAgree ==
    /\ \A u \in Arrived : (HoldsUser(u) /\ job[u].dto.status # Nothing) =>
          held[u].entity.status = job[u].dto.status
    /\ \A a \in Creators : \A u \in UpdatesOf(a) :
          job[u].dto.status # Nothing => StatusExcused(u, a) \/
             /\ (pc[u] = "write" /\ held[u].there /\ a \in DOMAIN accounts) =>
                   "status" \in held[u].dirty \/ accounts[a].status = job[u].dto.status
             /\ Succeeded(u) =>
                   /\ a \in DOMAIN accounts => accounts[a].status = job[u].dto.status
                   /\ \A v \in UpdatesOf(a) :
                         HoldsUser(v) => held[v].entity.status = job[u].dto.status

\* Who is past the guards after a deactivation has found another status there.
ServedAreExcused ==
    \A r \in Arrived \ Logins : (pc[r] # "guard" /\ (InProgress(r) \/ Succeeded(r))) =>
       \A u \in UpdatesOf(job[r].by) \cap earlier[r] :
          (Succeeded(u) /\ job[u].dto.status \notin {"active", Nothing}) => ServedExcused(r, u)

\* Unless an update brings one, an account keeps the email it was made with, ...
FirstEmail(a) == IF a = Nobody THEN FirstAccount.email ELSE job[a].dto.email

EmailsKept == EmailsChange \/
    /\ \A a \in DOMAIN accounts : accounts[a].email = FirstEmail(a)
    /\ \A u \in Arrived : HoldsUser(u) => held[u].entity.email = FirstEmail(job[u].account)

\* ... so that a login with it is one of this account: undisturbed, it stamps the row, and
\* later updates have read that.
LoginsAgree ==
    \A a \in Creators : \A l \in Logins : FirstEmail(a) = job[l].email => LoginExcused(a, l) \/
       /\ (pc[l] = "stamp" /\ (a \in DOMAIN accounts \/ \E u \in UpdatesOf(a) : HoldsUser(u))) =>
             held[l].account = a
       /\ Succeeded(l) =>
             /\ a \in DOMAIN accounts => accounts[a].lastLogin = l
             /\ \A u \in UpdatesOf(a) : HoldsUser(u) => held[u].entity.lastLogin = l

AccountPast ==
    /\ AccountsKnown /\ DeletedAccounts /\ StatusesAgree /\ ServedAreExcused
    /\ EmailsKept /\ LoginsAgree

AccountHistory == AccountInv /\ AccountPast

\* Excuses stand.
LEMMA AccountExcusesStand ==
    ASSUME ArrivedStay, \A q \in Arrived : pc'[q] = "guard" => pc[q] = "guard"
    PROVE  /\ \A a : UpdatesOf(a) \subseteq UpdatesOf(a)' /\ RemovalsOf(a) \subseteq RemovalsOf(a)'
           /\ Logins \subseteq Logins'
           /\ \A d, a : RevivalExcused(d, a) => RevivalExcused(d, a)'
           /\ \A u, a : StatusExcused(u, a) => StatusExcused(u, a)'
           /\ \A r \in Arrived : \A u : ServedExcused(r, u) => ServedExcused(r, u)'
           /\ EmailsChange => EmailsChange'
           /\ \A a : \A l \in Arrived : LoginExcused(a, l) => LoginExcused(a, l)'
  <1>1. \A a : /\ UpdatesOf(a) \subseteq UpdatesOf(a)' /\ RemovalsOf(a) \subseteq RemovalsOf(a)'
               /\ UpdatesOf(a) \subseteq Arrived
    BY DEF ArrivedStay, UpdatesOf, RemovalsOf, AsksAbout, Arrived
  <1>2. Logins \subseteq Logins' /\ Logins \subseteq Arrived
    BY DEF ArrivedStay, Logins, Arrived
  <1>3. \A d, a : RevivalExcused(d, a) => RevivalExcused(d, a)'
    BY <1>1 DEF ArrivedStay, RevivalExcused
  <1>4. \A v \in Arrived : \A u : Disturbs(v, u) => Disturbs(v, u)'
    BY DEF ArrivedStay, Disturbs
  <1>5. \A u, a : StatusExcused(u, a) => StatusExcused(u, a)'
    BY <1>1, <1>4 DEF StatusExcused
  <1>6. \A r \in Arrived : \A u : ServedExcused(r, u) => ServedExcused(r, u)'
    BY <1>1, <1>4 DEF ArrivedStay, ServedExcused
  <1>7. EmailsChange => EmailsChange'
    BY DEF ArrivedStay, EmailsChange
  <1>8. ASSUME NEW a, NEW l \in Arrived, LoginExcused(a, l) PROVE LoginExcused(a, l)'
    <2>1. CASE \E m \in Logins : Overlap(m, l) \/ l \in earlier[m]
      BY <1>2, <2>1 DEF ArrivedStay, LoginExcused
    <2>2. CASE \E u \in UpdatesOf(a) : Overlap(u, l)
      BY <1>1, <2>2 DEF ArrivedStay, LoginExcused
    <2>3. CASE a \in Requests /\ a \notin earlier[l]
      BY <2>3 DEF ArrivedStay, LoginExcused
    <2>4. CASE EmailsChange
      BY <1>7, <2>4 DEF LoginExcused
    <2>5. QED
      BY <1>8, <2>1, <2>2, <2>3, <2>4 DEF LoginExcused
  <1>9. QED
    BY <1>1, <1>2, <1>3, <1>5, <1>6, <1>7, <1>8

\* Who asks for what after a start, and after a later step.
LEMMA NewcomersAccount ==
    ASSUME AccountInv, NEW r \in Requests, NEW j, AccountStarted(r, j)
    PROVE  /\ ArrivedStay /\ UNCHANGED accounts /\ ~Succeeded(r)' /\ r \notin Arrived
           /\ \A q \in Arrived : pc'[q] = "guard" => pc[q] = "guard"
           /\ Arrived' = Arrived \cup {r} /\ Arrived \subseteq Requests /\ job'[r] = j
           /\ earlier'[r] = Answered /\ Answered \subseteq Answered' /\ Answered \subseteq Arrived
           /\ ~HoldsUser(r)' /\ r # Nobody
           /\ \A q \in Requests \ {r} :
                 /\ pc'[q] = pc[q] /\ held'[q] = held[q] /\ job'[q] = job[q]
                 /\ earlier'[q] = earlier[q]
                 /\ InProgress(q)' <=> InProgress(q)
                 /\ Succeeded(q)' <=> Succeeded(q)
                 /\ HoldsUser(q)' <=> HoldsUser(q)
           /\ \A a : /\ UpdatesOf(a)' \subseteq UpdatesOf(a) \cup {r}
                     /\ RemovalsOf(a)' \subseteq RemovalsOf(a) \cup {r}
                     /\ UpdatesOf(a) \cup RemovalsOf(a) \subseteq Arrived
           /\ Logins' \subseteq Logins \cup {r} /\ Logins \subseteq Arrived
           /\ r \in Logins' <=> j.op = "login"
           /\ \A q \in Requests : InProgress(q) => Overlap(q, r)' /\ Overlap(r, q)'
           /\ \A q \in Arrived : Succeeded(q) => q \in Answered
  <1>1. HttpInv /\ ArrivedStay /\ UNCHANGED accounts /\ Starts(r, j)
    BY StepsLeaveArrived DEF AccountInv, AccountStarted
  <1>2. /\ pc[r] = "idle" /\ pc'[r] # "idle" /\ job'[r] = j /\ earlier'[r] = Answered
        /\ \A q \in Requests \ {r} :
              /\ pc'[q] = pc[q] /\ job'[q] = job[q] /\ held'[q] = held[q]
              /\ answer'[q] = answer[q] /\ earlier'[q] = earlier[q]
    BY <1>1, StartFacts
  <1>3. /\ Arrived' = Arrived \cup {r} /\ r \notin Arrived /\ Arrived \subseteq Requests
        /\ r # Nobody /\ \A q \in Arrived : pc'[q] = "guard" => pc[q] = "guard"
    BY <1>2, RequestConstants DEF Arrived
  <1>4. \A a : /\ UpdatesOf(a)' \subseteq UpdatesOf(a) \cup {r}
               /\ RemovalsOf(a)' \subseteq RemovalsOf(a) \cup {r}
               /\ UpdatesOf(a) \cup RemovalsOf(a) \subseteq Arrived
    BY <1>2 DEF UpdatesOf, RemovalsOf, AsksAbout, Arrived
  <1>5. /\ Logins' \subseteq Logins \cup {r} /\ Logins \subseteq Arrived
        /\ r \in Logins' <=> j.op = "login"
    BY <1>2 DEF Logins, Arrived
  <1>6. \A q \in Requests \ {r} :
           /\ InProgress(q)' <=> InProgress(q)
           /\ Succeeded(q)' <=> Succeeded(q)
           /\ HoldsUser(q)' <=> HoldsUser(q)
    BY <1>2 DEF InProgress, Succeeded, HoldsUser
  <1>7. ~Succeeded(r)' /\ ~HoldsUser(r)'
    BY DEF Succeeded, AccountStarted, HoldsUser
  <1>8. /\ \A q \in Arrived : Succeeded(q) => q \in Answered
        /\ Answered \subseteq Answered' /\ Answered \subseteq Arrived
    BY <1>1, <1>2, <1>3 DEF HttpInv, Succeeded, Answered, Arrived
  <1>9. QED
    BY <1>1, <1>2, <1>3, <1>4, <1>5, <1>6, <1>7, <1>8, StartOverlaps

LEMMA GoersAccount ==
    ASSUME AccountInv, NEW r \in Requests, AccountWent(r)
    PROVE  /\ ArrivedStay /\ InProgress(r) /\ ~Succeeded(r) /\ job' = job /\ earlier' = earlier
           /\ \A q \in Arrived : pc'[q] = "guard" => pc[q] = "guard"
           /\ Arrived' = Arrived /\ r \in Arrived /\ Arrived \subseteq Requests /\ r # Nobody
           /\ Answered \subseteq Answered' /\ r \notin Answered
           /\ \A q \in Requests : earlier[q] \subseteq Answered
           /\ \A q \in Requests \ {r} :
                 /\ pc'[q] = pc[q] /\ held'[q] = held[q]
                 /\ InProgress(q)' <=> InProgress(q)
                 /\ Succeeded(q)' <=> Succeeded(q)
                 /\ HoldsUser(q)' <=> HoldsUser(q)
           /\ \A a : /\ UpdatesOf(a)' = UpdatesOf(a) /\ RemovalsOf(a)' = RemovalsOf(a)
                     /\ UpdatesOf(a) \cup RemovalsOf(a) \subseteq Arrived
                     /\ r \in UpdatesOf(a) <=> job[r].op = "updateUser" /\ job[r].account = a
           /\ Logins' = Logins /\ Logins \subseteq Arrived
           /\ EmailsChange' <=> EmailsChange
           /\ \A a : FirstEmail(a)' = FirstEmail(a)
           /\ \A q \in Requests \ {r} : InProgress(q) => Overlap(q, r) /\ Overlap(r, q)
           /\ answer'[r] = "ok" => pc'[r] = "answered"
           /\ Succeeded(r)' <=> answer'[r] = "ok"
           /\ \A q \in Requests : HoldsUser(q) \/ pc[q] \in {"stamp", "write"} => InProgress(q)
  <1>1. HttpInv /\ ArrivedStay /\ Goes(r) /\ InProgress(r)
    BY StepsLeaveArrived DEF AccountInv, AccountWent, Goes
  <1>2. /\ job' = job /\ answer[r] = "none" /\ pc[r] \notin {"idle", "answered"} /\ pc'[r] # "idle"
        /\ earlier' = earlier
        /\ \A q \in Requests \ {r} :
              pc'[q] = pc[q] /\ held'[q] = held[q] /\ answer'[q] = answer[q]
        /\ answer'[r] = "ok" => pc'[r] = "answered"
    BY <1>1, GoFacts
  <1>3. /\ Arrived' = Arrived /\ r \in Arrived /\ Arrived \subseteq Requests /\ r # Nobody
        /\ \A q \in Arrived : pc'[q] = "guard" => pc[q] = "guard"
    BY <1>2, RequestConstants DEF Arrived, AccountWent
  <1>4. \A a : /\ UpdatesOf(a)' = UpdatesOf(a) /\ RemovalsOf(a)' = RemovalsOf(a)
               /\ UpdatesOf(a) \cup RemovalsOf(a) \subseteq Arrived
               /\ r \in UpdatesOf(a) <=> job[r].op = "updateUser" /\ job[r].account = a
    BY <1>2 DEF UpdatesOf, RemovalsOf, AsksAbout, Arrived
  <1>5. Logins' = Logins /\ Logins \subseteq Arrived
    BY <1>2 DEF Logins, Arrived
  <1>6. \A q \in Requests \ {r} :
           /\ InProgress(q)' <=> InProgress(q)
           /\ Succeeded(q)' <=> Succeeded(q)
           /\ HoldsUser(q)' <=> HoldsUser(q)
    BY <1>2 DEF InProgress, Succeeded, HoldsUser
  <1>7. /\ ~Succeeded(r) /\ r \notin Answered /\ Answered \subseteq Answered'
        /\ \A q \in Requests : earlier[q] \subseteq Answered
        /\ Succeeded(r)' <=> answer'[r] = "ok"
    BY <1>1, <1>2 DEF Succeeded, Answered, HttpInv
  <1>8. (EmailsChange' <=> EmailsChange) /\ \A a : FirstEmail(a)' = FirstEmail(a)
    BY <1>2, <1>3 DEF EmailsChange, FirstEmail
  <1>9. \A q \in Requests : HoldsUser(q) \/ pc[q] \in {"stamp", "write"} => InProgress(q)
    BY DEF HoldsUser, InProgress
  <1>10. QED
    BY <1>1, <1>2, <1>3, <1>4, <1>5, <1>6, <1>7, <1>8, <1>9, InProgressOverlap

\* What a row and a copy have after a change of some columns.
LEMMA AccountColumns ==
    ASSUME AccountInv, NEW r \in Requests
    PROVE  /\ \A a \in DOMAIN accounts :
                 /\ StampedUser(r, a) => /\ accounts'[a].status = accounts[a].status
                                         /\ accounts'[a].email = accounts[a].email
                                         /\ accounts'[a].lastLogin = r
                 /\ WroteUser(r, a) =>
                       \A c \in {"status", "email", "lastLogin"} :
                          accounts'[a][c] = IF held[r].there /\ c \notin held[r].dirty
                                               THEN accounts[a][c] ELSE held[r].entity[c]
           /\ \A a \in DOMAIN accounts : (r \in Arrived /\ job[r].op = "updateUser") =>
                 LET row == Renewed(accounts[a], r)
                 IN  /\ row.status = Or(job[r].dto.status, accounts[a].status)
                     /\ row.email = Or(job[r].dto.email, accounts[a].email)
                     /\ row.lastLogin = accounts[a].lastLogin
  <1>1. ASSUME NEW a \in DOMAIN accounts PROVE accounts[a] \in AccountRows
    BY <1>1 DEF AccountInv, AccountTypeOK
  <1>2. ASSUME NEW a \in DOMAIN accounts, StampedUser(r, a)
        PROVE  /\ accounts'[a].status = accounts[a].status
               /\ accounts'[a].email = accounts[a].email
               /\ accounts'[a].lastLogin = r
    BY <1>1, <1>2 DEF StampedUser, AccountRows
  <1>3. ASSUME NEW a \in DOMAIN accounts, WroteUser(r, a), NEW c \in {"status", "email", "lastLogin"}
        PROVE  accounts'[a][c] = IF held[r].there /\ c \notin held[r].dirty
                                    THEN accounts[a][c] ELSE held[r].entity[c]
    <2>1. c \in DOMAIN accounts[a]
      BY <1>1 DEF AccountRows
    <2>2. QED
      BY <1>3, <2>1 DEF WroteUser, Merge
  <1>4. ASSUME NEW a \in DOMAIN accounts
        PROVE  LET row == Renewed(accounts[a], r)
               IN  /\ row.status = Or(job[r].dto.status, accounts[a].status)
                   /\ row.email = Or(job[r].dto.email, accounts[a].email)
                   /\ row.lastLogin = accounts[a].lastLogin
    BY <1>1 DEF Renewed, AccountRows
  <1>5. QED
    BY <1>2, <1>3, <1>4

\* Nothing happens to the row of a request in progress that makes it, for nobody asks for it.
LEMMA InsertedIsNew ==
    ASSUME AccountHistory, NEW r \in Requests, AccountWent(r), NEW a, InsertedUser(r, a)
    PROVE  UpdatesOf(a) \cup RemovalsOf(a) = {} /\ \A l \in Requests : a \notin earlier[l]
  <1>1. a = r /\ r \notin Answered /\ r # Nobody
    BY GoersAccount DEF AccountHistory, InsertedUser
  <1>2. \A l \in Requests : a \notin earlier[l]
    BY <1>1, GoersAccount DEF AccountHistory
  <1>3. \A q \in UpdatesOf(a) \cup RemovalsOf(a) : q \in Arrived /\
           job[q].op \in {"updateUser", "deleteUser"} /\ job[q].account = a
    BY DEF UpdatesOf, RemovalsOf, AsksAbout, Arrived
  <1>4. QED
    BY <1>1, <1>2, <1>3 DEF AccountHistory, AccountPast, AccountsKnown

\* An update holds what it held, or the changed row that it has just found.
LEMMA WhatUpdatesHold ==
    ASSUME AccountInv, NEW r \in Requests, AccountWent(r), NEW u \in Arrived, HoldsUser(u)'
    PROVE  \/ HoldsUser(u) /\ held'[u].entity = held[u].entity
           \/ /\ u = r /\ job[r].op = "updateUser" /\ job[r].account \in DOMAIN accounts
              /\ held'[r].entity = Renewed(accounts[job[r].account], r)
  <1>1. CASE u = r
    BY <1>1 DEF AccountWent
  <1>2. CASE u # r
    <2>1. u \in Requests \ {r}
      BY <1>2, GoersAccount
    <2>2. QED
      BY <2>1, GoersAccount
  <1>3. QED
    BY <1>1, <1>2

LEMMA StartKeepsAccountsKnown ==
    ASSUME AccountHistory, NEW r \in Requests, NEW j, AccountStarted(r, j)
    PROVE  AccountsKnown'
  <1>1. AccountInv /\ AccountsKnown
    BY DEF AccountHistory, AccountPast
  <1>2. KnownAccounts \subseteq Answered \cup {Nobody}
    BY <1>1 DEF AccountsKnown, KnownAccounts
  <1>3. j.op \in {"updateUser", "deleteUser"} => j.account \in Answered \cup {Nobody}
    BY <1>2 DEF AccountStarted
  <1>4. QED
    BY <1>1, <1>3, NewcomersAccount DEF AccountsKnown

LEMMA GoKeepsAccountsKnown ==
    ASSUME AccountHistory, NEW r \in Requests, AccountWent(r)
    PROVE  AccountsKnown'
  <1>1. AccountInv /\ AccountsKnown
    BY DEF AccountHistory, AccountPast
  <1>2. ASSUME NEW a \in DOMAIN accounts' PROVE a \in Answered' \cup {Nobody}
    <2>1. CASE a \in DOMAIN accounts
      BY <1>1, <2>1, GoersAccount DEF AccountsKnown
    <2>2. CASE InsertedUser(r, a)
      BY <2>2 DEF InsertedUser, Answered
    <2>3. CASE WroteUser(r, a)
      BY <1>1, <2>3, GoersAccount DEF AccountsKnown, WroteUser
    <2>4. QED
      BY <2>1, <2>2, <2>3 DEF AccountWent, StampedUser
  <1>3. QED
    BY <1>1, <1>2, GoersAccount DEF AccountsKnown

LEMMA StartKeepsDeletedAccounts ==
    ASSUME AccountHistory, NEW r \in Requests, NEW j, AccountStarted(r, j)
    PROVE  DeletedAccounts'
  <1>1. AccountInv /\ DeletedAccounts
    BY DEF AccountHistory, AccountPast
  <1>2. ASSUME NEW a \in Creators, NEW d \in RemovalsOf(a)', Succeeded(d)', ~RevivalExcused(d, a)'
        PROVE  /\ a \notin DOMAIN accounts'
               /\ \A u \in UpdatesOf(a)' : HoldsUser(u)' => ~job'[u].dto.password
    <2>1. d \in RemovalsOf(a) /\ Succeeded(d) /\ ~RevivalExcused(d, a)
      BY <1>1, <1>2, NewcomersAccount, AccountExcusesStand
    <2>2. QED
      BY <1>1, <2>1, NewcomersAccount DEF DeletedAccounts
  <1>3. QED
    BY <1>2 DEF DeletedAccounts

LEMMA GoKeepsDeletedAccounts ==
    ASSUME AccountHistory, NEW r \in Requests, AccountWent(r)
    PROVE  DeletedAccounts'
  <1>1. AccountInv /\ DeletedAccounts
    BY DEF AccountHistory, AccountPast
  <1>2. ASSUME NEW a \in Creators, NEW d \in RemovalsOf(a), Succeeded(d)', ~RevivalExcused(d, a)'
        PROVE  /\ a \notin DOMAIN accounts'
               /\ \A u \in UpdatesOf(a) : HoldsUser(u)' => ~job[u].dto.password
    <2>1. \A u \in UpdatesOf(a) : job[u].dto.password => ~Overlap(u, d)
      BY <1>1, <1>2, GoersAccount, AccountExcusesStand DEF RevivalExcused
    <2>2. d \in Requests /\ job[d].op = "deleteUser" /\ job[d].account = a
      BY DEF RemovalsOf, AsksAbout
    <2>3. CASE d = r
      <3>1. a \notin DOMAIN accounts'
        BY <1>1, <1>2, <2>2, <2>3, GoersAccount DEF AccountWent
      <3>2. ASSUME NEW u \in UpdatesOf(a), HoldsUser(u)' PROVE ~job[u].dto.password
        <4>1. u \in Requests \ {r}
          BY <2>2, <2>3 DEF UpdatesOf, AsksAbout
        <4>2. Overlap(u, d)
          BY <1>1, <2>3, <3>2, <4>1, GoersAccount
        <4>3. QED
          BY <2>1, <4>2
      <3>3. QED
        BY <3>1, <3>2
    <2>4. CASE d # r
      <3>1. Succeeded(d) /\ ~RevivalExcused(d, a)
        BY <1>1, <1>2, <2>1, <2>2, <2>4, GoersAccount DEF RevivalExcused
      <3>2. a \notin DOMAIN accounts /\ \A u \in UpdatesOf(a) : HoldsUser(u) => ~job[u].dto.password
        BY <1>1, <3>1 DEF DeletedAccounts
      <3>3. ~InsertedUser(r, a)
        BY InsertedIsNew
      <3>4. ~WroteUser(r, a)
        BY <1>1, <3>2, GoersAccount DEF WroteUser, HoldsUser
      <3>5. a \notin DOMAIN accounts'
        BY <3>2, <3>3, <3>4 DEF AccountWent, StampedUser
      <3>6. ASSUME NEW u \in UpdatesOf(a), HoldsUser(u)' PROVE ~job[u].dto.password
        <4>1. CASE u = r
          BY <1>1, <3>2, <3>6, <4>1, GoersAccount DEF AccountWent
        <4>2. CASE u # r
          BY <1>1, <3>2, <3>6, <4>2, GoersAccount
        <4>3. QED
          BY <4>1, <4>2
      <3>7. QED
        BY <3>5, <3>6
    <2>5. QED
      BY <2>3, <2>4
  <1>3. QED
    BY <1>1, <1>2, GoersAccount DEF DeletedAccounts

LEMMA StartKeepsStatusesAgree ==
    ASSUME AccountHistory, NEW r \in Requests, NEW j, AccountStarted(r, j)
    PROVE  StatusesAgree'
  <1>1. AccountInv /\ StatusesAgree
    BY DEF AccountHistory, AccountPast
  <1>2. \A u \in Arrived' : (HoldsUser(u)' /\ job'[u].dto.status # Nothing) =>
           held'[u].entity.status = job'[u].dto.status
    BY <1>1, NewcomersAccount DEF StatusesAgree
  <1>3. ASSUME NEW a \in Creators, NEW u \in UpdatesOf(a)', job'[u].dto.status # Nothing,
               ~StatusExcused(u, a)'
        PROVE  /\ (pc'[u] = "write" /\ held'[u].there /\ a \in DOMAIN accounts') =>
                     "status" \in held'[u].dirty \/ accounts'[a].status = job'[u].dto.status
               /\ Succeeded(u)' =>
                     /\ a \in DOMAIN accounts' => accounts'[a].status = job'[u].dto.status
                     /\ \A v \in UpdatesOf(a)' :
                           HoldsUser(v)' => held'[v].entity.status = job'[u].dto.status
    <2>1. CASE u = r
      BY <1>1, <2>1, NewcomersAccount DEF HoldsUser
    <2>2. CASE u # r
      <3>1. u \in UpdatesOf(a) /\ u \in Requests \ {r} /\ u \in Arrived
        BY <1>1, <1>3, <2>2, NewcomersAccount
      <3>2. job[u].dto.status # Nothing /\ ~StatusExcused(u, a)
        BY <1>1, <1>3, <3>1, NewcomersAccount, AccountExcusesStand
      <3>3. QED
        BY <1>1, <3>1, <3>2, NewcomersAccount DEF StatusesAgree
    <2>3. QED
      BY <2>1, <2>2
  <1>4. QED
    BY <1>2, <1>3 DEF StatusesAgree

LEMMA GoKeepsStatusesAgree ==
    ASSUME AccountHistory, NEW r \in Requests, AccountWent(r)
    PROVE  StatusesAgree'
  <1>1. AccountInv /\ StatusesAgree
    BY DEF AccountHistory, AccountPast
  <1>2. ASSUME NEW u \in Arrived, HoldsUser(u)', job[u].dto.status # Nothing
        PROVE  held'[u].entity.status = job[u].dto.status
    <2>1. CASE HoldsUser(u) /\ held'[u].entity = held[u].entity
      BY <1>1, <1>2, <2>1 DEF StatusesAgree
    <2>2. CASE /\ u = r /\ job[r].op = "updateUser" /\ job[r].account \in DOMAIN accounts
               /\ held'[r].entity = Renewed(accounts[job[r].account], r)
      <3>1. PICK a \in DOMAIN accounts : held'[r].entity = Renewed(accounts[a], r)
        BY <2>2
      <3>2. held'[r].entity.status = Or(job[r].dto.status, accounts[a].status)
        BY <1>1, <2>2, <3>1, AccountColumns
      <3>3. QED
        BY <1>2, <2>2, <3>2 DEF Or
    <2>3. QED
      BY <1>1, <1>2, <2>1, <2>2, WhatUpdatesHold
  <1>3. ASSUME NEW a \in Creators, NEW u \in UpdatesOf(a), job[u].dto.status # Nothing,
               ~StatusExcused(u, a)'
        PROVE  /\ (pc'[u] = "write" /\ held'[u].there /\ a \in DOMAIN accounts') =>
                     "status" \in held'[u].dirty \/ accounts'[a].status = job[u].dto.status
               /\ Succeeded(u)' =>
                     /\ a \in DOMAIN accounts' => accounts'[a].status = job[u].dto.status
                     /\ \A v \in UpdatesOf(a) :
                           HoldsUser(v)' => held'[v].entity.status = job[u].dto.status
    <2> DEFINE given == job[u].dto.status
    <2>1. u \in Requests /\ u \in Arrived /\ job[u].op = "updateUser" /\ job[u].account = a
      BY <1>1, GoersAccount DEF UpdatesOf, AsksAbout
    <2>2. ~StatusExcused(u, a)
      BY <1>1, <1>3, <2>1, GoersAccount, AccountExcusesStand
    <2>3. \A v \in UpdatesOf(a) \ {u} : pc'[v] # "guard" =>
             ~Overlap(u, v) /\ (u \in earlier[v] => job[v].dto.status = Nothing)
      BY <1>1, <1>3, <2>1, GoersAccount DEF StatusExcused, Disturbs, ArrivedStay
    <2>4. ~InsertedUser(r, a)
      BY <1>3, InsertedIsNew
    <2>5. pc'[r] # "guard"
      BY DEF AccountWent
    <2>6. CASE u = r
      <3>2. ASSUME pc'[r] = "write", held'[r].there, a \in DOMAIN accounts'
            PROVE  "status" \in held'[r].dirty \/ accounts'[a].status = given
        <4>1. /\ HoldsUser(r) /\ a \in DOMAIN accounts /\ accounts'[a] = accounts[a]
              /\ held'[r].dirty =
                    DirtyColumns(held[r].entity, accounts[a], job[r].dto.password)
          BY <2>1, <2>6, <3>2 DEF AccountWent, HoldsUser
        <4>2. held[r].entity \in AccountRows /\ held[r].entity.status = given
          BY <1>1, <1>3, <2>1, <2>6, <4>1 DEF AccountInv, AccountWork, HoldsUser, StatusesAgree
        <4>3. QED
          BY <4>1, <4>2 DEF DirtyColumns, Dirty, AccountRows
      <3>3. ASSUME Succeeded(r)', a \in DOMAIN accounts' PROVE accounts'[a].status = given
        <4>1. pc[r] = "write" /\ HoldsUser(r) /\ WroteUser(r, a)
          BY <1>1, <2>1, <2>6, <3>3, GoersAccount DEF AccountWent, HoldsUser
        <4>2. held[r].entity.status = given
          BY <1>1, <1>3, <2>1, <2>6, <4>1 DEF StatusesAgree
        <4>3. CASE a \in DOMAIN accounts
          <5>1. held[r].there
            BY <4>1, <4>3 DEF WroteUser
          <5>2. "status" \in held[r].dirty \/ accounts[a].status = given
            BY <1>1, <1>3, <2>2, <2>6, <4>1, <4>3, <5>1 DEF StatusesAgree
          <5>3. QED
            BY <1>1, <4>1, <4>2, <4>3, <5>1, <5>2, AccountColumns
        <4>4. CASE a \notin DOMAIN accounts
          BY <4>1, <4>2, <4>4 DEF WroteUser
        <4>5. QED
          BY <4>3, <4>4
      <3>4. ASSUME Succeeded(r)', NEW v \in UpdatesOf(a), HoldsUser(v)' PROVE FALSE
        <4>1. pc'[r] = "answered" /\ v \in Requests
          BY <1>1, <3>4, GoersAccount DEF UpdatesOf
        <4>2. v # r
          BY <3>4, <4>1 DEF HoldsUser
        <4>3. pc'[v] # "guard" /\ Overlap(u, v)
          BY <1>1, <2>6, <3>4, <4>1, <4>2, GoersAccount DEF HoldsUser
        <4>4. QED
          BY <2>3, <2>6, <4>2, <4>3
      <3>5. QED
        BY <2>6, <3>2, <3>3, <3>4
    <2>7. CASE u # r
      <3>1. /\ pc'[u] = pc[u] /\ held'[u] = held[u] /\ (Succeeded(u)' <=> Succeeded(u))
        BY <1>1, <2>1, <2>7, GoersAccount
      <3>3. ASSUME pc'[u] = "write", held'[u].there, a \in DOMAIN accounts'
            PROVE  "status" \in held'[u].dirty \/ accounts'[a].status = given
        <4>1. ~WroteUser(r, a)
          <5>1. SUFFICES ASSUME WroteUser(r, a) PROVE FALSE
            OBVIOUS
          <5>2. r \in UpdatesOf(a) \ {u} /\ Overlap(u, r)
            BY <1>1, <2>1, <2>7, <3>1, <3>3, <5>1, GoersAccount DEF WroteUser
          <5>3. QED
            BY <2>3, <2>5, <5>2
        <4>2. a \in DOMAIN accounts /\ accounts'[a].status = accounts[a].status
          BY <1>1, <2>4, <3>3, <4>1, AccountColumns DEF AccountWent, StampedUser
        <4>3. QED
          BY <1>1, <1>3, <2>2, <3>1, <3>3, <4>2 DEF StatusesAgree
      <3>4. ASSUME Succeeded(u)'
            PROVE  /\ a \in DOMAIN accounts' => accounts'[a].status = given
                   /\ \A v \in UpdatesOf(a) : HoldsUser(v)' => held'[v].entity.status = given
        <4>1. /\ a \in DOMAIN accounts => accounts[a].status = given
              /\ \A v \in UpdatesOf(a) : HoldsUser(v) => held[v].entity.status = given
          BY <1>1, <1>3, <2>2, <3>1, <3>4 DEF StatusesAgree
        <4>2. ASSUME a \in DOMAIN accounts' PROVE accounts'[a].status = given
          <5>1. CASE WroteUser(r, a)
            <6>1. held[r].entity.status = given
              BY <1>1, <4>1, <5>1, GoersAccount DEF WroteUser, HoldsUser
            <6>2. CASE a \in DOMAIN accounts
              BY <1>1, <4>1, <5>1, <6>1, <6>2, AccountColumns
            <6>3. CASE a \notin DOMAIN accounts
              BY <5>1, <6>1, <6>3 DEF WroteUser
            <6>4. QED
              BY <6>2, <6>3
          <5>2. CASE ~WroteUser(r, a)
            <6>1. a \in DOMAIN accounts /\ accounts'[a].status = accounts[a].status
              BY <1>1, <2>4, <4>2, <5>2, AccountColumns DEF AccountWent, StampedUser
            <6>2. QED
              BY <4>1, <6>1
          <5>3. QED
            BY <5>1, <5>2
        <4>3. ASSUME NEW v \in UpdatesOf(a), HoldsUser(v)' PROVE held'[v].entity.status = given
          <5>1. CASE HoldsUser(v) /\ held'[v].entity = held[v].entity
            BY <4>1, <5>1
          <5>2. CASE /\ v = r /\ job[r].op = "updateUser" /\ job[r].account \in DOMAIN accounts
                     /\ held'[r].entity = Renewed(accounts[job[r].account], r)
            <6>1. a = job[r].account /\ r \in Arrived
              BY <1>1, <5>2, GoersAccount DEF UpdatesOf, AsksAbout
            <6>2. u \in earlier[r]
              <7>1. ~Overlap(u, r) /\ r \notin earlier[u]
                BY <1>1, <2>1, <2>3, <2>5, <2>7, <4>3, <5>2, GoersAccount
              <7>2. QED
                BY <1>1, <2>1, <2>7, <7>1, GoersAccount DEF Overlap, Arrived
            <6>3. job[r].dto.status = Nothing
              BY <2>3, <2>5, <2>7, <4>3, <5>2, <6>2
            <6>4. held'[r].entity.status = Or(job[r].dto.status, accounts[a].status)
              BY <1>1, <5>2, <6>1, AccountColumns
            <6>5. QED
              BY <4>1, <5>2, <6>1, <6>3, <6>4 DEF Or
          <5>3. QED
            BY <1>1, <4>3, <5>1, <5>2, GoersAccount, WhatUpdatesHold
        <4>4. QED
          BY <4>2, <4>3
      <3>5. QED
        BY <3>3, <3>4
    <2>8. QED
      BY <2>6, <2>7
  <1>4. QED
    BY <1>1, <1>2, <1>3, GoersAccount DEF StatusesAgree

LEMMA StartKeepsServed ==
    ASSUME AccountHistory, NEW r \in Requests, NEW j, AccountStarted(r, j)
    PROVE  ServedAreExcused'
  <1>1. AccountInv /\ ServedAreExcused
    BY DEF AccountHistory, AccountPast
  <1>2. ASSUME NEW q \in Arrived' \ Logins', pc'[q] # "guard", InProgress(q)' \/ Succeeded(q)',
               NEW u \in UpdatesOf(job[q].by)' \cap earlier'[q],
               Succeeded(u)', job'[u].dto.status \notin {"active", Nothing}
        PROVE  ServedExcused(q, u)'
    <2>1. q # r
      BY <1>1, <1>2, NewcomersAccount DEF AccountStarted, InProgress
    <2>2. /\ q \in Arrived /\ q \notin Logins /\ q \in Requests
          /\ job'[q] = job[q] /\ earlier'[q] = earlier[q]
          /\ pc[q] # "guard" /\ (InProgress(q) \/ Succeeded(q))
      BY <1>1, <1>2, <2>1, NewcomersAccount, AccountExcusesStand
    <2>3. u # r /\ u \in UpdatesOf(job[q].by) \cap earlier[q]
      BY <1>1, <1>2, <2>2, NewcomersAccount
    <2>4. Succeeded(u) /\ job[u].dto.status \notin {"active", Nothing}
      BY <1>1, <1>2, <2>3, NewcomersAccount
    <2>5. ServedExcused(q, u)
      BY <1>1, <2>2, <2>3, <2>4 DEF ServedAreExcused
    <2>6. QED
      BY <1>1, <2>2, <2>5, NewcomersAccount, AccountExcusesStand
  <1>3. QED
    BY <1>2 DEF ServedAreExcused

LEMMA GoKeepsServed ==
    ASSUME AccountHistory, NEW r \in Requests, AccountWent(r)
    PROVE  ServedAreExcused'
  <1>1. AccountInv /\ ServedAreExcused /\ StatusesAgree
    BY DEF AccountHistory, AccountPast
  <1>2. ASSUME NEW q \in Arrived \ Logins, pc'[q] # "guard", InProgress(q)' \/ Succeeded(q)',
               NEW u \in UpdatesOf(job[q].by) \cap earlier[q],
               Succeeded(u)', job[u].dto.status \notin {"active", Nothing}
        PROVE  ServedExcused(q, u)'
    <2>1. q \in Requests /\ u \in Answered /\ u # r /\ Succeeded(u)
      BY <1>1, <1>2, GoersAccount DEF UpdatesOf
    <2>2. CASE pc[q] # "guard" /\ (InProgress(q) \/ Succeeded(q))
      <3>1. ServedExcused(q, u)
        BY <1>1, <1>2, <2>1, <2>2 DEF ServedAreExcused
      <3>2. QED
        BY <1>1, <3>1, GoersAccount, AccountExcusesStand
    <2>3. CASE ~(pc[q] # "guard" /\ (InProgress(q) \/ Succeeded(q)))
      <3>1. q = r /\ pc[r] = "guard" /\ pc'[r] # "answered"
        BY <1>1, <1>2, <2>1, <2>3, GoersAccount DEF AccountWent, InProgress
      <3>2. job[r].by \in DOMAIN accounts /\ accounts[job[r].by].status = "active"
        BY <3>1 DEF AccountWent
      <3>3. job[r].by \in Creators
        BY <1>1, <3>2 DEF AccountInv, AccountTypeOK
      <3>4. StatusExcused(u, job[r].by)
        BY <1>1, <1>2, <2>1, <3>1, <3>2, <3>3 DEF StatusesAgree
      <3>5. ServedExcused(r, u)
        BY <3>1, <3>4 DEF StatusExcused, ServedExcused
      <3>6. QED
        BY <1>1, <3>1, <3>5, GoersAccount, AccountExcusesStand
    <2>4. QED
      BY <2>2, <2>3
  <1>3. QED
    BY <1>1, <1>2, GoersAccount DEF ServedAreExcused

LEMMA StartKeepsEmails ==
    ASSUME AccountHistory, NEW r \in Requests, NEW j, AccountStarted(r, j)
    PROVE  /\ EmailsKept'
           /\ \A a \in Creators \ {r} : FirstEmail(a)' = FirstEmail(a)
  <1>1. AccountInv /\ AccountsKnown /\ EmailsKept
    BY DEF AccountHistory, AccountPast
  <1>2. \A a \in Creators \ {r} : FirstEmail(a)' = FirstEmail(a)
    BY <1>1, NewcomersAccount DEF FirstEmail, Creators
  <1>3. CASE EmailsChange
    BY <1>1, <1>2, <1>3, NewcomersAccount, AccountExcusesStand DEF EmailsKept
  <1>4. CASE ~EmailsChange
    <2>1. r \notin Answered \cup {Nobody} /\ Answered \cup {Nobody} \subseteq Creators
      BY <1>1, NewcomersAccount DEF Answered, Creators
    <2>2. ASSUME NEW a \in DOMAIN accounts' PROVE accounts'[a].email = FirstEmail(a)'
      BY <1>1, <1>2, <1>4, <2>1, <2>2, NewcomersAccount DEF AccountsKnown, EmailsKept
    <2>3. ASSUME NEW u \in Arrived', HoldsUser(u)'
          PROVE  held'[u].entity.email = FirstEmail(job[u].account)'
      <3>1. u # r /\ u \in Arrived /\ u \in Requests /\ HoldsUser(u)
        BY <1>1, <2>3, NewcomersAccount
      <3>2. job[u].account \in Answered \cup {Nobody}
        BY <1>1, <3>1 DEF AccountInv, AccountWork, HoldsUser, AccountsKnown
      <3>3. PICK a : a = job[u].account
        OBVIOUS
      <3>4. FirstEmail(a)' = FirstEmail(a) /\ held'[u].entity.email = FirstEmail(a)
        BY <1>1, <1>2, <1>4, <2>1, <3>1, <3>2, <3>3, NewcomersAccount DEF EmailsKept
      <3>5. job'[u].account = a
        BY <1>1, <3>1, <3>3, NewcomersAccount
      <3>6. QED
        BY <3>4, <3>5 DEF FirstEmail
    <2>4. QED
      BY <1>2, <2>2, <2>3 DEF EmailsKept
  <1>5. QED
    BY <1>2, <1>3, <1>4

LEMMA GoKeepsEmails ==
    ASSUME AccountHistory, NEW r \in Requests, AccountWent(r)
    PROVE  EmailsKept'
  <1>1. AccountInv /\ EmailsKept
    BY DEF AccountHistory, AccountPast
  <1>2. CASE EmailsChange
    BY <1>1, <1>2, GoersAccount DEF EmailsKept
  <1>3. CASE ~EmailsChange
    <2>1. /\ \A a \in DOMAIN accounts : accounts[a].email = FirstEmail(a)
          /\ \A u \in Arrived : HoldsUser(u) => held[u].entity.email = FirstEmail(job[u].account)
      BY <1>1, <1>3 DEF EmailsKept
    <2>2. ASSUME NEW a \in DOMAIN accounts' PROVE accounts'[a].email = FirstEmail(a)
      <3>1. CASE a \in DOMAIN accounts /\ accounts'[a] = accounts[a]
        BY <2>1, <3>1
      <3>2. CASE StampedUser(r, a)
        BY <1>1, <2>1, <3>2, AccountColumns DEF StampedUser
      <3>3. CASE InsertedUser(r, a)
        BY <1>1, <3>3, GoersAccount DEF InsertedUser, FirstEmail
      <3>4. CASE WroteUser(r, a)
        <4>1. held[r].entity.email = FirstEmail(a)
          BY <1>1, <2>1, <3>4, GoersAccount DEF WroteUser, HoldsUser
        <4>2. CASE a \in DOMAIN accounts
          BY <1>1, <2>1, <3>4, <4>1, <4>2, AccountColumns
        <4>3. CASE a \notin DOMAIN accounts
          BY <3>4, <4>1, <4>3 DEF WroteUser
        <4>4. QED
          BY <4>2, <4>3
      <3>5. QED
        BY <3>1, <3>2, <3>3, <3>4 DEF AccountWent
    <2>3. ASSUME NEW u \in Arrived, HoldsUser(u)'
          PROVE  held'[u].entity.email = FirstEmail(job[u].account)
      <3>1. CASE HoldsUser(u) /\ held'[u].entity = held[u].entity
        BY <2>1, <3>1
      <3>2. CASE /\ u = r /\ job[r].op = "updateUser" /\ job[r].account \in DOMAIN accounts
                 /\ held'[r].entity = Renewed(accounts[job[r].account], r)
        <4>1. PICK a \in DOMAIN accounts :
                 a = job[r].account /\ held'[r].entity = Renewed(accounts[a], r)
          BY <3>2
        <4>2. job[r].dto.email = Nothing
          BY <1>3, <3>2 DEF EmailsChange
        <4>3. held'[r].entity.email = Or(job[r].dto.email, accounts[a].email)
          BY <1>1, <3>2, <4>1, AccountColumns
        <4>4. QED
          BY <2>1, <3>2, <4>1, <4>2, <4>3 DEF Or
      <3>3. QED
        BY <1>1, <2>3, <3>1, <3>2, WhatUpdatesHold
    <2>4. QED
      BY <1>1, <2>2, <2>3, GoersAccount DEF EmailsKept
  <1>4. QED
    BY <1>2, <1>3

LEMMA StartKeepsLogins ==
    ASSUME AccountHistory, NEW r \in Requests, NEW j, AccountStarted(r, j)
    PROVE  LoginsAgree'
  <1>1. AccountInv /\ AccountsKnown /\ EmailsKept /\ LoginsAgree
    BY DEF AccountHistory, AccountPast
  <1>2. ASSUME NEW a \in Creators, NEW l \in Logins', FirstEmail(a)' = job'[l].email,
               ~LoginExcused(a, l)'
        PROVE  /\ (pc'[l] = "stamp" /\ (a \in DOMAIN accounts' \/ \E u \in UpdatesOf(a)' : HoldsUser(u)')) =>
                     held'[l].account = a
               /\ Succeeded(l)' =>
                     /\ a \in DOMAIN accounts' => accounts'[a].lastLogin = l
                     /\ \A u \in UpdatesOf(a)' : HoldsUser(u)' => held'[u].entity.lastLogin = l
    <2>1. l \in Requests /\ l \in Arrived' /\ ~EmailsChange
      BY <1>1, <1>2, NewcomersAccount, AccountExcusesStand DEF Logins, Arrived, LoginExcused
    <2>2. CASE l = r
      <3>1. ~Succeeded(l)' /\ \A u \in UpdatesOf(a)' : ~HoldsUser(u)'
        <4>1. ASSUME NEW u \in UpdatesOf(a)', HoldsUser(u)' PROVE FALSE
          <5>1. u \in Requests /\ HoldsUser(u) /\ u # r
            BY <1>1, <4>1, NewcomersAccount
          <5>2. Overlap(u, r)'
            BY <1>1, <5>1, NewcomersAccount DEF HoldsUser, InProgress
          <5>3. QED
            BY <1>2, <2>2, <4>1, <5>2 DEF LoginExcused
        <4>2. QED
          BY <1>1, <2>2, <4>1, NewcomersAccount
      <3>2. ASSUME pc'[r] = "stamp", a \in DOMAIN accounts PROVE held'[r].account = a
        <4>1. j.op = "login" /\ job'[r] = j
          BY <1>1, <1>2, <2>2, NewcomersAccount
        <4>2. PICK b \in DOMAIN accounts : b = held'[r].account /\ accounts[b].email = j.email
          BY <3>2, <4>1 DEF AccountStarted
        <4>3. a # r /\ accounts[a].email = FirstEmail(a)
          BY <1>1, <2>1, <3>2, NewcomersAccount DEF AccountsKnown, EmailsKept
        <4>4. accounts[a].email = j.email
          BY <1>2, <2>2, <4>1, <4>3, StartKeepsEmails
        <4>5. QED
          BY <1>1, <3>2, <4>2, <4>4 DEF AccountInv, AccountTypeOK, Clashes, EmailTaken
      <3>3. QED
        BY <1>1, <2>2, <3>1, <3>2, NewcomersAccount
    <2>3. CASE l # r
      <3>1. /\ l \in Logins /\ l \in Arrived /\ l \in Requests \ {r}
            /\ job'[l] = job[l] /\ earlier'[l] = earlier[l]
        BY <1>1, <1>2, <2>3, NewcomersAccount
      <3>2. a # r
        BY <1>1, <1>2, <3>1, NewcomersAccount DEF LoginExcused, AccountInv, HttpInv
      <3>3. FirstEmail(a) = job[l].email
        BY <1>2, <3>1, <3>2, StartKeepsEmails
      <3>4. ~LoginExcused(a, l)
        BY <1>1, <1>2, <3>1, NewcomersAccount, AccountExcusesStand
      <3>5. QED
        BY <1>1, <3>1, <3>3, <3>4, NewcomersAccount DEF LoginsAgree
    <2>4. QED
      BY <2>2, <2>3
  <1>3. QED
    BY <1>2 DEF LoginsAgree

LEMMA GoKeepsLogins ==
    ASSUME AccountHistory, NEW r \in Requests, AccountWent(r)
    PROVE  LoginsAgree'
  <1>1. AccountInv /\ LoginsAgree
    BY DEF AccountHistory, AccountPast
  <1>2. ASSUME NEW a \in Creators, NEW l \in Logins, FirstEmail(a) = job[l].email,
               ~LoginExcused(a, l)'
        PROVE  /\ (pc'[l] = "stamp" /\ (a \in DOMAIN accounts' \/ \E u \in UpdatesOf(a) : HoldsUser(u)')) =>
                     held'[l].account = a
               /\ Succeeded(l)' =>
                     /\ a \in DOMAIN accounts' => accounts'[a].lastLogin = l
                     /\ \A u \in UpdatesOf(a) : HoldsUser(u)' => held'[u].entity.lastLogin = l
    <2>1. l \in Requests /\ l \in Arrived /\ job[l].op = "login"
      BY <1>1, GoersAccount DEF Logins
    <2>2. ~LoginExcused(a, l)
      BY <1>1, <1>2, <2>1, GoersAccount, AccountExcusesStand
    <2>3. ~InsertedUser(r, a)
      BY <1>1, <2>1, <2>2, InsertedIsNew, GoersAccount DEF LoginExcused, InsertedUser
    <2>4. WroteUser(r, a) => r \in UpdatesOf(a) /\ HoldsUser(r)
      BY <1>1, GoersAccount DEF WroteUser, HoldsUser
    <2>5. a \in DOMAIN accounts' => a \in DOMAIN accounts \/ WroteUser(r, a)
      BY <2>3 DEF AccountWent, StampedUser
    <2>6. ASSUME NEW u \in UpdatesOf(a), HoldsUser(u)'
          PROVE  \/ HoldsUser(u) /\ held'[u].entity = held[u].entity
                 \/ a \in DOMAIN accounts /\ held'[u].entity.lastLogin = accounts[a].lastLogin
      <3>1. u \in Arrived /\ job[u].account = a
        BY <1>1, GoersAccount DEF UpdatesOf, AsksAbout
      <3>2. CASE /\ u = r /\ job[r].op = "updateUser" /\ job[r].account \in DOMAIN accounts
                 /\ held'[r].entity = Renewed(accounts[job[r].account], r)
        BY <1>1, <3>1, <3>2, AccountColumns
      <3>3. QED
        BY <1>1, <2>6, <3>1, <3>2, WhatUpdatesHold
    <2>7. ASSUME pc'[l] = "stamp", a \in DOMAIN accounts' \/ \E u \in UpdatesOf(a) : HoldsUser(u)'
          PROVE  held'[l].account = a
      <3>1. l # r /\ pc[l] = "stamp" /\ held'[l] = held[l]
        BY <1>1, <2>1, <2>7, GoersAccount DEF AccountWent
      <3>2. a \in DOMAIN accounts \/ \E u \in UpdatesOf(a) : HoldsUser(u)
        BY <2>4, <2>5, <2>6, <2>7
      <3>3. QED
        BY <1>1, <1>2, <2>2, <3>1, <3>2 DEF LoginsAgree
    <2>8. ASSUME Succeeded(l)', l = r
          PROVE  /\ a \in DOMAIN accounts' => accounts'[a].lastLogin = l
                 /\ \A u \in UpdatesOf(a) : ~HoldsUser(u)'
      <3>1. /\ pc[r] = "stamp" /\ pc'[r] = "answered"
            /\ held[r].account \in DOMAIN accounts' => StampedUser(r, held[r].account)
        BY <1>1, <2>1, <2>8, GoersAccount DEF AccountWent
      <3>2. ASSUME a \in DOMAIN accounts' PROVE accounts'[a].lastLogin = l
        <4>1. a \in DOMAIN accounts
          BY <2>1, <2>5, <2>8, <3>2 DEF WroteUser
        <4>2. held[r].account = a
          BY <1>1, <1>2, <2>2, <2>8, <3>1, <4>1 DEF LoginsAgree
        <4>3. QED
          BY <1>1, <2>8, <3>1, <3>2, <4>1, <4>2, AccountColumns
      <3>3. ASSUME NEW u \in UpdatesOf(a), HoldsUser(u)' PROVE FALSE
        <4>1. u \in Requests \ {r}
          BY <2>1, <2>8 DEF UpdatesOf, AsksAbout
        <4>2. Overlap(u, l)
          BY <1>1, <2>8, <3>3, <4>1, GoersAccount
        <4>3. QED
          BY <2>2, <4>2 DEF LoginExcused
      <3>4. QED
        BY <3>2, <3>3
    <2>9. ASSUME Succeeded(l)', l # r
          PROVE  /\ a \in DOMAIN accounts' => accounts'[a].lastLogin = l
                 /\ \A u \in UpdatesOf(a) : HoldsUser(u)' => held'[u].entity.lastLogin = l
      <3>1. /\ a \in DOMAIN accounts => accounts[a].lastLogin = l
            /\ \A u \in UpdatesOf(a) : HoldsUser(u) => held[u].entity.lastLogin = l
        BY <1>1, <1>2, <2>1, <2>2, <2>9, GoersAccount DEF LoginsAgree
      <3>2. ~StampedUser(r, a)
        <4>1. SUFFICES ASSUME StampedUser(r, a) PROVE FALSE
          OBVIOUS
        <4>2. r \in Logins
          BY <1>1, <4>1, GoersAccount DEF Logins, StampedUser
        <4>3. ~Overlap(r, l) /\ l \notin earlier[r]
          BY <2>2, <4>2 DEF LoginExcused
        <4>4. r \notin earlier[l]
          BY <1>1, <2>1, GoersAccount
        <4>5. QED
          BY <1>1, <2>1, <2>9, <4>3, <4>4, GoersAccount DEF Overlap, Arrived
      <3>3. ASSUME a \in DOMAIN accounts' PROVE accounts'[a].lastLogin = l
        <4>1. CASE WroteUser(r, a)
          <5>1. held[r].entity.lastLogin = l
            BY <2>4, <3>1, <4>1
          <5>2. CASE a \in DOMAIN accounts
            BY <1>1, <3>1, <4>1, <5>1, <5>2, AccountColumns
          <5>3. CASE a \notin DOMAIN accounts
            BY <4>1, <5>1, <5>3 DEF WroteUser
          <5>4. QED
            BY <5>2, <5>3
        <4>2. CASE ~WroteUser(r, a)
          BY <2>3, <3>1, <3>2, <3>3, <4>2 DEF AccountWent
        <4>3. QED
          BY <4>1, <4>2
      <3>4. QED
        BY <2>6, <3>1, <3>3
    <2>10. QED
      BY <2>7, <2>8, <2>9
  <1>3. QED
    BY <1>1, <1>2, GoersAccount DEF LoginsAgree

LEMMA AccountNextKeepsPast ==
    ASSUME AccountHistory, [AccountNext]_accountVars
    PROVE  AccountPast'
  <1>1. ASSUME NEW r \in Requests, LoginRequest(r) \/ UserRequest(r) PROVE AccountPast'
    <2>1. PICK j : AccountStarted(r, j)
      BY <1>1, AccountStarts DEF AccountHistory
    <2>2. QED
      BY <2>1, StartKeepsAccountsKnown, StartKeepsDeletedAccounts, StartKeepsStatusesAgree,
         StartKeepsServed, StartKeepsEmails, StartKeepsLogins DEF AccountPast
  <1>2. ASSUME NEW r \in Requests, AccountStep(r) PROVE AccountPast'
    <2>1. AccountWent(r)
      BY <1>2, AccountGoes DEF AccountHistory
    <2>2. QED
      BY <2>1, GoKeepsAccountsKnown, GoKeepsDeletedAccounts, GoKeepsStatusesAgree,
         GoKeepsServed, GoKeepsEmails, GoKeepsLogins DEF AccountPast
  <1>3. CASE UNCHANGED accountVars
    <2> USE <1>3 DEF accountVars, httpVars, AccountHistory, AccountPast
    <2> USE DEF Arrived, Answered, InProgress, Succeeded, HoldsUser, UpdatesOf, RemovalsOf,
                Logins, AsksAbout, Overlap, FirstEmail, EmailsChange
    <2>1. AccountsKnown' /\ DeletedAccounts'
      BY DEF AccountsKnown, DeletedAccounts, RevivalExcused
    <2>2. StatusesAgree' /\ ServedAreExcused'
      BY DEF StatusesAgree, ServedAreExcused, StatusExcused, ServedExcused, Disturbs
    <2>3. EmailsKept' /\ LoginsAgree'
      BY DEF EmailsKept, LoginsAgree, LoginExcused
    <2>4. QED
      BY <2>1, <2>2, <2>3
  <1>4. QED
    BY <1>1, <1>2, <1>3 DEF AccountNext

\* However requests to the accounts interleave, a deleted account stays deleted, a status
\* that was given keeps its sender out, and the time of a login stays in the row, but for
\* the overlaps and later writes that the properties name.
THEOREM AccountsHistoryHolds == AccountSpec => []AccountHistory
  <1>1. AccountInit => AccountPast
    <2> SUFFICES ASSUME AccountInit PROVE AccountPast
      OBVIOUS
    <2>1. /\ Arrived = {} /\ DOMAIN accounts = {Nobody} /\ accounts[Nobody] = FirstAccount
          /\ Logins = {}
          /\ \A a : UpdatesOf(a) = {} /\ RemovalsOf(a) = {}
      BY DEF AccountInit, HttpInit, AccountTablesSeeded, Arrived, Logins, UpdatesOf, RemovalsOf,
             AsksAbout
    <2>2. QED
      BY <2>1 DEF AccountPast, AccountsKnown, DeletedAccounts, StatusesAgree,
                  ServedAreExcused, EmailsKept, LoginsAgree, FirstEmail
  <1>2. AccountHistory /\ [AccountNext]_accountVars => AccountPast'
    BY AccountNextKeepsPast
  <1>3. AccountHistory <=> AccountInv /\ AccountPast
    BY DEF AccountHistory
  <1>4. QED
    BY <1>1, <1>2, <1>3, AccountsKeepInv, PTL DEF AccountSpec

LEMMA AccountHistoryHolds ==
    AccountHistory => DeletedAccountsStayDeleted /\ DeactivationsHold /\ LastLoginsAreKept
  <1> SUFFICES ASSUME AccountHistory
               PROVE  DeletedAccountsStayDeleted /\ DeactivationsHold /\ LastLoginsAreKept
    OBVIOUS
  <1>1. /\ HttpInv /\ DOMAIN accounts \subseteq Creators
        /\ DeletedAccounts /\ ServedAreExcused /\ EmailsKept /\ LoginsAgree
    BY DEF AccountHistory, AccountPast, AccountInv, AccountTypeOK
  <1>2. DeletedAccountsStayDeleted
    BY <1>1 DEF DeletedAccounts, DeletedAccountsStayDeleted, RevivalExcused
  <1>3. ASSUME NEW r \in Requests, r \notin Logins, Succeeded(r),
               NEW u \in UpdatesOf(job[r].by) \cap earlier[r],
               Succeeded(u), job[u].dto.status \notin {"active", Nothing}
        PROVE  ServedExcused(r, u)
    <2>1. pc[r] = "answered" /\ r \in Arrived
      BY <1>1, <1>3 DEF HttpInv, Succeeded, Arrived
    <2>2. QED
      BY <1>1, <1>3, <2>1 DEF ServedAreExcused
  <1>4. DeactivationsHold
    BY <1>3 DEF DeactivationsHold, ServedExcused, Disturbs
  <1>5. ASSUME NEW a \in DOMAIN accounts, NEW l \in Requests, l \in Logins, Succeeded(l),
               job[l].email = accounts[a].email, ~LoginExcused(a, l)
        PROVE  accounts[a].lastLogin = l
    <2>1. FirstEmail(a) = job[l].email
      BY <1>1, <1>5 DEF LoginExcused, EmailsKept
    <2>2. QED
      BY <1>1, <1>5, <2>1 DEF LoginsAgree
  <1>6. LastLoginsAreKept
    <2>1. EmailsChange => \E u \in Requests : /\ pc[u] # "idle" /\ job[u].op = "updateUser"
                                              /\ job[u].dto.email # Nothing
      BY DEF EmailsChange, Arrived
    <2>2. QED
      BY <1>5, <2>1 DEF LastLoginsAreKept, LoginExcused
  <1>7. QED
    BY <1>2, <1>4, <1>6
=============================================================================
