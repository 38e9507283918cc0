---------------------------- MODULE FilmOptimizer ----------------------------
(***************************************************************************)
(* FilmOptimizerService (film-optimizer.service.ts): films, the cutting    *)
(* projects of a film and the pieces of a project.  No handler opens a     *)
(* transaction.  Foreign keys cascade: a film takes its projects with it,  *)
(* a project its pieces.                                                   *)
(*                                                                         *)
(* Names, sizes and the stored packing are columns of their own that no    *)
(* other handler reads; of a piece its order, whether it is cut and        *)
(* whether it has a fixed position are kept.  save() of a row that is gone *)
(* when save() loads it inserts the row again, under its old id.           *)
(***************************************************************************)
EXTENDS HttpRequests, OrmSave

CONSTANTS
    PieceInputs,  \* what a new piece may bring
    MaxPieces     \* how many pieces one request brings at most

\* Each part is optional; the position is not tied to the cut.
CuttingPieceInputs == [done : BOOLEAN, fixed : BOOLEAN]

PieceIds == Creators \X (1 .. MaxPieces)

\* What is asked of films, projects and pieces.
FilmJobs ==
    [op : {"createFilm"}] \cup
    [op : {"updateFilm", "deleteFilm"}, film : Creators] \cup
    [op : {"createProject"}, film : Creators, count : 0 .. MaxPieces, input : PieceInputs] \cup
    [op : {"updateProject"}, project : Creators, film : Creators \cup {Nothing}] \cup
    [op : {"deleteProject"}, project : Creators] \cup
    [op : {"addPieces"}, project : Creators, count : 1 .. MaxPieces, input : PieceInputs] \cup
    [op : {"updatePiece"}, project : Creators, piece : PieceIds, done : BOOLEAN \cup {Nothing}] \cup
    [op : {"togglePieceComplete"}, project : Creators, piece : PieceIds, fixed : BOOLEAN] \cup
    [op : {"deletePiece"}, project : Creators, piece : PieceIds]

ASSUME NothingIsNoFilmJob == Nothing \notin FilmJobs

ASSUME FilmConstants ==
    /\ PieceInputs \subseteq CuttingPieceInputs
    /\ MaxPieces \in Nat \ {0}

VARIABLES
    films,     \* the films there are
    projects,  \* project -> its film
    pieces     \* piece -> [project, order, done, fixed]; <<r, k>> is r's k-th

filmTables == <<films, projects, pieces>>
filmVars == <<filmTables, httpVars>>

PieceRows == [project : Creators, order : Nat, done : BOOLEAN, fixed : BOOLEAN]

FilmTablesEmpty ==
    /\ films = {}
    /\ projects = [p \in {} |-> Nobody]
    /\ pieces = [x \in {} |-> Nobody]

\* A film, with a project of it that has one piece, cut and in its place or not.
FilmTablesSeeded ==
    /\ films = {Nobody}
    /\ projects = [p \in {Nobody} |-> Nobody]
    /\ \E cut \in BOOLEAN :
          pieces = [x \in {<<Nobody, 1>>} |->
                      [project |-> Nobody, order |-> 0, done |-> cut, fixed |-> cut]]

FilmInit == HttpInit /\ FilmTablesSeeded

Keep(f, S) == [x \in DOMAIN f \cap S |-> f[x]]
Put(f, x, row) == [y \in DOMAIN f \cup {x} |-> IF y = x THEN row ELSE f[y]]

ProjectsOf(f) == {p \in DOMAIN projects : projects[p] = f}
PiecesOf(p) == {x \in DOMAIN pieces : pieces[x].project = p}

\* Mutation: no cascade from a project to its pieces.
DropProjects_Alone(P) ==
    /\ projects' = Keep(projects, DOMAIN projects \ P)
    /\ UNCHANGED pieces

\* DELETE of projects, whose pieces go with them.
DropProjects(P) ==
    /\ projects' = Keep(projects, DOMAIN projects \ P)
    /\ pieces' = Keep(pieces, {x \in DOMAIN pieces : pieces[x].project \notin P})

\* A client names rows that are there, or were when the run began.
KnownFilms == films \cup {Nobody}
KnownProjects == DOMAIN projects \cup {Nobody}
KnownPieces == DOMAIN pieces \cup {<<Nobody, 1>>}
-----------------------------------------------------------------------------
(* Films *)

CreateFilm(r) ==
    /\ Serve(r, [op |-> "createFilm"], "ok")
    /\ films' = films \cup {r}
    /\ UNCHANGED <<projects, pieces>>

\* updateFilm: the film is read with the list of its projects, ...
UpdateFilm(r, f) ==
    LET j == [op |-> "updateFilm", film |-> f] IN
    /\ \/ f \notin films /\ Serve(r, j, "notFound")
       \/ f \in films /\ Begin(r, j, "load", [projects |-> ProjectsOf(f)])
    /\ UNCHANGED filmTables

\* ... save() loads it, and takes a project that is not in the list for one that
\* was taken out of it, ...
LoadFilm(r) ==
    /\ At(r, "load", "updateFilm")
    /\ LET f == job[r].film
       IN  Continue(r, "write",
               [there |-> f \in films, orphans |-> ProjectsOf(f) \ held[r].projects])
    /\ UNCHANGED filmTables

\* ... so that its film is to be set to NULL, which the column does not allow.
WriteFilm(r) ==
    /\ At(r, "write", "updateFilm")
    /\ LET f == job[r].film
           fails == IF held[r].there THEN held[r].orphans \cap DOMAIN projects # {}
                                     ELSE f \in films
       IN  /\ Answer(r, IF fails THEN "error" ELSE "ok")
           /\ films' = IF fails \/ held[r].there THEN films ELSE films \cup {f}
    /\ UNCHANGED <<projects, pieces>>

\* Mutation: a film is deleted whatever hangs on it.
DeleteFilm_Unchecked(r, f) ==
    LET j == [op |-> "deleteFilm", film |-> f] IN
    /\ \/ f \notin films /\ Serve(r, j, "notFound")
       \/ f \in films /\ Begin(r, j, "remove", Nothing)
    /\ UNCHANGED filmTables

DeleteFilm(r, f) ==
    LET j == [op |-> "deleteFilm", film |-> f] IN
    /\ \/ f \notin films /\ Serve(r, j, "notFound")
       \/ f \in films /\ ProjectsOf(f) # {} /\ Serve(r, j, "refused")
       \/ f \in films /\ ProjectsOf(f) = {} /\ Begin(r, j, "remove", Nothing)
    /\ UNCHANGED filmTables

RemoveFilm(r) ==
    /\ At(r, "remove", "deleteFilm")
    /\ films' = films \ {job[r].film}
    /\ DropProjects(ProjectsOf(job[r].film))
    /\ Answer(r, "ok")
-----------------------------------------------------------------------------
(* Cutting projects *)

CreateProject(r, f, n, input) ==
    LET j == [op |-> "createProject", film |-> f, count |-> n, input |-> input] IN
    /\ \/ f \notin films /\ Serve(r, j, "notFound")
       \/ f \in films /\ Begin(r, j, "insert", Nothing)
    /\ UNCHANGED filmTables

InsertProject(r) ==
    /\ At(r, "insert", "createProject")
    /\ \/ job[r].film \notin films /\ Answer(r, "error") /\ UNCHANGED projects
       \/ /\ job[r].film \in films
          /\ projects' = Put(projects, r, job[r].film)
          /\ IF job[r].count = 0 THEN Continue(r, "reread", [project |-> r])
                                 ELSE Continue(r, "insertPieces", [project |-> r, from |-> 0])
    /\ UNCHANGED <<films, pieces>>

\* updateProject: a film named in the request is looked up when it is another one.
UpdateProject(r, p, f) ==
    LET j == [op |-> "updateProject", project |-> p, film |-> f] IN
    /\ \/ p \notin DOMAIN projects /\ Serve(r, j, "notFound")
       \/ /\ p \in DOMAIN projects
          /\ Begin(r, j, IF f \in {Nothing, projects[p]} THEN "load" ELSE "checkFilm", projects[p])
    /\ UNCHANGED filmTables

CheckFilm(r) ==
    /\ At(r, "checkFilm", "updateProject")
    /\ \/ job[r].film \notin films /\ Answer(r, "notFound")
       \/ job[r].film \in films /\ Continue(r, "load", held[r])
    /\ UNCHANGED filmTables

LoadProject(r) ==
    /\ At(r, "load", "updateProject")
    /\ Continue(r, "write", [there |-> job[r].project \in DOMAIN projects, film |-> held[r]])
    /\ UNCHANGED filmTables

\* The film that was read with the project wins over the filmId of the request: a
\* project stays with its film.
WriteProject(r) ==
    /\ At(r, "write", "updateProject")
    /\ LET p == job[r].project
           fails == ~held[r].there /\ (p \in DOMAIN projects \/ held[r].film \notin films)
       IN  /\ IF fails THEN Answer(r, "error") ELSE Continue(r, "reread", [project |-> p])
           /\ projects' = IF fails \/ held[r].there THEN projects
                                                    ELSE Put(projects, p, held[r].film)
    /\ UNCHANGED <<films, pieces>>

\* findProjectById, at the end of three handlers.
Reread(r) ==
    /\ pc[r] = "reread"
    /\ Answer(r, IF held[r].project \in DOMAIN projects THEN "ok" ELSE "notFound")
    /\ UNCHANGED filmTables

DeleteProject(r, p) ==
    LET j == [op |-> "deleteProject", project |-> p] IN
    /\ \/ p \notin DOMAIN projects /\ Serve(r, j, "notFound")
       \/ p \in DOMAIN projects /\ Begin(r, j, "remove", Nothing)
    /\ UNCHANGED filmTables

RemoveProject(r) ==
    /\ At(r, "remove", "deleteProject")
    /\ DropProjects({job[r].project})
    /\ Answer(r, "ok")
    /\ UNCHANGED films
-----------------------------------------------------------------------------
(* Cutting pieces *)

\* Mutation: the next order is the number of pieces.
NextOrder_Count(p) == Cardinality(PiecesOf(p))

\* One more than the highest order there is; 0 if there is none.
NextOrder(p) ==
    LET orders == {pieces[x].order : x \in PiecesOf(p)}
    IN  IF orders = {} THEN 0 ELSE 1 + CHOOSE m \in orders : \A o \in orders : o <= m

AddPieces(r, p, n, input) ==
    LET j == [op |-> "addPieces", project |-> p, count |-> n, input |-> input] IN
    /\ \/ p \notin DOMAIN projects /\ Serve(r, j, "notFound")
       \/ /\ p \in DOMAIN projects
          /\ Begin(r, j, "insertPieces", [project |-> p, from |-> NextOrder(p)])
    /\ UNCHANGED filmTables

NewPiece(r, k) ==
    [project |-> held[r].project, order |-> held[r].from + k - 1,
     done |-> job[r].input.done, fixed |-> job[r].input.fixed]

\* save(pieces): all of them in one transaction, or none.
InsertPieces(r) ==
    /\ pc[r] = "insertPieces"
    /\ LET new == {<<r, k>> : k \in 1 .. job[r].count}
       IN  \/ /\ held[r].project \notin DOMAIN projects
              /\ Answer(r, "error")
              /\ UNCHANGED pieces
           \/ /\ held[r].project \in DOMAIN projects
              /\ pieces' = [x \in DOMAIN pieces \cup new |->
                               IF x \in new THEN NewPiece(r, x[2]) ELSE pieces[x]]
              /\ Continue(r, "reread", [project |-> held[r].project])
    /\ UNCHANGED <<films, projects>>

Piece(p, x) == x \in DOMAIN pieces /\ pieces[x].project = p

\* Mutation: the row is saved under the id of the path, found or not.
UpdatePiece_Upsert(r, p, x, done) ==
    LET j == [op |-> "updatePiece", project |-> p, piece |-> x, done |-> done]
        row == IF Piece(p, x) THEN pieces[x]
                              ELSE [project |-> p, order |-> 0, done |-> FALSE, fixed |-> FALSE]
    IN  /\ Begin(r, j, "load", IF done = Nothing THEN row ELSE [row EXCEPT !.done = done])
        /\ UNCHANGED filmTables

\* updatePiece: what the request leaves out keeps the value that was read.
UpdatePiece(r, p, x, done) ==
    LET j == [op |-> "updatePiece", project |-> p, piece |-> x, done |-> done] IN
    /\ \/ ~Piece(p, x) /\ Serve(r, j, "notFound")
       \/ /\ Piece(p, x)
          /\ Begin(r, j, "load", IF done = Nothing THEN pieces[x]
                                                   ELSE [pieces[x] EXCEPT !.done = done])
    /\ UNCHANGED filmTables

\* Mutation: the position survives the way back to "not cut".
Toggled_KeepsPosition(row, fixed) == [row EXCEPT !.done = ~@, !.fixed = @ \/ fixed]

\* A piece that is cut may get a fixed position; one that is not loses it.
Toggled(row, fixed) == [row EXCEPT !.done = ~@, !.fixed = ~row.done /\ (@ \/ fixed)]

TogglePieceComplete(r, p, x, fixed) ==
    LET j == [op |-> "togglePieceComplete", project |-> p, piece |-> x, fixed |-> fixed] IN
    /\ \/ ~Piece(p, x) /\ Serve(r, j, "notFound")
       \/ Piece(p, x) /\ Begin(r, j, "load", Toggled(pieces[x], fixed))
    /\ UNCHANGED filmTables

SavesPiece(r) ==
    pc[r] # "idle" /\ job[r].op \in {"updatePiece", "togglePieceComplete"}

LoadPiece(r) ==
    /\ pc[r] = "load" /\ SavesPiece(r)
    /\ LET x == job[r].piece
       IN  Continue(r, "write",
               [there |-> x \in DOMAIN pieces, entity |-> held[r],
                dirty |-> IF x \in DOMAIN pieces THEN Dirty(held[r], pieces[x]) ELSE {}])
    /\ UNCHANGED filmTables

\* UPDATE of the columns that differed (of no row, if it has gone since), or INSERT.
WritePiece(r) ==
    /\ pc[r] = "write" /\ SavesPiece(r)
    /\ LET x == job[r].piece
           row == held[r].entity
           fails == ~held[r].there /\ (x \in DOMAIN pieces \/ row.project \notin DOMAIN projects)
       IN  /\ Answer(r, IF fails THEN "error" ELSE "ok")
           /\ pieces' = CASE fails -> pieces
                          [] held[r].there /\ x \in DOMAIN pieces ->
                                [pieces EXCEPT ![x] = Merge(@, row, held[r].dirty)]
                          [] held[r].there /\ x \notin DOMAIN pieces -> pieces
                          [] OTHER -> Put(pieces, x, row)
    /\ UNCHANGED <<films, projects>>

DeletePiece(r, p, x) ==
    LET j == [op |-> "deletePiece", project |-> p, piece |-> x] IN
    /\ \/ ~Piece(p, x) /\ Serve(r, j, "notFound")
       \/ Piece(p, x) /\ Begin(r, j, "remove", Nothing)
    /\ UNCHANGED filmTables

RemovePiece(r) ==
    /\ At(r, "remove", "deletePiece")
    /\ pieces' = Keep(pieces, DOMAIN pieces \ {job[r].piece})
    /\ Answer(r, "ok")
    /\ UNCHANGED <<films, projects>>
-----------------------------------------------------------------------------
FilmRequest(r) ==
    \/ CreateFilm(r)
    \/ \E f \in KnownFilms : UpdateFilm(r, f) \/ DeleteFilm(r, f)

ProjectRequest(r) ==
    \/ \E f \in KnownFilms, n \in 0 .. MaxPieces, input \in PieceInputs :
          CreateProject(r, f, n, input)
    \/ \E p \in KnownProjects :
       \/ \E f \in films \cup {Nothing} : UpdateProject(r, p, f)
       \/ DeleteProject(r, p)
       \/ \E n \in 1 .. MaxPieces, input \in PieceInputs : AddPieces(r, p, n, input)

PieceRequest(r) ==
    \E p \in KnownProjects, x \in KnownPieces :
       \/ \E done \in BOOLEAN \cup {Nothing} : UpdatePiece(r, p, x, done)
       \/ \E fixed \in BOOLEAN : TogglePieceComplete(r, p, x, fixed)
       \/ DeletePiece(r, p, x)

FilmStep(r) ==
    \/ LoadFilm(r) \/ WriteFilm(r) \/ RemoveFilm(r)
    \/ InsertProject(r) \/ CheckFilm(r) \/ LoadProject(r) \/ WriteProject(r)
    \/ RemoveProject(r) \/ Reread(r)
    \/ InsertPieces(r) \/ LoadPiece(r) \/ WritePiece(r) \/ RemovePiece(r)
    \/ StatementFails(r) /\ UNCHANGED filmTables

FilmNext ==
    \E r \in Requests : FilmRequest(r) \/ ProjectRequest(r) \/ PieceRequest(r) \/ FilmStep(r)

FilmSpec == FilmInit /\ [][FilmNext]_filmVars
-----------------------------------------------------------------------------
(* Properties *)

\* Every row is of its type and the foreign keys hold through every cascade,
\* late insert and revival (cutting-project.entity.ts:62-67,
\* cutting-piece.entity.ts:15-19).
FilmTypeOK ==
    /\ HttpTypeOK
    /\ films \subseteq Creators
    /\ DOMAIN projects \subseteq Creators
    /\ \A p \in DOMAIN projects : projects[p] \in films
    /\ DOMAIN pieces \subseteq PieceIds
    /\ \A x \in DOMAIN pieces : pieces[x] \in PieceRows /\ pieces[x].project \in DOMAIN projects

Asks(r, ops) == pc[r] # "idle" /\ job[r].op \in ops

\* Requests whose save() may insert this piece, project or film again.
SavesOfPiece(x) == {s \in Requests : SavesPiece(s) /\ job[s].piece = x}
SavesOfProject(p) == {s \in Requests : Asks(s, {"updateProject"}) /\ job[s].project = p}
SavesOfFilm(f) == {s \in Requests : Asks(s, {"updateFilm"}) /\ job[s].film = f}

DeletesOfPiece(x) == {d \in Requests : Asks(d, {"deletePiece"}) /\ job[d].piece = x}
DeletesOfProject(p) == {d \in Requests : Asks(d, {"deleteProject"}) /\ job[d].project = p}
DeletesOfFilm(f) == {d \in Requests : Asks(d, {"deleteFilm"}) /\ job[d].film = f}

OverlapsOneOf(r, S) == \E s \in S : Overlap(r, s)

\* Requests that may have taken this piece away: itself, its project or its film.
RemovalsOfPiece(x) ==
    LET p == pieces[x].project
    IN  DeletesOfPiece(x) \cup DeletesOfProject(p) \cup DeletesOfFilm(projects[p])

\* Two pieces of one project have the same order only if the requests that added
\* them overlapped, both having read the same highest order, or if one of the two
\* was taken away and brought back by a save that overlapped that deletion
\* (film-optimizer.service.ts:261-264, 274).
EqualOrdersOverlap ==
    \A x, y \in DOMAIN pieces :
       (x # y /\ pieces[x].project = pieces[y].project /\ pieces[x].order = pieces[y].order) =>
          \/ Overlap(x[1], y[1])
          \/ \E z \in {x, y} : \E d \in RemovalsOfPiece(z) : OverlapsOneOf(d, SavesOfPiece(z))

ProjectLossExplained(p) ==
    \/ DeletesOfProject(p) # {}
    \/ p \in Requests /\ OverlapsOneOf(p, DeletesOfFilm(job[p].film))

\* What was created with success is only lost to a request that asked for it to be
\* deleted - or to the deletion of the film, when that overlapped the creation of
\* the project: its check found no project, its DELETE then did
\* (film-optimizer.service.ts:106-112).
LostFilmRowsAreExplained ==
    /\ \A p \in Creators \ DOMAIN projects :
          (p = Nobody \/ (Asks(p, {"createProject"}) /\ Succeeded(p))) => ProjectLossExplained(p)
    /\ \A f \in Creators \ films :
          (f = Nobody \/ (Asks(f, {"createFilm"}) /\ Succeeded(f))) => DeletesOfFilm(f) # {}
    /\ \A x \in PieceIds \ DOMAIN pieces :
          LET r == x[1]
              p == IF r = Nobody THEN Nobody
                   ELSE IF Asks(r, {"addPieces"}) THEN job[r].project ELSE r
          IN  (IF r = Nobody THEN x[2] = 1
               ELSE /\ Asks(r, {"createProject", "addPieces"})
                    /\ Succeeded(r)
                    /\ x[2] <= job[r].count) =>
                 DeletesOfPiece(x) # {} \/ ProjectLossExplained(p)

\* A row that a request has deleted with success is there again only if a save()
\* of it overlapped the deletion: save() inserts what it does not find
\* (film-optimizer.service.ts:88-89, 112, 221-222, 239, 301-302, 319, 356).
DeletedFilmRowsStayDeleted ==
    /\ \A x \in DOMAIN pieces : \A d \in DeletesOfPiece(x) :
          Succeeded(d) => OverlapsOneOf(d, SavesOfPiece(x))
    /\ \A p \in DOMAIN projects : \A d \in DeletesOfProject(p) :
          Succeeded(d) => OverlapsOneOf(d, SavesOfProject(p))
    /\ \A f \in films : \A d \in DeletesOfFilm(f) :
          Succeeded(d) => OverlapsOneOf(d, SavesOfFilm(f))

\* A piece that is not cut has a fixed position only if it came so, if an update,
\* which can take the cut back but not the position, wrote it, or if two saves of it
\* overlapped: each writes only the columns it found to differ
\* (film-optimizer.service.ts:347-356).
FixedOnlyWhenCut ==
    \A x \in DOMAIN pieces :
       (~pieces[x].done /\ pieces[x].fixed) =>
          LET saves == SavesOfPiece(x)
          IN  \/ x[1] \in Requests /\ job[x[1]].input.fixed /\ ~job[x[1]].input.done
              \/ \E s \in saves : job[s].op = "updatePiece" /\ job[s].done = FALSE
              \/ \E s \in saves : OverlapsOneOf(s, saves)
=============================================================================
