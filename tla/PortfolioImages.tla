--------------------------- MODULE PortfolioImages ---------------------------
(***************************************************************************)
(* AdminPortfoliosService (admin-portfolios.service.ts) and the bucket     *)
(* that holds the images its rows name.  create uploads and then inserts;  *)
(* update uploads the new images, deletes the old ones and only then saves *)
(* the row; delete sets is_active.  There is no transaction around row and *)
(* bucket.                                                                 *)
(*                                                                         *)
(* The uploads of a request settle in one step here: some or all of them   *)
(* have been stored when one is known to have failed, and nobody names     *)
(* the ones that were.  PhotoUploads has them one by one.                  *)
(***************************************************************************)
EXTENDS HttpRequests, OrmSave

CONSTANT ImageCounts \* how many images a request may bring

\* What is asked of the portfolios.
PortfolioJobs ==
    [op : {"createPortfolio"}, count : ImageCounts] \cup
    [op : {"updatePortfolio"}, portfolio : Creators, count : ImageCounts] \cup
    [op : {"deletePortfolio"}, portfolio : Creators]

ASSUME NothingIsNoPortfolioJob == Nothing \notin PortfolioJobs

ASSUME PortfolioConstants == ImageCounts \subseteq 0 .. 10

VARIABLES
    portfolios, \* portfolio -> [images, active]
    stored      \* the images in the bucket; <<r, k>> is the k-th that r brought

portfolioTables == <<portfolios, stored>>
portfolioVars == <<portfolioTables, httpVars>>

Images == Creators \X (1 .. 10)
PortfolioRows == [images : SUBSET Images, active : BOOLEAN]

NewImages(r) == {<<r, k>> : k \in 1 .. job[r].count}

PortfolioTablesEmpty == portfolios = [p \in {} |-> Nobody] /\ stored = {}

PortfolioTablesSeeded ==
    /\ portfolios = [p \in {Nobody} |-> [images |-> {<<Nobody, 1>>}, active |-> TRUE]]
    /\ stored = {<<Nobody, 1>>}

PortfolioInit == HttpInit /\ PortfolioTablesSeeded

PutPortfolio(p, row) ==
    portfolios' = [q \in DOMAIN portfolios \cup {p} |-> IF q = p THEN row ELSE portfolios[q]]
-----------------------------------------------------------------------------
\* All images of the request are stored, ...
Upload(r) ==
    /\ pc[r] = "upload"
    /\ stored' = stored \cup NewImages(r)
    /\ Continue(r, IF job[r].op = "createPortfolio" THEN "insert" ELSE "replace", held[r])
    /\ UNCHANGED portfolios

\* ... or one is not.  create leaves the others where they are; update comes to its
\* catch, where portfolio.images are still the images the row had.
UploadFails(r) ==
    /\ pc[r] = "upload"
    /\ \E some \in SUBSET NewImages(r) : stored' = stored \cup some
    /\ IF job[r].op = "createPortfolio" THEN Answer(r, "refused")
          ELSE Continue(r, "cleanUp", [images |-> held[r].images, answer |-> "refused"])
    /\ UNCHANGED portfolios

\* cleanupUploadedFiles at the end of a catch: a delete that fails is only logged.
CleanUp(r) ==
    /\ pc[r] = "cleanUp"
    /\ \E gone \in SUBSET held[r].images : stored' = stored \ gone
    /\ Answer(r, held[r].answer)
    /\ UNCHANGED portfolios
-----------------------------------------------------------------------------
(* create *)

CreatePortfolio(r, n) ==
    LET j == [op |-> "createPortfolio", count |-> n] IN
    /\ \/ n = 0 /\ Serve(r, j, "refused")
       \/ n > 0 /\ Begin(r, j, "upload", Nothing)
    /\ UNCHANGED portfolioTables

InsertPortfolio(r) ==
    /\ At(r, "insert", "createPortfolio")
    /\ PutPortfolio(r, [images |-> NewImages(r), active |-> TRUE])
    /\ Continue(r, "reread", Nothing)
    /\ UNCHANGED stored

\* The service it names is not there, or the database fails - after the row was
\* committed, it may be, and before the process was told.
InsertPortfolioFails(r) ==
    /\ At(r, "insert", "createPortfolio")
    /\ \/ PutPortfolio(r, [images |-> NewImages(r), active |-> TRUE])
       \/ UNCHANGED portfolios
    /\ Continue(r, "cleanUp", [images |-> NewImages(r), answer |-> "error"])
    /\ UNCHANGED stored
-----------------------------------------------------------------------------
(* update and delete *)

UpdatePortfolio(r, p, n) ==
    LET j == [op |-> "updatePortfolio", portfolio |-> p, count |-> n] IN
    /\ \/ p \notin DOMAIN portfolios /\ Serve(r, j, "notFound")
       \/ /\ p \in DOMAIN portfolios
          /\ Begin(r, j, IF n > 0 THEN "upload" ELSE "load", portfolios[p])
    /\ UNCHANGED portfolioTables

\* Mutation: the images to delete are taken from the row after the new ones are set.
Replace_New(r) ==
    /\ At(r, "replace", "updatePortfolio")
    /\ \E gone \in SUBSET NewImages(r) : stored' = stored \ gone
    /\ Continue(r, "load", [held[r] EXCEPT !.images = NewImages(r)])
    /\ UNCHANGED portfolios

\* The old images are deleted; the new ones take their place in the entity.
Replace(r) ==
    /\ At(r, "replace", "updatePortfolio")
    /\ \E gone \in SUBSET held[r].images : stored' = stored \ gone
    /\ Continue(r, "load", [held[r] EXCEPT !.images = NewImages(r)])
    /\ UNCHANGED portfolios

\* Mutation: a delete switches the portfolio, which a second one undoes.
DeletePortfolio_Switches(r, p) ==
    LET j == [op |-> "deletePortfolio", portfolio |-> p] IN
    /\ \/ p \notin DOMAIN portfolios /\ Serve(r, j, "notFound")
       \/ /\ p \in DOMAIN portfolios
          /\ Begin(r, j, "load", [portfolios[p] EXCEPT !.active = ~@])
    /\ UNCHANGED portfolioTables

DeletePortfolio(r, p) ==
    LET j == [op |-> "deletePortfolio", portfolio |-> p] IN
    /\ \/ p \notin DOMAIN portfolios /\ Serve(r, j, "notFound")
       \/ /\ p \in DOMAIN portfolios
          /\ Begin(r, j, "load", [portfolios[p] EXCEPT !.active = FALSE])
    /\ UNCHANGED portfolioTables

SavesPortfolio(r) == pc[r] # "idle" /\ job[r].op \in {"updatePortfolio", "deletePortfolio"}

LoadPortfolio(r) ==
    /\ pc[r] = "load" /\ SavesPortfolio(r)
    /\ Continue(r, "write",
           [entity |-> held[r], dirty |-> Dirty(held[r], portfolios[job[r].portfolio])])
    /\ UNCHANGED portfolioTables

WritesPortfolio(r) ==
    LET p == job[r].portfolio
    IN  PutPortfolio(p, Merge(portfolios[p], held[r].entity, held[r].dirty))

\* No row of this table is ever deleted, so save() always updates.
WritePortfolio(r) ==
    /\ pc[r] = "write" /\ SavesPortfolio(r)
    /\ WritesPortfolio(r)
    /\ IF job[r].op = "updatePortfolio" THEN Continue(r, "reread", Nothing) ELSE Answer(r, "ok")
    /\ UNCHANGED stored

\* save() fails; again its COMMIT may have been made.  An update with images deletes
\* the new ones, which portfolio.images are by now.
SavePortfolioFails(r) ==
    /\ SavesPortfolio(r)
    /\ \/ pc[r] = "load" /\ UNCHANGED portfolios
       \/ pc[r] = "write" /\ (WritesPortfolio(r) \/ UNCHANGED portfolios)
    /\ IF job[r].op = "updatePortfolio" /\ job[r].count > 0
          THEN Continue(r, "cleanUp", [images |-> NewImages(r), answer |-> "error"])
          ELSE Answer(r, "error")
    /\ UNCHANGED stored

\* findById, returned without await: outside the try.
RereadPortfolio(r) ==
    /\ pc[r] = "reread"
    /\ Answer(r, "ok") \/ Answer(r, "error")
    /\ UNCHANGED portfolioTables
-----------------------------------------------------------------------------
KnownPortfolios == DOMAIN portfolios \cup {Nobody}

PortfolioRequest(r) ==
    \/ \E n \in ImageCounts : CreatePortfolio(r, n)
    \/ \E p \in KnownPortfolios :
          \/ \E n \in ImageCounts : UpdatePortfolio(r, p, n)
          \/ DeletePortfolio(r, p)

PortfolioStep(r) ==
    \/ Upload(r) \/ UploadFails(r) \/ CleanUp(r)
    \/ InsertPortfolio(r) \/ InsertPortfolioFails(r)
    \/ Replace(r) \/ LoadPortfolio(r) \/ WritePortfolio(r) \/ SavePortfolioFails(r)
    \/ RereadPortfolio(r)

PortfolioNext == \E r \in Requests : PortfolioRequest(r) \/ PortfolioStep(r)

PortfolioSpec == PortfolioInit /\ [][PortfolioNext]_portfolioVars
-----------------------------------------------------------------------------
(* Properties *)

\* Every row is of its type, and every image it names was brought by a request that
\* got past its uploads.
PortfolioTypeOK ==
    /\ HttpTypeOK
    /\ DOMAIN portfolios \subseteq Creators
    /\ stored \subseteq Images
    /\ \A p \in DOMAIN portfolios :
          /\ portfolios[p] \in PortfolioRows
          /\ \A image \in portfolios[p].images :
                image[1] # Nobody => pc[image[1]] # "upload" /\ answer[image[1]] # "refused"

SavesOfPortfolio(p) == {s \in Requests : SavesPortfolio(s) /\ job[s].portfolio = p}

\* The requests that were to replace its images.
Replacing(p) ==
    {u \in SavesOfPortfolio(p) : job[u].op = "updatePortfolio" /\ job[u].count > 0}

\* A portfolio names an image that is not in the bucket only if a request that was to
\* replace its images failed or is under way, if such a request overlapped another
\* one that saved the portfolio - an update or a delete, which write back the images
\* they read before - or if its insert was committed and reported as failed
\* (admin-portfolios.service.ts:99-105, 129-132, 149-156, 165-166).
BrokenImagesAreExplained ==
    \A p \in DOMAIN portfolios :
       \/ portfolios[p].images \subseteq stored
       \/ \E u \in Replacing(p) : ~Succeeded(u)
       \/ \E u \in Replacing(p), s \in SavesOfPortfolio(p) : Overlap(u, s)
       \/ p \in Requests /\ ~Succeeded(p)

\* A portfolio that was deleted with success stays hidden, unless an update of it
\* overlapped the deletion (admin-portfolios.service.ts:116, 149, 165-166).
DeletedPortfoliosStayDeleted ==
    \A p \in DOMAIN portfolios : \A d \in SavesOfPortfolio(p) :
       (job[d].op = "deletePortfolio" /\ Succeeded(d)) =>
          ~portfolios[p].active \/ \E s \in SavesOfPortfolio(p) : Overlap(d, s)

\* "On failure clean up only the new images" (admin-portfolios.service.ts:152): when
\* the upload of the one update of a portfolio failed, the portfolio still has its
\* images.
FailedUploadKeepsOldImages ==
    \A p \in DOMAIN portfolios : \A u \in Replacing(p) :
       (answer[u] = "refused" /\ SavesOfPortfolio(p) = {u} /\ (p = Nobody \/ Succeeded(p))) =>
          portfolios[p].images \subseteq stored
=============================================================================
