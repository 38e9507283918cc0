---------------------------- MODULE UploadThenSave ----------------------------
(***************************************************************************)
(* The frame that the create handlers of reservations and reviews share:   *)
(* check the request, upload its photos, insert a row, and delete the      *)
(* photos again when the insert fails.  There is no transaction around     *)
(* store and table.  The modules that extend this one add the checks, the  *)
(* table and what stands between the uploads and the insert.               *)
(***************************************************************************)
EXTENDS PhotoUploads

CONSTANTS
    Processes,  \* the workers of the PM2 cluster
    WorkerOf    \* the process that serves each request

ASSUME WorkersAssigned == WorkerOf \in [Requests -> Processes]

VARIABLES
    pc,      \* request -> where its handler is
    photos,  \* request -> the photos it brought, once it uploads them
    saved,   \* the requests whose row has been committed
    answer   \* request -> what its caller is told

frameVars == <<pc, photos, saved, answer, upload, blobs>>

Phases == {"idle", "checking", "uploading", "saving", "committed", "cleaning",
           "answered", "dead"}

\* "refused" comes before the uploads, "notSaved" between them and save().
Answers == {"none", "ok", "refused", "uploadFailed", "notSaved", "saveFailed"}

FrameInit ==
    /\ pc = [r \in Requests |-> "idle"]
    /\ photos = [r \in Requests |-> {}]
    /\ saved = {}
    /\ answer = [r \in Requests |-> "none"]
    /\ StoreInit

InProgress(r) == pc[r] \notin {"idle", "answered", "dead"}

Goto(r, phase) == pc' = [pc EXCEPT ![r] = phase]

Answer(r, what) ==
    /\ Goto(r, "answered")
    /\ answer' = [answer EXCEPT ![r] = what]

Refuse(r) ==
    /\ pc[r] \in {"idle", "checking"}
    /\ Answer(r, "refused")
    /\ UNCHANGED <<photos, saved, storeVars>>

\* A check passed and another is to come.
StartChecks(r) ==
    /\ pc[r] = "idle"
    /\ Goto(r, "checking")
    /\ UNCHANGED <<photos, saved, answer, storeVars>>

\* All checks passed: all photos are sent at once.
StartUploads(r, files) ==
    /\ pc[r] \in {"idle", "checking"}
    /\ Goto(r, "uploading")
    /\ photos' = [photos EXCEPT ![r] = files]
    /\ SendPuts(r, files)
    /\ UNCHANGED <<saved, answer>>

\* Promise.all rejects with the first failed photo; the others go on alone and
\* nothing that is or will be stored is cleaned up.
UploadFails(r) ==
    /\ pc[r] = "uploading"
    /\ PhotosIn(r, {"error"}) # {}
    /\ Answer(r, "uploadFailed")
    /\ UNCHANGED <<photos, saved, storeVars>>

Uploaded(r) == pc[r] = "uploading" /\ PhotosIn(r, {"url"}) = photos[r]

\* An error between the uploads and the try around save().
FailUnsaved(r) ==
    /\ Uploaded(r)
    /\ Answer(r, "notSaved")
    /\ UNCHANGED <<photos, saved, storeVars>>

\* save() is called.
StartSave(r) ==
    /\ Uploaded(r)
    /\ Goto(r, "saving")
    /\ UNCHANGED <<photos, saved, answer, storeVars>>

\* The database inserts the row and commits.
Commit(r) ==
    /\ pc[r] = "saving"
    /\ Goto(r, "committed")
    /\ saved' = saved \cup {r}
    /\ UNCHANGED <<photos, answer, storeVars>>

\* Mutation: save() is not awaited.
Reply_NotAwaited(r) ==
    /\ pc[r] \in {"saving", "committed"}
    /\ Answer(r, "ok")
    /\ UNCHANGED <<photos, saved, storeVars>>

Reply(r) ==
    /\ pc[r] = "committed"
    /\ Answer(r, "ok")
    /\ UNCHANGED <<photos, saved, storeVars>>

\* Mutation: the catch rethrows without deleting the photos.
RollBack_NoCleanup(r) ==
    /\ Answer(r, "saveFailed")
    /\ UNCHANGED <<photos, saved, storeVars>>

\* The catch around save(): delete the uploaded photos, then rethrow.
RollBack(r) ==
    /\ \/ /\ photos[r] = {}
          /\ Answer(r, "saveFailed")
          /\ UNCHANGED storeVars
       \/ /\ photos[r] # {}
          /\ Goto(r, "cleaning")
          /\ SendDeletes(r)
          /\ UNCHANGED answer
    /\ UNCHANGED <<photos, saved>>

\* The table rejects the row.
Reject(r) == pc[r] = "saving" /\ RollBack(r)

\* The connection is lost before the insert took effect, or after the commit.
ConnectionLost(r) ==
    /\ pc[r] \in {"saving", "committed"}
    /\ RollBack(r)

\* Mutation: the answer waits for every photo to be really gone.
CleanupEnds_WaitsForAll(r) ==
    /\ pc[r] = "cleaning"
    /\ PhotosIn(r, {"deleting", "kept"}) = {}
    /\ Answer(r, "saveFailed")
    /\ UNCHANGED <<photos, saved, storeVars>>

CleanupEnds(r) ==
    /\ pc[r] = "cleaning"
    /\ PhotosIn(r, {"deleting"}) = {}
    /\ Answer(r, "saveFailed")
    /\ UNCHANGED <<photos, saved, storeVars>>

\* A put or a delete in flight comes to its end.
Settle(r) ==
    /\ \E p \in Photos : PutSettles(r, p) \/ DeleteSettles(r, p)
    /\ UNCHANGED <<pc, photos, saved, answer>>

\* A worker dies (memory limit, deploy) with all it has in hand; PM2 restarts it.
Crash(w) ==
    /\ \E r \in Requests : WorkerOf[r] = w /\ InProgress(r)
    /\ pc' = [r \in Requests |-> IF WorkerOf[r] = w /\ InProgress(r) THEN "dead" ELSE pc[r]]
    /\ UNCHANGED <<photos, saved, answer, storeVars>>

\* The steps that are the same whatever is inserted.
FrameStep(r) ==
    \/ UploadFails(r)
    \/ ConnectionLost(r)
    \/ Reply(r)
    \/ CleanupEnds(r)

FrameTypeOK ==
    /\ pc \in [Requests -> Phases]
    /\ photos \in [Requests -> SUBSET Photos]
    /\ saved \subseteq Requests
    /\ answer \in [Requests -> Answers]
    /\ StoreTypeOK

\* Why an object whose request has no row may be in the store.
OrphanHasCause(r, p) ==
    \/ InProgress(r) \/ pc[r] = "dead"
    \/ answer[r] \in {"uploadFailed", "notSaved"}
    \/ upload[r][p] = "kept"
=============================================================================
