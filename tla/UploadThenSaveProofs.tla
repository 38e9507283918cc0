------------------------- MODULE UploadThenSaveProofs -------------------------
(***************************************************************************)
(* What every step of the frame keeps, for every set of requests, photos   *)
(* and processes.  The proofs about the modules that extend the frame cite *)
(* these lemmas.                                                           *)
(***************************************************************************)
EXTENDS UploadThenSave, TLAPS

\* Phase, table and answer of a request agree.
FlowInv(r) ==
    /\ answer[r] # "none" <=> pc[r] = "answered"
    /\ r \in saved => pc[r] \in {"committed", "cleaning", "answered", "dead"}
    /\ pc[r] = "committed" \/ answer[r] = "ok" => r \in saved
    /\ answer[r] \in {"refused", "uploadFailed", "notSaved"} => r \notin saved
    /\ pc[r] \in {"idle", "checking"} \/ answer[r] = "refused" => photos[r] = {}

\* What the state of a photo says about the store and about its request.
PhotoInv(r, p) ==
    /\ upload[r][p] \in {"none", "deleted"} => <<r, p>> \notin blobs
    /\ upload[r][p] = "url" => <<r, p>> \in blobs
    /\ upload[r][p] # "none" => p \in photos[r]
    /\ p \in photos[r] =>
          /\ pc[r] \in {"saving", "committed"} \/ answer[r] = "ok" => upload[r][p] = "url"
          /\ pc[r] = "cleaning" => upload[r][p] \in {"deleting", "deleted", "kept"}
          /\ answer[r] = "saveFailed" => upload[r][p] \in {"deleted", "kept"}
          /\ r \in saved => upload[r][p] \in {"url", "deleting", "deleted", "kept"}

FrameInv ==
    /\ FrameTypeOK
    /\ \A r \in Requests : FlowInv(r)
    /\ \A r \in Requests, p \in Photos : PhotoInv(r, p)

LEMMA FrameStarts == FrameInit => FrameInv
  <1> SUFFICES ASSUME FrameInit PROVE FrameInv
    OBVIOUS
  <1>1. FrameTypeOK
    BY DEF FrameInit, FrameTypeOK, StoreInit, StoreTypeOK, UploadStates, Phases, Answers
  <1>2. \A r \in Requests : FlowInv(r)
    BY DEF FrameInit, FlowInv
  <1>3. \A r \in Requests, p \in Photos : PhotoInv(r, p)
    BY DEF FrameInit, StoreInit, PhotoInv
  <1>4. QED
    BY <1>1, <1>2, <1>3 DEF FrameInv
-----------------------------------------------------------------------------
(* Steps that leave the store alone.                                       *)

\* r moves to another phase, maybe with an answer or a commit.
Moves(r) ==
    \/ Refuse(r) \/ StartChecks(r) \/ UploadFails(r) \/ FailUnsaved(r) \/ StartSave(r)
    \/ Commit(r) \/ Reply(r) \/ CleanupEnds(r)

LEMMA MoveKeepsFrame ==
    ASSUME FrameInv, NEW r \in Requests, Moves(r)
    PROVE  FrameInv'
  <1> USE DEF FrameInv, Goto, Answer, FrameTypeOK, storeVars
  <1>1. /\ upload' = upload /\ blobs' = blobs /\ photos' = photos
        /\ \A q \in Requests \ {r} : /\ pc'[q] = pc[q] /\ answer'[q] = answer[q]
                                     /\ (q \in saved') <=> (q \in saved)
    BY DEF Moves, Refuse, StartChecks, UploadFails, FailUnsaved, StartSave, Commit, Reply,
           CleanupEnds
  <1>2. FrameTypeOK'
    BY DEF Moves, Refuse, StartChecks, UploadFails, FailUnsaved, StartSave, Commit, Reply,
           CleanupEnds, StoreTypeOK, Phases, Answers
  <1>3. FlowInv(r)'
    BY DEF Moves, Refuse, StartChecks, UploadFails, FailUnsaved, Uploaded, StartSave, Commit,
           Reply, CleanupEnds, FlowInv
  <1>4. ASSUME NEW p \in Photos PROVE PhotoInv(r, p)'
    <2>1. FlowInv(r) /\ PhotoInv(r, p)
      OBVIOUS
    <2>2. CASE Refuse(r) \/ StartChecks(r) \/ UploadFails(r) \/ FailUnsaved(r)
      BY <1>1, <2>1, <2>2 DEF Refuse, StartChecks, UploadFails, FailUnsaved, Uploaded, FlowInv,
                              PhotoInv
    <2>3. CASE StartSave(r)
      BY <1>1, <2>1, <2>3 DEF StartSave, Uploaded, PhotosIn, FlowInv, PhotoInv
    <2>4. CASE Commit(r) \/ Reply(r)
      BY <1>1, <2>1, <2>4 DEF Commit, Reply, FlowInv, PhotoInv
    <2>5. CASE CleanupEnds(r)
      BY <1>1, <2>1, <2>5 DEF CleanupEnds, PhotosIn, FlowInv, PhotoInv
    <2>6. QED
      BY <2>2, <2>3, <2>4, <2>5 DEF Moves
  <1>5. ASSUME NEW q \in Requests PROVE FlowInv(q)'
    BY <1>1, <1>3, <1>5 DEF FlowInv
  <1>6. ASSUME NEW q \in Requests, NEW p \in Photos PROVE PhotoInv(q, p)'
    BY <1>1, <1>4, <1>6 DEF PhotoInv
  <1>7. QED
    BY <1>2, <1>5, <1>6

LEMMA CrashKeepsFrame ==
    ASSUME FrameInv, NEW w \in Processes, Crash(w)
    PROVE  FrameInv'
  <1> USE DEF FrameInv
  <1>1. /\ upload' = upload /\ blobs' = blobs /\ photos' = photos
        /\ saved' = saved /\ answer' = answer
    BY DEF Crash, storeVars
  <1>2. \A q \in Requests : pc'[q] = pc[q] \/ (InProgress(q) /\ pc'[q] = "dead")
    BY DEF Crash
  <1>3. FrameTypeOK'
    BY <1>1 DEF Crash, FrameTypeOK, StoreTypeOK, Phases
  <1>4. ASSUME NEW q \in Requests PROVE FlowInv(q)'
    BY <1>1, <1>2 DEF FlowInv, InProgress
  <1>5. ASSUME NEW q \in Requests, NEW p \in Photos PROVE PhotoInv(q, p)'
    BY <1>1, <1>2 DEF PhotoInv, InProgress
  <1>6. QED
    BY <1>3, <1>4, <1>5
-----------------------------------------------------------------------------
(* Steps that touch the store.                                             *)

LEMMA StartUploadsKeepsFrame ==
    ASSUME FrameInv, NEW r \in Requests, NEW files \in SUBSET Photos, StartUploads(r, files)
    PROVE  FrameInv'
  <1> USE DEF FrameInv
  <1>1. /\ blobs' = blobs /\ saved' = saved /\ answer' = answer
        /\ pc[r] \in {"idle", "checking"} /\ pc'[r] = "uploading" /\ photos'[r] = files
        /\ \A p \in Photos : upload'[r][p] = IF p \in files THEN "sent" ELSE "none"
        /\ \A q \in Requests \ {r} : /\ pc'[q] = pc[q] /\ photos'[q] = photos[q]
                                     /\ upload'[q] = upload[q]
    BY DEF StartUploads, SendPuts, Goto, FrameTypeOK, StoreTypeOK
  <1>2. FrameTypeOK'
    BY DEF StartUploads, SendPuts, Goto, FrameTypeOK, StoreTypeOK, UploadStates, Phases
  <1>3. /\ photos[r] = {} /\ r \notin saved /\ answer[r] = "none"
        /\ \A p \in Photos : upload[r][p] = "none" /\ <<r, p>> \notin blobs
    BY <1>1 DEF FlowInv, PhotoInv
  <1>4. ASSUME NEW q \in Requests PROVE FlowInv(q)'
    BY <1>1, <1>3 DEF FlowInv
  <1>5. ASSUME NEW q \in Requests, NEW p \in Photos PROVE PhotoInv(q, p)'
    BY <1>1, <1>3 DEF PhotoInv
  <1>6. QED
    BY <1>2, <1>4, <1>5

\* The roll-back, from whichever failure of the save it starts.
LEMMA RollBackKeepsFrame ==
    ASSUME FrameInv, NEW r \in Requests, Reject(r) \/ ConnectionLost(r)
    PROVE  FrameInv'
  <1> USE DEF FrameInv
  <1>1. /\ RollBack(r) /\ pc[r] \in {"saving", "committed"}
        /\ photos' = photos /\ saved' = saved /\ blobs' = blobs
        /\ \A q \in Requests \ {r} : /\ pc'[q] = pc[q] /\ answer'[q] = answer[q]
                                     /\ upload'[q] = upload[q]
    BY DEF Reject, ConnectionLost, RollBack, SendDeletes, storeVars, Answer, Goto, FrameTypeOK,
           StoreTypeOK
  <1>2. /\ answer[r] = "none"
        /\ \A p \in Photos : p \in photos[r] => upload[r][p] = "url"
    BY <1>1 DEF FlowInv, PhotoInv
  <1>3. CASE photos[r] = {} /\ Answer(r, "saveFailed") /\ UNCHANGED storeVars
    <2>1. pc'[r] = "answered" /\ answer'[r] = "saveFailed" /\ upload' = upload
      BY <1>3 DEF Answer, Goto, FrameTypeOK, storeVars
    <2>2. FrameTypeOK'
      BY <1>1, <1>3 DEF Answer, Goto, FrameTypeOK, StoreTypeOK, storeVars, Phases, Answers
    <2>3. ASSUME NEW q \in Requests PROVE FlowInv(q)'
      BY <1>1, <1>2, <2>1 DEF FlowInv
    <2>4. ASSUME NEW q \in Requests, NEW p \in Photos PROVE PhotoInv(q, p)'
      BY <1>1, <1>2, <1>3, <2>1 DEF PhotoInv
    <2>5. QED
      BY <2>2, <2>3, <2>4
  <1>4. CASE Goto(r, "cleaning") /\ SendDeletes(r) /\ UNCHANGED answer
    <2>1. /\ pc'[r] = "cleaning" /\ answer' = answer
          /\ \A p \in Photos :
                upload'[r][p] = IF upload[r][p] = "url" THEN "deleting" ELSE upload[r][p]
      BY <1>4 DEF Goto, SendDeletes, FrameTypeOK, StoreTypeOK
    <2>2. FrameTypeOK'
      BY <1>1, <1>4 DEF Goto, SendDeletes, FrameTypeOK, StoreTypeOK, UploadStates, Phases
    <2>3. ASSUME NEW q \in Requests PROVE FlowInv(q)'
      BY <1>1, <1>2, <2>1 DEF FlowInv
    <2>4. ASSUME NEW q \in Requests, NEW p \in Photos PROVE PhotoInv(q, p)'
      BY <1>1, <1>2, <2>1 DEF PhotoInv
    <2>5. QED
      BY <2>2, <2>3, <2>4
  <1>5. QED
    BY <1>1, <1>3, <1>4 DEF RollBack

LEMMA SettleTypes ==
    ASSUME StoreTypeOK, NEW r \in Requests, Settle(r)
    PROVE  StoreTypeOK'
  <1>1. PICK p \in Photos : PutSettles(r, p) \/ DeleteSettles(r, p)
    BY DEF Settle
  <1>2. CASE PutSettles(r, p)
    BY <1>2 DEF PutSettles, StoreTypeOK, UploadStates
  <1>3. CASE DeleteSettles(r, p)
    BY <1>3 DEF DeleteSettles, StoreTypeOK, UploadStates
  <1>4. QED
    BY <1>1, <1>2, <1>3

\* A put or a delete settles: one photo of one request moves on.
LEMMA SettleKeepsFrame ==
    ASSUME FrameInv, NEW r \in Requests, Settle(r)
    PROVE  FrameInv'
  <1> USE DEF FrameInv
  <1>1. PICK p \in Photos : PutSettles(r, p) \/ DeleteSettles(r, p)
    BY DEF Settle
  <1>2. pc' = pc /\ photos' = photos /\ saved' = saved /\ answer' = answer
    BY DEF Settle
  <1>3. FrameTypeOK'
    BY <1>2, SettleTypes DEF FrameTypeOK
  <1>4. \A q \in Requests : FlowInv(q)'
    BY <1>2 DEF FlowInv
  <1>5. ASSUME NEW q \in Requests, NEW o \in Photos, <<q, o>> # <<r, p>>
        PROVE  PhotoInv(q, o)'
    <2>1. upload'[q][o] = upload[q][o] /\ (<<q, o>> \in blobs' <=> <<q, o>> \in blobs)
      BY <1>1, <1>5 DEF PutSettles, DeleteSettles, FrameTypeOK, StoreTypeOK
    <2>2. QED
      BY <1>2, <2>1 DEF PhotoInv
  <1>6. PhotoInv(r, p)'
    <2>1. CASE PutSettles(r, p)
      <3>1. /\ upload[r][p] = "sent" /\ upload'[r][p] \in {"url", "error"}
            /\ upload'[r][p] = "url" => <<r, p>> \in blobs'
        BY <2>1 DEF PutSettles, FrameTypeOK, StoreTypeOK
      <3>2. QED
        BY <1>2, <3>1 DEF PhotoInv
    <2>2. CASE DeleteSettles(r, p)
      <3>1. /\ upload[r][p] = "deleting" /\ upload'[r][p] \in {"deleted", "kept"}
            /\ upload'[r][p] = "deleted" => <<r, p>> \notin blobs'
        BY <2>2 DEF DeleteSettles, FrameTypeOK, StoreTypeOK
      <3>2. QED
        BY <1>2, <3>1 DEF PhotoInv
    <2>3. QED
      BY <1>1, <2>1, <2>2
  <1>7. QED
    BY <1>3, <1>4, <1>5, <1>6
-----------------------------------------------------------------------------
(* The frame as a whole.                                                   *)

\* A step of request r, as far as the frame sees it.
FrameMove(r) ==
    \/ Moves(r)
    \/ \E files \in SUBSET Photos : StartUploads(r, files)
    \/ Reject(r) \/ ConnectionLost(r)
    \/ Settle(r)

\* Any step of the frame.
FrameNext ==
    \/ \E r \in Requests : FrameMove(r)
    \/ \E w \in Processes : Crash(w)

LEMMA FrameKeepsInv == FrameInv /\ [FrameNext]_frameVars => FrameInv'
  <1> SUFFICES ASSUME FrameInv, [FrameNext]_frameVars PROVE FrameInv'
    OBVIOUS
  <1>1. CASE UNCHANGED frameVars
    BY <1>1 DEF frameVars, FrameInv, FrameTypeOK, StoreTypeOK, FlowInv, PhotoInv
  <1>2. QED
    BY <1>1, MoveKeepsFrame, StartUploadsKeepsFrame, RollBackKeepsFrame, SettleKeepsFrame,
       CrashKeepsFrame DEF FrameNext, FrameMove

\* No step of another request, and no crash, starts a save or commits one.
LEMMA OthersStand ==
    ASSUME FrameInv, NEW r \in Requests, FrameMove(r)
    PROVE  \A q \in Requests \ {r} : pc'[q] = pc[q] /\ photos'[q] = photos[q]
  BY DEF FrameInv, FrameTypeOK, FrameMove, Moves, Refuse, StartChecks, UploadFails, FailUnsaved,
         StartSave, Commit, Reply, CleanupEnds, StartUploads, Reject, ConnectionLost, RollBack,
         Settle, Goto, Answer

\* An object whose request has committed no row is explained.
LEMMA UnsavedOrphans ==
    ASSUME FrameInv, NEW r \in Requests, NEW p \in Photos, <<r, p>> \in blobs
    PROVE  p \in photos[r] /\ (OrphanHasCause(r, p) \/ answer[r] = "ok")
  <1>1. /\ FlowInv(r) /\ PhotoInv(r, p) /\ FrameTypeOK
        /\ upload[r][p] \notin {"none", "deleted"} /\ p \in photos[r]
    BY DEF FrameInv, PhotoInv
  <1>2. CASE answer[r] = "saveFailed"
    BY <1>1, <1>2 DEF PhotoInv, OrphanHasCause
  <1>3. CASE answer[r] = "refused" \/ pc[r] = "idle"
    BY <1>1, <1>3 DEF FlowInv
  <1>4. CASE answer[r] = "none" /\ pc[r] # "idle"
    BY <1>1, <1>4 DEF FlowInv, FrameTypeOK, OrphanHasCause, InProgress, Phases
  <1>5. CASE answer[r] \in {"ok", "uploadFailed", "notSaved"}
    BY <1>1, <1>5 DEF OrphanHasCause
  <1>6. QED
    BY <1>1, <1>2, <1>3, <1>4, <1>5 DEF FrameTypeOK, Answers
=============================================================================
