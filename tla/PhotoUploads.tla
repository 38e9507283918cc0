----------------------------- MODULE PhotoUploads -----------------------------
(***************************************************************************)
(* Photos on their way to and in the object store (NCP Object Storage).    *)
(*                                                                         *)
(* A request sends all its photos at once and waits with Promise.all; each *)
(* PutObject settles on its own, also after the request has been answered  *)
(* or its process has died.  The store may keep an object although the     *)
(* client is told the put failed (the answer was lost), and a failed       *)
(* delete is only logged.  Object keys carry a timestamp and a random part *)
(* (FileUtil.generateUniqueFilename): they are taken to be unique, so an   *)
(* object is the pair of its request and the photo's place in the request. *)
(***************************************************************************)
CONSTANTS
    Requests,
    Photos     \* places of photos in one multipart request, at most 5 in the code

VARIABLES
    upload,    \* request -> photo -> what the process knows of it
    blobs      \* the objects in the store, <<request, photo>>

storeVars == <<upload, blobs>>

\* "none"     not part of the request        "sent"     put in flight
\* "url"      stored, URL known              "error"    the put was rejected
\* "deleting" delete in flight               "deleted"  delete answered
\* "kept"     delete failed and was logged
UploadStates == {"none", "sent", "url", "error", "deleting", "deleted", "kept"}

StoreInit ==
    /\ upload = [r \in Requests |-> [p \in Photos |-> "none"]]
    /\ blobs = {}

\* The photos of r in one of the states "ss".
PhotosIn(r, ss) == {p \in Photos : upload[r][p] \in ss}

\* Promise.all over files.map(uploadImage).
SendPuts(r, files) ==
    /\ upload' = [upload EXCEPT ![r] = [p \in Photos |->
                     IF p \in files THEN "sent" ELSE "none"]]
    /\ UNCHANGED blobs

\* Mutation: an upload that fails is reported as done.
PutSettles_ErrorSwallowed(r, p) ==
    /\ upload[r][p] = "sent"
    /\ upload' = [upload EXCEPT ![r][p] = "url"]
    /\ blobs' \in {blobs, blobs \cup {<<r, p>>}}

\* uploadImage settles: sharp or the put rejects it, the put is stored, or it is
\* stored and its answer lost.
PutSettles(r, p) ==
    /\ upload[r][p] = "sent"
    /\ \/ /\ upload' = [upload EXCEPT ![r][p] = "url"]
          /\ blobs' = blobs \cup {<<r, p>>}
       \/ /\ upload' = [upload EXCEPT ![r][p] = "error"]
          /\ blobs' \in {blobs, blobs \cup {<<r, p>>}}

\* cleanupUploadedFiles: delete every photo whose URL is known.
SendDeletes(r) ==
    /\ upload' = [upload EXCEPT ![r] = [p \in Photos |->
                     IF @[p] = "url" THEN "deleting" ELSE @[p]]]
    /\ UNCHANGED blobs

\* deleteFile never rejects: a failed delete leaves the object and a log line.
DeleteSettles(r, p) ==
    /\ upload[r][p] = "deleting"
    /\ \/ /\ upload' = [upload EXCEPT ![r][p] = "deleted"]
          /\ blobs' = blobs \ {<<r, p>>}
       \/ /\ upload' = [upload EXCEPT ![r][p] = "kept"]
          /\ blobs' \in {blobs, blobs \ {<<r, p>>}}

StoreTypeOK ==
    /\ upload \in [Requests -> [Photos -> UploadStates]]
    /\ blobs \subseteq Requests \X Photos
=============================================================================
