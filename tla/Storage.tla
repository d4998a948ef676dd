------------------------------ MODULE Storage ------------------------------
(***************************************************************************)
(* The storage nodes of eggdfs (svc/storage.go): what each keeps on disk   *)
(* and in its leveldb index, and the three HTTP handlers that change it,   *)
(* QuickUpload, SyncFileAdd and SyncFileDelete, one action per step at     *)
(* which another handler, a crash or a reader can come between.            *)
(*                                                                         *)
(* A file is named by the id the tracker generated for one upload attempt, *)
(* so Files is also the set of upload requests; SyncFileAdd runs at most   *)
(* once per file and node, and a delete request is a member of Deletes.    *)
(* A content stands for its own MD5.  This module has no specification of  *)
(* its own: Replication adds the tracker, which sends the requests.        *)
(***************************************************************************)
CONSTANTS
    Nodes,      \* storage nodes, by address
    Files,      \* file ids: one per upload attempt
    Deletes,    \* delete requests
    Contents,   \* byte strings clients upload; the keys of the index
    ContentOf,  \* what each upload attempt carries
    Empty,      \* the zero-length content; a client may upload it
    Torn,       \* on disk: the part written by a copy that failed
    ErrorPage,  \* on disk: the text of an HTTP error saved as a file
    Absent,     \* on disk: no such file
    NoFile, NoHash, NoNode,
    CrashNodes, \* environment: the nodes whose process may die
    Unreadable  \* environment: the uploads whose reading back may fail

ASSUME StorageAssumption ==
    /\ ContentOf \in [Files -> Contents]
    /\ {Torn, ErrorPage, Absent, NoHash} \cap (Contents \cup {Empty}) = {}
    /\ Torn # ErrorPage /\ Torn # Absent /\ ErrorPage # Absent
    /\ NoFile \notin Files
    /\ NoNode \notin Nodes
    /\ CrashNodes \subseteq Nodes
    /\ Unreadable \subseteq Files

VARIABLES
    disk,       \* disk[n][f]: the bytes node n has at the path of f
    db,         \* db[n][h]: the file the index of n gives for MD5 h
    upPc, upNode, upMd5, upHit, \* upload f: step, node, its MD5 as the client
                                \* announced and then the node computed it, index hit
    addPc, addBody,             \* SyncFileAdd of f on n: step, body received
    delPc, delFile, delHash     \* SyncFileDelete d on n: step; d's file and MD5

uploadVars == <<upPc, upNode, upMd5, upHit>>
addVars    == <<addPc, addBody>>
delVars    == <<delPc, delFile, delHash>>
storageVars == <<disk, db, uploadVars, addVars, delVars>>

DiskValues == Contents \cup {Empty, Torn, ErrorPage, Absent}
Hashes     == Contents \cup {NoHash}

\* What a copy that fails half-way has written; of no bytes, no bytes.
Part(bytes) == IF bytes = Empty THEN Empty ELSE Torn

\* A handler that is running; the other steps are "idle" and the outcomes.
UploadRunning == {"recv", "exists", "new", "saved", "damaged"}
AddRunning    == {"recv", "probed", "fetched", "created", "copied", "stated"}
DelRunning    == {"recv", "stated", "removed"}

StorageTypeOK ==
    /\ disk \in [Nodes -> [Files -> DiskValues]]
    /\ db \in [Nodes -> [Contents -> Files \cup {NoFile}]]
    /\ upPc \in [Files -> UploadRunning \cup {"idle", "instant", "failed", "stored"}]
    /\ upNode \in [Files -> Nodes \cup {NoNode}]
    /\ upMd5 \in [Files -> Hashes]
    /\ upHit \in [Files -> Files \cup {NoFile}]
    /\ addPc \in [Files -> [Nodes -> AddRunning \cup {"idle", "failed", "done"}]]
    /\ addBody \in [Files -> [Nodes -> DiskValues]]
    /\ delPc \in [Deletes -> [Nodes -> DelRunning \cup {"idle", "failed", "done"}]]
    /\ delFile \in [Deletes -> Files \cup {NoFile}]
    /\ delHash \in [Deletes -> Hashes]

StorageInit ==
    /\ disk = [n \in Nodes |-> [f \in Files |-> Absent]]
    /\ db = [n \in Nodes |-> [h \in Contents |-> NoFile]]
    /\ upPc = [f \in Files |-> "idle"]
    /\ upNode = [f \in Files |-> NoNode]
    /\ upMd5 = [f \in Files |-> NoHash]
    /\ upHit = [f \in Files |-> NoFile]
    /\ addPc = [f \in Files |-> [n \in Nodes |-> "idle"]]
    /\ addBody = [f \in Files |-> [n \in Nodes |-> Absent]]
    /\ delPc = [d \in Deletes |-> [n \in Nodes |-> "idle"]]
    /\ delFile = [d \in Deletes |-> NoFile]
    /\ delHash = [d \in Deletes |-> NoHash]

-----------------------------------------------------------------------------
(***************************************************************************)
(* QuickUpload.                                                            *)
(***************************************************************************)
\* The file header of an upload, and the index lookup for an instant upload.
Indexed(f) == upMd5[f] # NoHash /\ db[upNode[f]][upMd5[f]] # NoFile

\* The MD5 is not read again; forgetting it keeps the state space small.
ForgetMd5(f) == upMd5' = [upMd5 EXCEPT ![f] = NoHash]

\* The proxied request reaches node n.
RecvUpload(f, n, hdr) ==
    /\ upPc[f] = "idle"
    /\ upPc' = [upPc EXCEPT ![f] = "recv"]
    /\ upNode' = [upNode EXCEPT ![f] = n]
    /\ upMd5' = [upMd5 EXCEPT ![f] = hdr]
    /\ UNCHANGED <<disk, db, upHit, addVars, delVars>>

\* db.IsExistKey(fileHash): the index has the MD5 the client announced.
FindExisting(f) ==
    /\ upPc[f] = "recv"
    /\ Indexed(f)
    /\ upPc' = [upPc EXCEPT ![f] = "exists"]
    /\ UNCHANGED <<disk, db, upNode, upMd5, upHit, addVars, delVars>>

\* db.Get(fileHash), a second read: the reply carries what it gives now.
ReplyExisting(f) ==
    /\ upPc[f] = "exists"
    /\ upHit' = [upHit EXCEPT ![f] = db[upNode[f]][upMd5[f]]]
    /\ ForgetMd5(f)
    /\ upPc' = [upPc EXCEPT ![f] = "instant"]
    /\ UNCHANGED <<disk, db, upNode, addVars, delVars>>

\* No MD5 announced, or not one in the index: this is not looked at again.
FindNone(f) ==
    /\ upPc[f] = "recv"
    /\ ~Indexed(f)
    /\ upPc' = [upPc EXCEPT ![f] = "new"]
    /\ UNCHANGED <<disk, db, upNode, upMd5, upHit, addVars, delVars>>

\* No directory, no form file, too large, or the file cannot be created.
RejectUpload(f) ==
    /\ upPc[f] = "new"
    /\ ForgetMd5(f)
    /\ upPc' = [upPc EXCEPT ![f] = "failed"]
    /\ UNCHANGED <<disk, db, upNode, upHit, addVars, delVars>>

\* Variations: io.Copy's error is dropped, and the announced MD5 is trusted, or
\* the MD5 is that of the part that was written.
KeepTornUpload(f) ==
    /\ upPc[f] = "new"
    /\ disk' = [disk EXCEPT ![upNode[f]][f] = Torn]
    /\ upPc' = [upPc EXCEPT ![f] = "saved"]
    /\ UNCHANGED <<db, upNode, upMd5, upHit, addVars, delVars>>

HashTornUpload(f) ==
    /\ upPc[f] = "new"
    /\ disk' = [disk EXCEPT ![upNode[f]][f] = Torn]
    /\ upPc' = [upPc EXCEPT ![f] = IF upMd5[f] = NoHash THEN "saved" ELSE "damaged"]
    /\ upMd5' = [upMd5 EXCEPT ![f] = Torn]
    /\ UNCHANGED <<db, upNode, upHit, addVars, delVars>>

\* io.Copy fails, or the file cannot be opened again to be read back: the bytes
\* written so far, or all of them, stay on disk.
TearUpload(f) ==
    /\ upPc[f] = "new"
    /\ \E bytes \in {Part(ContentOf[f]), ContentOf[f]} :
           disk' = [disk EXCEPT ![upNode[f]][f] = bytes]
    /\ ForgetMd5(f)
    /\ upPc' = [upPc EXCEPT ![f] = "failed"]
    /\ UNCHANGED <<db, upNode, upHit, addVars, delVars>>

\* GenMD5 of the bytes just written: a read error is dropped and gives "".
GenMD5(f) == {ContentOf[f]} \cup (IF f \in Unreadable THEN {NoHash} ELSE {})

\* The MD5 is compared with the header, if there is one.
CheckHash(f, md5) == IF upMd5[f] \in {NoHash, md5} THEN "saved" ELSE "damaged"

\* SaveQuickUploadedFile: create, copy, read back and compare.  Nobody else knows
\* the path yet; the process's end on the way leaves what TearUpload leaves.
SaveUpload(f) ==
    /\ upPc[f] = "new"
    /\ disk' = [disk EXCEPT ![upNode[f]][f] = ContentOf[f]]
    /\ \E md5 \in GenMD5(f) :
           /\ upPc' = [upPc EXCEPT ![f] = CheckHash(f, md5)]
           /\ upMd5' = [upMd5 EXCEPT ![f] = md5]
    /\ UNCHANGED <<db, upNode, upHit, addVars, delVars>>

\* "go os.Remove(dst)": runs after the failure has been answered.
RemoveDamaged(f) ==
    /\ upPc[f] = "damaged"
    /\ disk' = [disk EXCEPT ![upNode[f]][f] = Absent]
    /\ ForgetMd5(f)
    /\ upPc' = [upPc EXCEPT ![f] = "failed"]
    /\ UNCHANGED <<db, upNode, upHit, addVars, delVars>>

\* EggDB.Put refuses an empty key; the callers drop the error.
Put(n, h, f) == IF h = NoHash THEN db ELSE [db EXCEPT ![n][h] = f]

\* db.Put(fi.Md5, fi), then the reply with the upload-success header.
IndexUpload(f) ==
    /\ upPc[f] = "saved"
    /\ db' = Put(upNode[f], upMd5[f], f)
    /\ upPc' = [upPc EXCEPT ![f] = "stored"]
    /\ UNCHANGED <<disk, upNode, upMd5, upHit, addVars, delVars>>

-----------------------------------------------------------------------------
(***************************************************************************)
(* SyncFileAdd: node n downloads f from the node that took the upload.     *)
(* The source serves it with gin's StaticFS, which opens the file twice:   *)
(* once to see that it exists (if not, a 404 without a body), then again   *)
(* in http.FileServer (if it has gone in between, a 404 with a text body). *)
(* The handler never looks at the HTTP status code.                        *)
(***************************************************************************)
\* Download, like the static files of Start, reads what is at the path.
Download(n, f) == disk[n][f]

SourceBytes(f) == Download(upNode[f], f)

AddStep(f, n, pc) == addPc' = [addPc EXCEPT ![f][n] = pc]

\* The body is the handler's; when the handler is done with it, it is gone.
ForgetBody(f, n) == addBody' = [addBody EXCEPT ![f][n] = Absent]

RecvAdd(f, n) ==
    /\ addPc[f][n] = "idle"
    /\ AddStep(f, n, "recv")
    /\ UNCHANGED <<disk, db, uploadVars, addBody, delVars>>

\* The directory cannot be made, http.Get fails, or os.Create fails.
RejectAdd(f, n) ==
    /\ addPc[f][n] \in {"recv", "fetched"}
    /\ AddStep(f, n, "failed")
    /\ ForgetBody(f, n)
    /\ UNCHANGED <<disk, db, uploadVars, delVars>>

\* The source's first open.
ProbeSource(f, n) ==
    /\ addPc[f][n] = "recv"
    /\ IF SourceBytes(f) = Absent
       THEN /\ AddStep(f, n, "fetched")
            /\ addBody' = [addBody EXCEPT ![f][n] = Empty]
       ELSE /\ AddStep(f, n, "probed")
            /\ UNCHANGED addBody
    /\ UNCHANGED <<disk, db, uploadVars, delVars>>

\* The source's second open, which fixes the bytes it will send.
OpenSource(f, n) ==
    /\ addPc[f][n] = "probed"
    /\ addBody' = [addBody EXCEPT ![f][n] =
           IF SourceBytes(f) = Absent THEN ErrorPage ELSE SourceBytes(f)]
    /\ AddStep(f, n, "fetched")
    /\ UNCHANGED <<disk, db, uploadVars, delVars>>

\* os.Create(fullPath): from here on the path exists, with no bytes.
CreateReplica(f, n) ==
    /\ addPc[f][n] = "fetched"
    /\ disk' = [disk EXCEPT ![n][f] = Empty]
    /\ AddStep(f, n, "created")
    /\ UNCHANGED <<db, uploadVars, addBody, delVars>>

\* What a copy leaves at the path: nothing, if a delete has unlinked it.
Written(f, n, bytes) == IF disk[n][f] = Absent THEN Absent ELSE bytes

\* "err != nil || l <= 0": a copy of no bytes is a failure.
CopyOutcome(f, n) == IF addBody[f][n] = Empty THEN "failed" ELSE "copied"

CopyReplica(f, n) ==
    /\ addPc[f][n] = "created"
    /\ disk' = [disk EXCEPT ![n][f] = Written(f, n, addBody[f][n])]
    /\ AddStep(f, n, CopyOutcome(f, n))
    /\ ForgetBody(f, n)
    /\ UNCHANGED <<db, uploadVars, delVars>>

\* Variation: the error of io.Copy is dropped.
IndexTornCopy(f, n) ==
    /\ addPc[f][n] = "created"
    /\ disk' = [disk EXCEPT ![n][f] = Written(f, n, Torn)]
    /\ AddStep(f, n, "stated")
    /\ ForgetBody(f, n)
    /\ UNCHANGED <<db, uploadVars, delVars>>

\* io.Copy fails half-way; the partial file stays.
TearReplica(f, n) ==
    /\ addPc[f][n] = "created"
    /\ disk' = [disk EXCEPT ![n][f] =
           Written(f, n, Part(addBody[f][n]))]
    /\ AddStep(f, n, "failed")
    /\ ForgetBody(f, n)
    /\ UNCHANGED <<db, uploadVars, delVars>>

\* os.Stat(fullPath), its error ignored: if the file has gone, info.Name()
\* panics and gin answers 500 with no body.
StatReplica(f, n) ==
    /\ addPc[f][n] = "copied"
    /\ AddStep(f, n, IF disk[n][f] = Absent THEN "failed" ELSE "stated")
    /\ UNCHANGED <<disk, db, uploadVars, addBody, delVars>>

\* db.Put(sync.FileHash, fi), the MD5 computed at the upload; then Success.
IndexReplica(f, n) ==
    /\ addPc[f][n] = "stated"
    /\ db' = Put(n, upMd5[f], f)
    /\ AddStep(f, n, "done")
    /\ UNCHANGED <<disk, uploadVars, addBody, delVars>>

-----------------------------------------------------------------------------
(***************************************************************************)
(* SyncFileDelete of request d on node n.                                  *)
(***************************************************************************)
DelStep(d, n, pc) == delPc' = [delPc EXCEPT ![d][n] = pc]

RecvDelete(d, n) ==
    /\ delPc[d][n] = "idle"
    /\ DelStep(d, n, "recv")
    /\ UNCHANGED <<disk, db, uploadVars, addVars, delFile, delHash>>

\* os.Stat: a file that is not there counts as deleted.
StatDelete(d, n) ==
    /\ delPc[d][n] = "recv"
    /\ DelStep(d, n, IF disk[n][delFile[d]] = Absent THEN "done" ELSE "stated")
    /\ UNCHANGED <<disk, db, uploadVars, addVars, delFile, delHash>>

\* Variation: only the index entry is removed.
UnindexOnly(d, n) ==
    /\ delPc[d][n] = "stated"
    /\ disk[n][delFile[d]] # Absent
    /\ DelStep(d, n, "removed")
    /\ UNCHANGED <<disk, db, uploadVars, addVars, delFile, delHash>>

\* os.Remove succeeds.
RemoveFile(d, n) ==
    /\ delPc[d][n] = "stated"
    /\ disk[n][delFile[d]] # Absent
    /\ disk' = [disk EXCEPT ![n][delFile[d]] = Absent]
    /\ DelStep(d, n, "removed")
    /\ UNCHANGED <<db, uploadVars, addVars, delFile, delHash>>

\* os.Remove fails: another delete came first, or the file system refused.
FailRemove(d, n) ==
    /\ delPc[d][n] = "stated"
    /\ DelStep(d, n, "failed")
    /\ UNCHANGED <<disk, db, uploadVars, addVars, delFile, delHash>>

\* The index entry goes only if the request names an MD5; then Success.
UnindexFile(d, n) ==
    /\ delPc[d][n] = "removed"
    /\ db' = IF delHash[d] = NoHash THEN db
             ELSE [db EXCEPT ![n][delHash[d]] = NoFile]
    /\ DelStep(d, n, "done")
    /\ UNCHANGED <<disk, uploadVars, addVars, delFile, delHash>>

-----------------------------------------------------------------------------
\* The process of node n dies and is started again: running handlers are gone
\* (their callers see a broken connection), files and index stay.
CrashStorage(n) ==
    /\ upPc' = [f \in Files |->
           IF upNode[f] = n /\ upPc[f] \in UploadRunning THEN "failed" ELSE upPc[f]]
    /\ upMd5' = [f \in Files |->
           IF upNode[f] = n /\ upPc[f] \in UploadRunning THEN NoHash ELSE upMd5[f]]
    /\ addPc' = [f \in Files |-> [m \in Nodes |->
           IF m = n /\ addPc[f][m] \in AddRunning THEN "failed" ELSE addPc[f][m]]]
    /\ addBody' = [f \in Files |-> [m \in Nodes |->
           IF m = n THEN Absent ELSE addBody[f][m]]]
    /\ delPc' = [d \in Deletes |-> [m \in Nodes |->
           IF m = n /\ delPc[d][m] \in DelRunning THEN "failed" ELSE delPc[d][m]]]
    /\ UNCHANGED <<disk, db, upNode, upHit, delFile, delHash>>

UploadStep(f) ==
    \/ FindExisting(f) \/ ReplyExisting(f) \/ FindNone(f) \/ RejectUpload(f)
    \/ TearUpload(f) \/ SaveUpload(f) \/ RemoveDamaged(f) \/ IndexUpload(f)

AddHandlerStep(f, n) ==
    \/ RejectAdd(f, n) \/ ProbeSource(f, n) \/ OpenSource(f, n)
    \/ CreateReplica(f, n) \/ CopyReplica(f, n) \/ TearReplica(f, n)
    \/ StatReplica(f, n) \/ IndexReplica(f, n)

DelHandlerStep(d, n) ==
    \/ StatDelete(d, n) \/ RemoveFile(d, n) \/ FailRemove(d, n) \/ UnindexFile(d, n)
=============================================================================
