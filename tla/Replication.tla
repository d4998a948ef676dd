---------------------------- MODULE Replication ----------------------------
(***************************************************************************)
(* Replication by one eggdfs tracker of one group (svc/tracker.go): the    *)
(* proxied upload and its fan-out, one SyncFile goroutine per file and     *)
(* destination, the Delete handler and its goroutines, the sync-err log    *)
(* and the RepairSyncFail timer, over the storage nodes of Storage.        *)
(*                                                                         *)
(* The group view is reduced to the set of registered members: whether a   *)
(* goroutine finds its destination Active when it looks is a free choice   *)
(* here, since reports, aging and proxy errors can set it either way.      *)
(***************************************************************************)
EXTENDS Storage

\* Environment: what can end the tracker's process in the time a run looks at,
\* a kill from outside or its own half-hourly repair.
CONSTANT TrackerEnds

\* A record's Dst and Src are URLs, "schema://addr"; storages are registered by
\* address.
URL(n) == <<"http", n>>

ASSUME ReplicationAssumption ==
    /\ TrackerEnds \subseteq {"kill", "repair"}
    /\ \A n \in Nodes : URL(n) # NoNode

VARIABLES
    members,     \* storages the tracker has registered (lost with its process)
    proxy,       \* proxy[f]: is the tracker waiting for the upload's reply?
    syncPc,      \* syncPc[f][n]: the goroutine that has n copy f
    rmPc,        \* rmPc[d][n]: the goroutine that has n delete d's file
    log,         \* log[f][a]: the Dst in the record "f@a", in leveldb
    acked,       \* files some client was told of
    asked,       \* files some client asked to delete
    racing       \* history: the nodes still unsettled for d's file at Delete(d)

trackerVars == <<members, proxy, syncPc, rmPc, log, acked, asked, racing>>
vars == <<storageVars, trackerVars>>

Actions == {"ADD", "DELETE"}
Goroutine == {"idle", "spawned", "posted", "ok", "logged", "lost"}

TypeOK ==
    /\ StorageTypeOK
    /\ members \in SUBSET Nodes
    /\ proxy \in [Files -> {"idle", "open", "closed"}]
    /\ syncPc \in [Files -> [Nodes -> Goroutine]]
    /\ rmPc \in [Deletes -> [Nodes -> Goroutine]]
    /\ log \in [Files -> [Actions -> {URL(n) : n \in Nodes} \cup {NoNode}]]
    /\ acked \in SUBSET Files
    /\ asked \in SUBSET Files
    /\ racing \in [Deletes -> SUBSET Nodes]

Init ==
    /\ StorageInit
    /\ members = {}
    /\ proxy = [f \in Files |-> "idle"]
    /\ syncPc = [f \in Files |-> [n \in Nodes |-> "idle"]]
    /\ rmPc = [d \in Deletes |-> [n \in Nodes |-> "idle"]]
    /\ log = [f \in Files |-> [a \in Actions |-> NoNode]]
    /\ acked = {}
    /\ asked = {}
    /\ racing = [d \in Deletes |-> {}]

\* A storage's first report registers it.
Join(n) ==
    /\ n \notin members
    /\ members' = members \cup {n}
    /\ UNCHANGED <<storageVars, proxy, syncPc, rmPc, log, acked, asked, racing>>

-----------------------------------------------------------------------------
(***************************************************************************)
(* Tracker.QuickUpload: choose an Active storage, proxy the request, and   *)
(* on a reply with the success header start one goroutine per other member.*)
(***************************************************************************)
StartUpload(f, n, hdr) ==
    /\ proxy[f] = "idle"
    /\ n \in members
    /\ proxy' = [proxy EXCEPT ![f] = "open"]
    /\ RecvUpload(f, n, hdr)
    /\ UNCHANGED <<members, syncPc, rmPc, log, acked, asked, racing>>

\* The success header came back.
FanOut(f) ==
    /\ proxy[f] = "open"
    /\ upPc[f] = "stored"
    /\ proxy' = [proxy EXCEPT ![f] = "closed"]
    /\ syncPc' = [syncPc EXCEPT ![f] = [n \in Nodes |->
           IF n \in members \ {upNode[f]} THEN "spawned" ELSE syncPc[f][n]]]
    /\ acked' = acked \cup {f}
    /\ UNCHANGED <<storageVars, members, rmPc, log, asked, racing>>

\* Variation: the success header is not looked at.
AckAnyReply(f) ==
    /\ proxy[f] = "open"
    /\ upPc[f] \in {"failed", "damaged", "instant"}
    /\ proxy' = [proxy EXCEPT ![f] = "closed"]
    /\ acked' = acked \cup {f}
    /\ UNCHANGED <<storageVars, members, syncPc, rmPc, log, asked, racing>>

\* A reply without it: a failure, or an instant upload, whose reply names
\* the file found in the index.
EndUpload(f) ==
    /\ proxy[f] = "open"
    /\ upPc[f] \in {"failed", "damaged", "instant"}
    /\ proxy' = [proxy EXCEPT ![f] = "closed"]
    /\ acked' = IF upPc[f] = "instant" THEN acked \cup ({upHit[f]} \ {NoFile})
                ELSE acked
    /\ UNCHANGED <<storageVars, members, syncPc, rmPc, log, asked, racing>>

\* AbortErrorHandler: the connection fails or the client leaves.  Nothing is
\* fanned out, although the storage may be about to keep the file.
AbortUpload(f) ==
    /\ proxy[f] = "open"
    /\ proxy' = [proxy EXCEPT ![f] = "closed"]
    /\ UNCHANGED <<storageVars, members, syncPc, rmPc, log, acked, asked, racing>>

-----------------------------------------------------------------------------
(***************************************************************************)
(* SyncFile.  The record's key is FileName@Action: it does not name the    *)
(* destination, so a later failure replaces an earlier one.                *)
(***************************************************************************)
\* Variation: the record is not written.
PutNothing(f, a, n) == log

PutRecord(f, a, n) == [log EXCEPT ![f][a] = URL(n)]

SyncGo(f, n, pc) == syncPc' = [syncPc EXCEPT ![f][n] = pc]

\* The destination is not Active, or the connection is refused.
SkipSync(f, n) ==
    /\ syncPc[f][n] = "spawned"
    /\ SyncGo(f, n, "logged")
    /\ log' = PutRecord(f, "ADD", n)
    /\ UNCHANGED <<storageVars, members, proxy, rmPc, acked, asked, racing>>

PostSync(f, n) ==
    /\ syncPc[f][n] = "spawned"
    /\ SyncGo(f, n, "posted")
    /\ RecvAdd(f, n)
    /\ UNCHANGED <<members, proxy, rmPc, log, acked, asked, racing>>

\* Variation: HttpPost without a timeout.
AwaitReply(f, n) ==
    /\ syncPc[f][n] = "posted"
    /\ addPc[f][n] = "failed"
    /\ SyncGo(f, n, "logged")
    /\ log' = PutRecord(f, "ADD", n)
    /\ UNCHANGED <<storageVars, members, proxy, rmPc, acked, asked, racing>>

\* A reply that is not Success, an empty or broken one, or the 30s timeout,
\* which can also overtake a handler that is still running or has succeeded.
FailSync(f, n) ==
    /\ syncPc[f][n] = "posted"
    /\ SyncGo(f, n, "logged")
    /\ log' = PutRecord(f, "ADD", n)
    /\ UNCHANGED <<storageVars, members, proxy, rmPc, acked, asked, racing>>

\* Variation: the reply's status is not looked at.
ConfirmAnyReply(f, n) ==
    /\ syncPc[f][n] = "posted"
    /\ addPc[f][n] \in {"done", "failed"}
    /\ SyncGo(f, n, "ok")
    /\ UNCHANGED <<storageVars, members, proxy, rmPc, log, acked, asked, racing>>

ConfirmSync(f, n) ==
    /\ syncPc[f][n] = "posted"
    /\ addPc[f][n] = "done"
    /\ SyncGo(f, n, "ok")
    /\ UNCHANGED <<storageVars, members, proxy, rmPc, log, acked, asked, racing>>

-----------------------------------------------------------------------------
(***************************************************************************)
(* Tracker.Delete: "deleted" is answered at once, and one goroutine per    *)
(* member carries it out.  (With no member the group is unknown and the    *)
(* handler panics before it has done anything.)                            *)
(***************************************************************************)
\* Nothing the tracker or node n has under way can still write f on n.
Settled(f, n) ==
    /\ proxy[f] = "closed"
    /\ syncPc[f][n] # "spawned"
    /\ addPc[f][n] \notin AddRunning

Delete(d, f, h) ==
    /\ delFile[d] = NoFile
    /\ f \in acked
    /\ members # {}
    /\ delFile' = [delFile EXCEPT ![d] = f]
    /\ delHash' = [delHash EXCEPT ![d] = h]
    /\ rmPc' = [rmPc EXCEPT ![d] = [n \in Nodes |->
           IF n \in members THEN "spawned" ELSE rmPc[d][n]]]
    /\ asked' = asked \cup {f}
    /\ racing' = [racing EXCEPT ![d] = {n \in Nodes : ~Settled(f, n)}]
    /\ UNCHANGED <<disk, db, uploadVars, addVars, delPc>>
    /\ UNCHANGED <<members, proxy, syncPc, log, acked>>

RmGo(d, n, pc) == rmPc' = [rmPc EXCEPT ![d][n] = pc]

\* The destination is Offline, or the connection is refused.
SkipDelete(d, n) ==
    /\ rmPc[d][n] = "spawned"
    /\ RmGo(d, n, "logged")
    /\ log' = PutRecord(delFile[d], "DELETE", n)
    /\ UNCHANGED <<storageVars, members, proxy, syncPc, acked, asked, racing>>

PostDelete(d, n) ==
    /\ rmPc[d][n] = "spawned"
    /\ RmGo(d, n, "posted")
    /\ RecvDelete(d, n)
    /\ UNCHANGED <<members, proxy, syncPc, log, acked, asked, racing>>

\* An error, a reply that is not Success, or the 10s timeout.
FailDelete(d, n) ==
    /\ rmPc[d][n] = "posted"
    /\ RmGo(d, n, "logged")
    /\ log' = PutRecord(delFile[d], "DELETE", n)
    /\ UNCHANGED <<storageVars, members, proxy, syncPc, acked, asked, racing>>

ConfirmDelete(d, n) ==
    /\ rmPc[d][n] = "posted"
    /\ delPc[d][n] = "done"
    /\ RmGo(d, n, "ok")
    /\ UNCHANGED <<storageVars, members, proxy, syncPc, log, acked, asked, racing>>

-----------------------------------------------------------------------------
\* The tracker's process ends: registrations, proxied requests and goroutines
\* are gone; the sync-err log and whatever the storages are doing stay.
EndProcess ==
    /\ members' = {}
    /\ proxy' = [f \in Files |-> IF proxy[f] = "open" THEN "closed" ELSE proxy[f]]
    /\ syncPc' = [f \in Files |-> [n \in Nodes |->
           IF syncPc[f][n] \in {"spawned", "posted"} THEN "lost" ELSE syncPc[f][n]]]
    /\ rmPc' = [d \in Deletes |-> [n \in Nodes |->
           IF rmPc[d][n] \in {"spawned", "posted"} THEN "lost" ELSE rmPc[d][n]]]
    /\ UNCHANGED <<storageVars, log, acked, asked, racing>>

CrashTracker == "kill" \in TrackerEnds /\ members # {} /\ EndProcess

GetStorage(key) == IF key \in members THEN key ELSE NoNode

\* RepairSyncFail: for the first record of a registered group GetStorage(Dst)
\* is nil, reading its Status panics, and a cron job's panic ends the process.
\* The rest of the loop (the POST and the removal of the record) is not reached.
RepairSyncFail ==
    \E f \in Files, a \in Actions :
        /\ "repair" \in TrackerEnds
        /\ log[f][a] # NoNode
        /\ members # {}
        /\ GetStorage(log[f][a]) = NoNode
        /\ EndProcess

SyncStep(f, n) ==
    SkipSync(f, n) \/ PostSync(f, n) \/ FailSync(f, n) \/ ConfirmSync(f, n)

RmStep(d, n) ==
    SkipDelete(d, n) \/ PostDelete(d, n) \/ FailDelete(d, n) \/ ConfirmDelete(d, n)

TrackerNext ==
    \/ \E n \in Nodes : Join(n)
    \/ \E f \in Files, n \in Nodes, hdr \in Hashes : StartUpload(f, n, hdr)
    \/ \E f \in Files : FanOut(f) \/ EndUpload(f) \/ AbortUpload(f)
    \/ \E f \in Files, n \in Nodes : SyncStep(f, n)
    \/ \E d \in Deletes, f \in Files, h \in Hashes : Delete(d, f, h)
    \/ \E d \in Deletes, n \in Nodes : RmStep(d, n)
    \/ CrashTracker
    \/ RepairSyncFail

\* The handlers of Storage leave the tracker's state alone.
UploadHandler(f)    == UploadStep(f) /\ UNCHANGED trackerVars
AddHandler(f, n)    == AddHandlerStep(f, n) /\ UNCHANGED trackerVars
DeleteHandler(d, n) == DelHandlerStep(d, n) /\ UNCHANGED trackerVars
Crash(n)            == CrashStorage(n) /\ UNCHANGED trackerVars

StorageNext ==
    \/ \E f \in Files : UploadHandler(f)
    \/ \E f \in Files, n \in Nodes : AddHandler(f, n)
    \/ \E d \in Deletes, n \in Nodes : DeleteHandler(d, n)
    \/ \E n \in CrashNodes : Crash(n)

Next == TrackerNext \/ StorageNext

Spec == Init /\ [][Next]_vars

-----------------------------------------------------------------------------
(***************************************************************************)
(* Fairness.  A goroutine that can run is run by Go's scheduler, and every *)
(* HttpPost has a timeout, so FailSync and FailDelete end any wait.        *)
(* StorageFairness adds that storages report every five seconds, that a    *)
(* running handler goes on, that replies arrive and that the repair timer  *)
(* fires.  Nothing is assumed of clients, of crashes, or of which outcome  *)
(* a step has.                                                             *)
(***************************************************************************)
GoroutineFairness ==
    /\ \A f \in Files, n \in Nodes : WF_vars(SyncStep(f, n))
    /\ \A d \in Deletes, n \in Nodes : WF_vars(RmStep(d, n))

StorageFairness ==
    /\ \A n \in Nodes : WF_vars(Join(n))
    /\ \A f \in Files : WF_vars(UploadHandler(f)) /\ WF_vars(FanOut(f) \/ EndUpload(f))
    /\ \A f \in Files, n \in Nodes : WF_vars(AddHandler(f, n))
    /\ \A d \in Deletes, n \in Nodes : WF_vars(DeleteHandler(d, n))
    /\ WF_vars(RepairSyncFail)

FairSpec   == Spec /\ GoroutineFairness
RepairSpec == FairSpec /\ StorageFairness

-----------------------------------------------------------------------------
(***************************************************************************)
(* Safety.                                                                 *)
(***************************************************************************)

\* Whatever crashes, torn copies, timeouts and concurrent requests there are,
\* an entry of a node's index leads to the complete file with that MD5 on that
\* node, as long as nobody has asked to delete the file: an instant upload
\* (storage.go:70) never points at a missing, partial or foreign file.
IndexSound ==
    \A n \in Nodes, h \in Contents :
        LET f == db[n][h] IN
        f # NoFile /\ f \notin asked => disk[n][f] = h /\ ContentOf[f] = h

\* The tracker's books are right: every member an upload was fanned out to is
\* still being copied to, or confirmed and then really has the whole file, or
\* failed and the file is on the sync-err log, or its goroutine died with the
\* tracker; only a delete can take a confirmed copy away (tracker.go:333), and a
\* failed delete is on the log as well (tracker.go:381).
SyncAccounted ==
    /\ \A f \in Files, n \in Nodes :
           /\ syncPc[f][n] = "ok" => f \in asked \/ disk[n][f] = ContentOf[f]
           /\ syncPc[f][n] = "logged" => log[f]["ADD"] # NoNode
    /\ \A d \in Deletes, n \in Nodes :
           rmPc[d][n] = "logged" => log[delFile[d]]["DELETE"] # NoNode

\* A delete that node n has carried out, and that found no copy of the file to n
\* still under way when it was issued, stays effective: no late SyncFileAdd,
\* slow upload or later request brings the file back on n (storage.go:340).
DeleteSticks ==
    \A d \in Deletes, n \in Nodes :
        /\ delPc[d][n] \in {"removed", "done"} /\ n \notin racing[d]
              => disk[n][delFile[d]] = Absent
        /\ rmPc[d][n] = "ok" => delPc[d][n] = "done"

\* A file some client knows is complete on the node that took the upload until a
\* delete is asked for, however that upload's proxied request ended: a client is
\* never told of a file that was not kept (storage.go:147, tracker.go:299).
AckedFileKept ==
    \A f \in acked \ asked : disk[upNode[f]][f] = ContentOf[f]

-----------------------------------------------------------------------------
(***************************************************************************)
(* What a client sees of this, and what ReplicatedFiles promises of it.    *)
(***************************************************************************)
Phase(f) == IF f \in asked THEN "withdrawn"
            ELSE IF f \in acked THEN "kept" ELSE "unknown"

Whole(f) == {n \in Nodes : Phase(f) = "kept" /\ Download(n, f) = ContentOf[f]}

Pending(f)  == {n \in Nodes : syncPc[f][n] \in {"spawned", "posted"}}
Copied(f)   == {n \in Nodes : syncPc[f][n] = "ok"}
Recorded(f) == log[f]["ADD"] # NoNode

RF == INSTANCE ReplicatedFiles WITH
    members  <- members,
    phase    <- [f \in Files |-> Phase(f)],
    whole    <- [f \in Files |-> Whole(f)],
    pending  <- [f \in Files |-> Pending(f)],
    copied   <- [f \in Files |-> Copied(f)],
    recorded <- [f \in Files |-> Recorded(f)]

\* Uploads, copies, deletes, instant uploads, crashes and the tracker's end,
\* interleaved in any way, show a client nothing that ReplicatedFiles excludes:
\* in particular no node that serves a known file ever stops serving it, or
\* serves only a part of it, until a delete is asked for (storage.go:303).
KeepsPromises == RF!Spec

-----------------------------------------------------------------------------
(***************************************************************************)
(* The inductive invariant behind these: who knows what, in which order.   *)
(***************************************************************************)

\* A file is fanned out, known to clients, found in an index or asked to be
\* deleted only after the storage that took it has kept and indexed it.
UploadFirst ==
    /\ \A f \in Files : upPc[f] = "idle" <=> upNode[f] = NoNode
    /\ \A f \in Files : upPc[f] = "exists" => upMd5[f] # NoHash
    /\ \A f \in acked : upPc[f] = "stored"
    /\ \A f \in Files : upHit[f] # NoFile => upPc[upHit[f]] = "stored"
    /\ asked \subseteq acked
    /\ \A f \in Files, n \in Nodes : syncPc[f][n] # "idle" =>
           upPc[f] = "stored" /\ n # upNode[f] /\ proxy[f] = "closed" /\ f \in acked
    /\ \A n \in Nodes, h \in Contents :
           db[n][h] # NoFile => upPc[db[n][h]] = "stored"
    /\ \A f \in Files : upPc[f] \in {"saved", "stored"} =>
           upMd5[f] \in {NoHash, ContentOf[f]}

\* A handler runs only for a goroutine that has posted its request.
PostFirst ==
    /\ \A f \in Files, n \in Nodes :
           /\ syncPc[f][n] \in {"idle", "spawned"} => addPc[f][n] = "idle"
           /\ syncPc[f][n] = "ok" => addPc[f][n] = "done"
    /\ \A d \in Deletes, n \in Nodes :
           /\ rmPc[d][n] \in {"idle", "spawned"} => delPc[d][n] = "idle"
           /\ rmPc[d][n] = "ok" => delPc[d][n] = "done"
           /\ rmPc[d][n] # "idle" => delFile[d] # NoFile
    /\ \A d \in Deletes : delFile[d] # NoFile => delFile[d] \in asked

\* Until a delete is asked for, the node that took the upload has it whole.
OriginWhole ==
    \A f \in Files \ asked :
        upPc[f] \in {"saved", "stored"} => disk[upNode[f]][f] = ContentOf[f]

\* Until then, a SyncFileAdd has the right bytes in hand, then on disk.
ReplicaWhole ==
    \A f \in Files \ asked, n \in Nodes :
        /\ addPc[f][n] \in {"fetched", "created"} => addBody[f][n] = ContentOf[f]
        /\ addPc[f][n] = "created" => disk[n][f] # Absent
        /\ addPc[f][n] \in {"copied", "stated", "done"} => disk[n][f] = ContentOf[f]

\* A file's replica is written by its one SyncFileAdd and by nothing else.
FreshReplica ==
    \A f \in Files, n \in Nodes :
        /\ n # upNode[f] /\ addPc[f][n] \in {"idle", "recv", "probed", "fetched"}
               => disk[n][f] = Absent
        /\ addPc[f][n] = "created" => disk[n][f] \in {Empty, Absent}

\* An index entry was made by the upload, or by a SyncFileAdd that succeeded.
IndexMadeBy ==
    \A n \in Nodes, h \in Contents :
        LET f == db[n][h] IN
        f # NoFile => ContentOf[f] = h /\ (n = upNode[f] \/ addPc[f][n] = "done")

\* A file that was settled on n when its delete was issued stays settled.
StaysSettled ==
    \A d \in Deletes, n \in Nodes :
        delFile[d] # NoFile /\ n \notin racing[d] => Settled(delFile[d], n)

LogKept ==
    /\ \A f \in Files, n \in Nodes :
           syncPc[f][n] = "logged" => log[f]["ADD"] # NoNode
    /\ \A d \in Deletes, n \in Nodes :
           rmPc[d][n] = "logged" => log[delFile[d]]["DELETE"] # NoNode

IInv ==
    /\ TypeOK
    /\ UploadFirst
    /\ PostFirst
    /\ OriginWhole
    /\ ReplicaWhole
    /\ FreshReplica
    /\ IndexMadeBy
    /\ StaysSettled
    /\ DeleteSticks
    /\ LogKept

-----------------------------------------------------------------------------
(***************************************************************************)
(* Liveness.                                                               *)
(***************************************************************************)

\* Every goroutine an upload or a delete starts comes to an end: its request is
\* confirmed, or recorded on the log, or it dies with the tracker; none waits for
\* a storage that never answers (tracker.go:344, tracker.go:401).
GoroutinesSettle ==
    /\ \A f \in Files, n \in Nodes :
           syncPc[f][n] = "spawned" ~> syncPc[f][n] \in {"ok", "logged", "lost"}
    /\ \A d \in Deletes, n \in Nodes :
           rmPc[d][n] = "spawned" ~> rmPc[d][n] \in {"ok", "logged", "lost"}

-----------------------------------------------------------------------------
(***************************************************************************)
(* What the documentation leads one to expect and the code does not do.    *)
(***************************************************************************)

\* The reply "the file already exists, instant upload succeeded"
\* (storage.go:75) is given only when the node has a file with that MD5; a reply
\* given while a delete is running on the node is not held against it.
InstantUploadTrue ==
    [][\A f \in Files :
           /\ upPc[f] = "exists" /\ upPc'[f] = "instant"
           /\ \A d \in Deletes : delPc[d][upNode[f]] \notin DelRunning
           =>
               /\ upHit'[f] # NoFile
               /\ disk[upNode[f]][upHit'[f]] = upMd5[f]]_vars

\* "Replicas are saved and deleted in step" (README.md:17): when every goroutine
\* of a file's deletes has been confirmed and none of its copies is under way,
\* no node keeps the content.
DeletedEverywhere ==
    \A d \in Deletes :
        LET f == delFile[d] IN
        /\ f # NoFile
        /\ \A n \in Nodes : rmPc[d][n] \in {"idle", "ok"}
        /\ \A n \in Nodes : syncPc[f][n] \in {"idle", "ok"}
        /\ \A n \in Nodes : addPc[f][n] \notin AddRunning
        => \A n \in Nodes : disk[n][f] # ContentOf[f]

\* The sync-err log (tracker.go:28) names every destination that is missing.
EveryFailureOnLog ==
    \A f \in Files, n \in Nodes :
        syncPc[f][n] = "logged" => log[f]["ADD"] = URL(n)

\* RepairSyncFail (tracker.go:82) works the log off: a file whose copy failed
\* is eventually on its destination, or deleted.
RepairHeals ==
    \A f \in Files, n \in Nodes :
        syncPc[f][n] = "logged" ~> disk[n][f] = ContentOf[f] \/ f \in asked
=============================================================================
