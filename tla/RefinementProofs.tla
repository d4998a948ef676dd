-------------------------- MODULE RefinementProofs --------------------------
(***************************************************************************)
(* Proof that Replication implements ReplicatedFiles: in a state that      *)
(* satisfies IInv, every step is, as a client sees it, a step of           *)
(* ReplicatedFiles or no step at all.                                      *)
(*                                                                         *)
(* The first lemmas turn what a step does to each file into a step of      *)
(* ReplicatedFiles; the others say, action by action, which one it is.     *)
(***************************************************************************)
EXTENDS ReplicationProofs

USE DEF storageVars, uploadVars, addVars, delVars, trackerVars,
        UploadRunning, AddRunning, DelRunning, Goroutine, Actions, DiskValues, Hashes

\* What a client sees of file g does not change.
Same(g) == /\ Phase(g)' = Phase(g) /\ Whole(g)' = Whole(g)
           /\ Pending(g)' = Pending(g) /\ Copied(g)' = Copied(g)
           /\ Recorded(g)' = Recorded(g)

\* A step that changes no file a client sees is no step.
LEMMA SeenNot ==
    ASSUME members' = members, \A g \in Files : Same(g)
    PROVE  UNCHANGED RF!vars
BY DEF RF!vars, Same

\* A step that only makes more nodes serve a kept file.
LEMMA SeenGain ==
    ASSUME NEW f \in Files, NEW n \in Nodes, Phase(f) = "kept", members' = members,
           Whole(f)' = Whole(f) \cup {n},
           Phase(f)' = Phase(f), Pending(f)' = Pending(f),
           Copied(f)' = Copied(f), Recorded(f)' = Recorded(f),
           \A g \in Files \ {f} : Same(g)
    PROVE  RF!Next
<1>1. RF!Gain(f, n)
  BY DEF RF!Gain, Same
<1>. QED BY <1>1 DEF RF!Next

\* A step after which clients know f.
LEMMA SeenKeep ==
    ASSUME NEW f \in Files, Phase(f) = "unknown", Phase(f)' = "kept",
           Whole(f)' # {}, Pending(f)' \subseteq members, members' = members,
           Copied(f)' = Copied(f), Recorded(f)' = Recorded(f),
           \A g \in Files \ {f} : Same(g)
    PROVE  RF!Next
<1>1. Whole(f)' \in SUBSET Nodes /\ Pending(f)' \in SUBSET Nodes
  BY DEF Whole, Pending
<1>2. RF!Keep(f, Whole(f)', Pending(f)')
  BY DEF RF!Keep, Same
<1>. QED BY <1>1, <1>2 DEF RF!Next

\* A registration.
LEMMA JoinSeen == ASSUME IInv, NEW n \in Nodes, Join(n) PROVE RF!Next
<1>1. RF!Join(n)
  BY DEF Join, RF!Join, storageVars, Phase, Whole, Download, Pending, Copied, Recorded
<1>. QED BY <1>1 DEF RF!Next

\* A proxied upload that starts or fails, and the steps that only change what
\* goroutines and handlers wait for are not seen.
LEMMA UnseenSteps ==
    ASSUME IInv,
           \/ \E f \in Files, n \in Nodes, hdr \in Hashes : StartUpload(f, n, hdr)
           \/ \E f \in Files : AbortUpload(f)
           \/ \E f \in Files, n \in Nodes : PostSync(f, n)
           \/ \E d \in Deletes, n \in Nodes : RmStep(d, n)
           \/ \E d \in Deletes, n \in Nodes : DeleteHandler(d, n)
           \/ \E n \in CrashNodes : Crash(n)
    PROVE  UNCHANGED RF!vars
<1>1. CASE \/ \E f \in Files, n \in Nodes, hdr \in Hashes : StartUpload(f, n, hdr)
           \/ \E f \in Files : AbortUpload(f)
           \/ \E n \in CrashNodes : Crash(n)
  <2>1. UNCHANGED <<members, disk, syncPc, log, acked, asked>>
    BY <1>1 DEF StartUpload, RecvUpload, AbortUpload, Crash, CrashStorage
  <2>. QED BY <2>1, SeenNot
           DEF Same, Phase, Whole, Download, Pending, Copied, Recorded
<1>2. CASE \E f \in Files, n \in Nodes : PostSync(f, n)
  <2>1. PICK f \in Files, n \in Nodes : PostSync(f, n)
    BY <1>2
  <2>2. UNCHANGED <<members, disk, log, acked, asked>>
    BY <2>1 DEF PostSync, RecvAdd
  <2>3. \A g \in Files : Pending(g)' = Pending(g) /\ Copied(g)' = Copied(g)
    BY <2>1 DEF PostSync, SyncGo, Pending, Copied, IInv, TypeOK
  <2>. QED BY <2>2, <2>3, SeenNot DEF Same, Phase, Whole, Download, Recorded
<1>3. CASE \E d \in Deletes, n \in Nodes : RmStep(d, n)
  <2>1. PICK d \in Deletes, n \in Nodes : RmStep(d, n)
    BY <1>3
  <2>2. UNCHANGED <<members, disk, syncPc, acked, asked>>
    BY <2>1 DEF RmStep, SkipDelete, PostDelete, RecvDelete, FailDelete, ConfirmDelete
  <2>3. \A g \in Files : Recorded(g)' = Recorded(g)
    <3>1. \/ log' = log
          \/ log' = [log EXCEPT ![delFile[d]]["DELETE"] = URL(n)]
      BY <2>1 DEF RmStep, SkipDelete, PostDelete, FailDelete, ConfirmDelete, PutRecord
    <3>2. log \in [Files -> [{"ADD", "DELETE"} ->
                             {URL(m) : m \in Nodes} \cup {NoNode}]]
      BY DEF IInv, TypeOK
    <3>3. \A g \in Files : log'[g]["ADD"] = log[g]["ADD"]
      BY <3>1, <3>2
    <3>. QED BY <3>3 DEF Recorded
  <2>. QED BY <2>2, <2>3, SeenNot DEF Same, Phase, Whole, Download, Pending, Copied
<1>4. CASE \E d \in Deletes, n \in Nodes : DeleteHandler(d, n)
  <2>1. PICK d \in Deletes, n \in Nodes : DeleteHandler(d, n)
    BY <1>4
  <2>2. UNCHANGED <<members, syncPc, log, acked, asked>>
    BY <2>1 DEF DeleteHandler
  <2>3. \A g \in Files \ asked : \A m \in Nodes : disk'[m][g] = disk[m][g]
    <3>1. CASE RemoveFile(d, n)
      BY <3>1, DeleteKnown DEF RemoveFile, IInv, TypeOK, StorageTypeOK
    <3>2. CASE StatDelete(d, n) \/ FailRemove(d, n) \/ UnindexFile(d, n)
      BY <3>2 DEF StatDelete, FailRemove, UnindexFile
    <3>. QED BY <2>1, <3>1, <3>2 DEF DeleteHandler, DelHandlerStep
  <2>. QED BY <2>2, <2>3, SeenNot
           DEF Same, Phase, Whole, Download, Pending, Copied, Recorded
<1>. QED BY <1>1, <1>2, <1>3, <1>4

\* A step of an upload's handler writes only a file no client knows.
LEMMA UploadUnseen ==
    ASSUME IInv, NEW f \in Files, UploadHandler(f)
    PROVE  UNCHANGED RF!vars
<1>1. UNCHANGED <<members, syncPc, log, acked, asked>>
  BY DEF UploadHandler
<1>2. \A g \in acked : g \in Files /\ \A m \in Nodes : disk'[m][g] = disk[m][g]
  <2>1. CASE upPc[f] = "stored"
    BY <2>1 DEF UploadHandler, UploadStep, FindExisting, ReplyExisting, FindNone,
                RejectUpload, TearUpload, SaveUpload, RemoveDamaged, IndexUpload
  <2>2. CASE upPc[f] # "stored"
    <3>1. \A g \in acked : g # f /\ g \in Files
      BY <2>2 DEF IInv, TypeOK, UploadFirst
    <3>2. \A g \in Files \ {f} : \A m \in Nodes : disk'[m][g] = disk[m][g]
      BY DEF UploadHandler, UploadStep, FindExisting, ReplyExisting, FindNone, RejectUpload,
             TearUpload, SaveUpload, RemoveDamaged, IndexUpload, IInv, TypeOK,
             StorageTypeOK
    <3>. QED BY <3>1, <3>2
  <2>. QED BY <2>1, <2>2
<1>. QED BY <1>1, <1>2, SeenNot
         DEF Same, Phase, Whole, Download, Pending, Copied, Recorded

\* A SyncFileAdd only adds its node to those that serve the file whole.
LEMMA AddSeen ==
    ASSUME IInv, NEW f \in Files, NEW n \in Nodes, AddHandler(f, n)
    PROVE  RF!Next \/ UNCHANGED RF!vars
<1>1. UNCHANGED <<members, syncPc, log, acked, asked>>
  BY DEF AddHandler
<1>2. \A g \in Files, m \in Nodes :
          g # f \/ m # n => disk'[m][g] = disk[m][g]
  BY DEF AddHandler, AddHandlerStep, RejectAdd, ProbeSource, OpenSource, CreateReplica,
         CopyReplica, TearReplica, StatReplica, IndexReplica, IInv, TypeOK,
         StorageTypeOK
<1>3. f \notin asked /\ disk[n][f] = ContentOf[f] => disk'[n][f] = ContentOf[f]
  <2>1. CASE CreateReplica(f, n)
    BY <2>1, AddSource, ContentFacts
       DEF CreateReplica, FreshReplica, IInv, TypeOK, StorageTypeOK
  <2>2. CASE CopyReplica(f, n)
    BY <2>2, ContentFacts
       DEF CopyReplica, Written, ReplicaWhole, IInv, TypeOK, StorageTypeOK
  <2>3. CASE TearReplica(f, n)
    BY <2>3, ContentFacts
       DEF TearReplica, Written, Part, ReplicaWhole, FreshReplica, IInv, TypeOK,
           StorageTypeOK
  <2>4. CASE RejectAdd(f, n) \/ ProbeSource(f, n) \/ OpenSource(f, n)
             \/ StatReplica(f, n) \/ IndexReplica(f, n)
    BY <2>4 DEF RejectAdd, ProbeSource, OpenSource, StatReplica, IndexReplica
  <2>. QED BY <2>1, <2>2, <2>3, <2>4 DEF AddHandler, AddHandlerStep
<1>4. \A g \in Files : /\ Phase(g)' = Phase(g) /\ Pending(g)' = Pending(g)
                       /\ Copied(g)' = Copied(g) /\ Recorded(g)' = Recorded(g)
  BY <1>1 DEF Phase, Pending, Copied, Recorded
<1>5. \A g \in Files \ {f} : Same(g)
  BY <1>2, <1>4 DEF Same, Whole, Download
<1>6. CASE Phase(f) = "kept" /\ disk'[n][f] = ContentOf[f]
  <2>1. Whole(f)' = Whole(f) \cup {n}
    BY <1>2, <1>4, <1>6 DEF Whole, Download
  <2>. QED BY <2>1, <1>1, <1>4, <1>5, <1>6, SeenGain
<1>7. CASE Phase(f) # "kept" \/ disk'[n][f] # ContentOf[f]
  <2>1. Whole(f)' = Whole(f)
    BY <1>2, <1>3, <1>4, <1>7 DEF Whole, Download, Phase
  <2>. QED BY <2>1, <1>1, <1>4, <1>5, SeenNot DEF Same
<1>. QED BY <1>6, <1>7

\* The node that took a stored upload serves it, as soon as clients know of it.
LEMMA OriginServes ==
    ASSUME IInv, NEW f \in Files \ asked, upPc[f] = "stored"
    PROVE  upNode[f] \in {n \in Nodes : disk[n][f] = ContentOf[f]}
BY UploadNode DEF IInv, OriginWhole

\* A fan-out makes the file known, or spreads one that an instant upload found.
LEMMA FanOutSeen ==
    ASSUME IInv, NEW f \in Files, FanOut(f)
    PROVE  RF!Next \/ UNCHANGED RF!vars
<1>1. /\ UNCHANGED <<members, disk, log, asked>>
      /\ acked' = acked \cup {f} /\ proxy[f] = "open" /\ upPc[f] = "stored"
      /\ syncPc' = [syncPc EXCEPT ![f] = [n \in Nodes |->
             IF n \in members \ {upNode[f]} THEN "spawned" ELSE syncPc[f][n]]]
  BY DEF FanOut
<1>2. \A n \in Nodes : syncPc[f][n] = "idle"
  BY <1>1 DEF IInv, UploadFirst
<1>3. Pending(f) = {} /\ Copied(f) = {} /\ Copied(f)' = {}
  BY <1>1, <1>2 DEF Pending, Copied, IInv, TypeOK
<1>4. \A g \in Files \ {f} : Same(g)
  BY <1>1 DEF Same, Phase, Whole, Download, Pending, Copied, Recorded, IInv, TypeOK
<1>5. Recorded(f)' = Recorded(f) /\ Pending(f)' \subseteq members
  BY <1>1, <1>2 DEF Recorded, Pending, IInv, TypeOK
<1>6. CASE f \notin acked
  <2>1. f \notin asked
    BY <1>6 DEF IInv, UploadFirst
  <2>2. Phase(f) = "unknown" /\ Phase(f)' = "kept"
    BY <1>1, <1>6, <2>1 DEF Phase
  <2>3. Whole(f)' # {}
    BY <1>1, <2>1, <2>2, OriginServes DEF Whole, Download
  <2>. QED BY <1>1, <1>3, <1>4, <1>5, <2>2, <2>3, SeenKeep
<1>7. CASE f \in acked
  <2>1. Phase(f)' = Phase(f) /\ Phase(f) # "unknown" /\ Whole(f)' = Whole(f)
    BY <1>1, <1>7 DEF Phase, Whole, Download
  <2>2. Pending(f)' \in SUBSET Nodes
    BY DEF Pending
  <2>3. RF!Spread(f, Pending(f)')
    BY <1>1, <1>3, <1>4, <1>5, <2>1 DEF RF!Spread, Same
  <2>. QED BY <2>2, <2>3 DEF RF!Next
<1>. QED BY <1>6, <1>7

\* The reply to an instant upload makes the file that was found known.
LEMMA EndUploadSeen ==
    ASSUME IInv, NEW f \in Files, EndUpload(f)
    PROVE  RF!Next \/ UNCHANGED RF!vars
<1>1. UNCHANGED <<members, disk, log, asked, syncPc>>
  BY DEF EndUpload
<1>2. \A g \in Files : /\ Pending(g)' = Pending(g) /\ Copied(g)' = Copied(g)
                       /\ Recorded(g)' = Recorded(g)
  BY <1>1 DEF Pending, Copied, Recorded
<1>3. CASE acked' = acked
  BY <1>1, <1>2, <1>3, SeenNot DEF Same, Phase, Whole, Download
<1>4. CASE acked' # acked
  <2>1. PICK g \in Files : acked' = acked \cup {g} /\ g \notin acked /\ g = upHit[f]
    BY <1>4 DEF EndUpload, IInv, TypeOK, StorageTypeOK
  <2>2. upPc[g] = "stored" /\ g \notin asked
    BY <2>1, StorageAssumption DEF IInv, UploadFirst
  <2>3. Phase(g) = "unknown" /\ Phase(g)' = "kept"
    BY <1>1, <2>1, <2>2 DEF Phase
  <2>4. Whole(g)' # {}
    BY <1>1, <2>2, <2>3, OriginServes DEF Whole, Download
  <2>5. \A k \in Files \ {g} : Same(k)
    BY <1>1, <1>2, <2>1 DEF Same, Phase, Whole, Download
  <2>6. Pending(g)' \subseteq members
    BY <1>2, <2>1 DEF Pending, IInv, UploadFirst
  <2>. QED BY <1>1, <1>2, <2>2, <2>3, <2>4, <2>5, <2>6, SeenKeep
<1>. QED BY <1>3, <1>4

\* A goroutine of SyncFile that ends confirms the copy or puts it on record.
LEMMA SyncSeen ==
    ASSUME IInv, NEW f \in Files, NEW n \in Nodes,
           SkipSync(f, n) \/ FailSync(f, n) \/ ConfirmSync(f, n)
    PROVE  RF!Next
<1>1. /\ UNCHANGED <<members, disk, acked, asked>>
      /\ syncPc[f][n] \in {"spawned", "posted"}
  BY DEF SkipSync, FailSync, ConfirmSync
<1>2. \A g \in Files : Phase(g)' = Phase(g) /\ Whole(g)' = Whole(g)
  BY <1>1 DEF Phase, Whole, Download
<1>3. n \in Pending(f)
  BY <1>1 DEF Pending
<1>4. CASE SkipSync(f, n) \/ FailSync(f, n)
  <2>1. /\ syncPc' = [syncPc EXCEPT ![f][n] = "logged"]
        /\ log' = [log EXCEPT ![f]["ADD"] = URL(n)]
    BY <1>4 DEF SkipSync, FailSync, SyncGo, PutRecord
  <2>2. Recorded(f)' = TRUE
    BY <2>1, ReplicationAssumption DEF Recorded, IInv, TypeOK
  <2>3. Pending(f)' = Pending(f) \ {n} /\ Copied(f)' = Copied(f)
    BY <1>1, <2>1 DEF Pending, Copied, IInv, TypeOK
  <2>4. \A g \in Files \ {f} : Same(g)
    BY <1>2, <2>1 DEF Same, Pending, Copied, Recorded, IInv, TypeOK
  <2>5. RF!GiveUp(f, n)
    BY <1>1, <1>2, <1>3, <2>2, <2>3, <2>4 DEF RF!GiveUp, Same
  <2>. QED BY <2>5 DEF RF!Next
<1>5. CASE ConfirmSync(f, n)
  <2>1. /\ syncPc' = [syncPc EXCEPT ![f][n] = "ok"]
        /\ addPc[f][n] = "done" /\ log' = log
    BY <1>5 DEF ConfirmSync, SyncGo
  <2>2. Phase(f) = "kept" => n \in Whole(f)
    BY <2>1 DEF Phase, Whole, Download, ReplicaWhole, IInv
  <2>3. /\ Pending(f)' = Pending(f) \ {n} /\ Copied(f)' = Copied(f) \cup {n}
        /\ Recorded(f)' = Recorded(f)
    BY <2>1 DEF Pending, Copied, Recorded, IInv, TypeOK
  <2>4. \A g \in Files \ {f} : Same(g)
    BY <1>2, <2>1 DEF Same, Pending, Copied, Recorded, IInv, TypeOK
  <2>5. RF!Confirm(f, n)
    BY <1>1, <1>2, <1>3, <2>2, <2>3, <2>4 DEF RF!Confirm, Same
  <2>. QED BY <2>5 DEF RF!Next
<1>. QED BY <1>4, <1>5

\* The first delete of a file withdraws it; a later one is not seen.
LEMMA DeleteSeen ==
    ASSUME IInv, NEW d \in Deletes, NEW f \in Files,
           NEW h \in Hashes, Delete(d, f, h)
    PROVE  RF!Next \/ UNCHANGED RF!vars
<1>1. /\ UNCHANGED <<members, disk, log, acked, syncPc>>
      /\ asked' = asked \cup {f} /\ f \in acked
  BY DEF Delete
<1>2. \A g \in Files : /\ Pending(g)' = Pending(g) /\ Copied(g)' = Copied(g)
                       /\ Recorded(g)' = Recorded(g)
  BY <1>1 DEF Pending, Copied, Recorded
<1>3. CASE f \in asked
  BY <1>1, <1>2, <1>3, SeenNot DEF Same, Phase, Whole, Download
<1>4. CASE f \notin asked
  <2>1. Phase(f) = "kept" /\ Phase(f)' = "withdrawn" /\ Whole(f)' = {}
    BY <1>1, <1>4 DEF Phase, Whole
  <2>2. \A g \in Files \ {f} : Same(g)
    BY <1>1, <1>2 DEF Same, Phase, Whole, Download
  <2>3. RF!Withdraw(f)
    BY <1>1, <1>2, <2>1, <2>2 DEF RF!Withdraw, Same
  <2>. QED BY <2>3 DEF RF!Next
<1>. QED BY <1>3, <1>4

\* The end of the tracker's process forgets the copies it owed.
LEMMA EndProcessSeen == ASSUME IInv, members # {}, EndProcess PROVE RF!Next
<1>1. members' = {} /\ UNCHANGED <<disk, log, acked, asked>>
  BY DEF EndProcess
<1>2. \A g \in Files : Pending(g)' = {} /\ Copied(g)' = Copied(g)
  BY DEF EndProcess, Pending, Copied, IInv, TypeOK
<1>3. RF!Forget
  BY <1>1, <1>2 DEF RF!Forget, Phase, Whole, Download, Recorded
<1>. QED BY <1>3 DEF RF!Next

\* Every step of Replication is a step of ReplicatedFiles or none.
LEMMA StepSeen == ASSUME IInv, [Next]_vars PROVE [RF!Next]_(RF!vars)
<1>1. CASE TrackerNext
  <2>1. CASE \E f \in Files : FanOut(f) \/ EndUpload(f) \/ AbortUpload(f)
    BY <2>1, FanOutSeen, EndUploadSeen, UnseenSteps
  <2>2. CASE \E f \in Files, n \in Nodes : SyncStep(f, n)
    BY <2>2, SyncSeen, UnseenSteps DEF SyncStep
  <2>3. CASE \E d \in Deletes, f \in Files, h \in Hashes : Delete(d, f, h)
    BY <2>3, DeleteSeen
  <2>4. CASE CrashTracker \/ RepairSyncFail
    BY <2>4, EndProcessSeen DEF CrashTracker, RepairSyncFail
  <2>5. CASE \E n \in Nodes : Join(n)
    BY <2>5, JoinSeen
  <2>. QED BY <1>1, <2>1, <2>2, <2>3, <2>4, <2>5, UnseenSteps DEF TrackerNext
<1>2. CASE StorageNext
  BY <1>2, UploadUnseen, AddSeen, UnseenSteps DEF StorageNext
<1>3. CASE UNCHANGED vars
  BY <1>3, SeenNot
     DEF vars, Same, Phase, Whole, Download, Pending, Copied, Recorded
<1>. QED BY <1>1, <1>2, <1>3 DEF Next

\* The program starts as ReplicatedFiles does.
LEMMA InitSeen == Init => RF!Init
<1>. SUFFICES ASSUME Init PROVE RF!Init
  OBVIOUS
<1>1. \A f \in Files : Phase(f) = "unknown" /\ Whole(f) = {}
  BY DEF Init, Phase, Whole
<1>2. \A f \in Files : Pending(f) = {} /\ Copied(f) = {}
  BY DEF Init, Pending, Copied
<1>3. \A f \in Files : Recorded(f) = FALSE
  BY DEF Init, Recorded
<1>4. members = {}
  BY DEF Init
<1>. QED BY <1>1, <1>2, <1>3, <1>4 DEF RF!Init

\* Replication implements ReplicatedFiles: with any uploads, copies, deletes and
\* crashes, a node that serves a known file whole goes on serving it until its
\* delete, and every copy is confirmed whole or put on record (tracker.go:344).
THEOREM Refinement == Spec => KeepsPromises
<1>1. IInv /\ [Next]_vars => [RF!Next]_(RF!vars)
  BY StepSeen
<1>. QED BY <1>1, InitSeen, Inductive, PTL DEF Spec, KeepsPromises, RF!Spec
=============================================================================
