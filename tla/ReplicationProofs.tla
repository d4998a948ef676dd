------------------------- MODULE ReplicationProofs -------------------------
(***************************************************************************)
(* Proofs about Replication: IInv is an invariant for any set of nodes,    *)
(* files, deletes and contents, any crashes of nodes and any end of the    *)
(* tracker, and the safety properties of Replication follow from it.       *)
(*                                                                         *)
(* One lemma per action shows that the action keeps IInv, conjunct by      *)
(* conjunct; conjuncts whose variables the action leaves alone share the   *)
(* last step.                                                              *)
(***************************************************************************)
EXTENDS Replication, TLAPS

\* Tuples of variables and sets of values are always expanded.
USE DEF storageVars, uploadVars, addVars, delVars, trackerVars,
        UploadRunning, AddRunning, DelRunning, Goroutine, Actions, DiskValues, Hashes

\* Uploaded bytes, the zero-length file included, are not "no such file".
LEMMA ContentFacts ==
    /\ Empty # Absent
    /\ \A f \in Files : ContentOf[f] \in Contents /\ ContentOf[f] # Absent
BY StorageAssumption

\* An upload that has begun has reached a node.
LEMMA UploadNode ==
    ASSUME IInv, NEW f \in Files, upPc[f] # "idle"
    PROVE  upNode[f] \in Nodes
BY DEF IInv, TypeOK, StorageTypeOK, UploadFirst

\* A SyncFileAdd that has begun copies a stored upload, from another node.
LEMMA AddSource ==
    ASSUME IInv, NEW f \in Files, NEW n \in Nodes, addPc[f][n] # "idle"
    PROVE  /\ upPc[f] = "stored" /\ upNode[f] \in Nodes /\ n # upNode[f]
           /\ proxy[f] = "closed" /\ syncPc[f][n] # "spawned"
<1>1. syncPc[f][n] \notin {"idle", "spawned"}
  BY DEF IInv, TypeOK, PostFirst
<1>. QED BY <1>1, UploadNode DEF IInv, UploadFirst

\* A SyncFileDelete that has begun is about a stored file, and was asked for.
LEMMA DeleteKnown ==
    ASSUME IInv, NEW d \in Deletes, NEW n \in Nodes, delPc[d][n] # "idle"
    PROVE  /\ delFile[d] \in asked /\ delFile[d] \in Files
           /\ upPc[delFile[d]] = "stored" /\ upNode[delFile[d]] \in Nodes
<1>1. rmPc[d][n] \notin {"idle", "spawned"}
  BY DEF IInv, TypeOK, PostFirst
<1>2. delFile[d] \in asked
  BY <1>1 DEF IInv, PostFirst
<1>. QED BY <1>2, UploadNode DEF IInv, TypeOK, StorageTypeOK, UploadFirst

-----------------------------------------------------------------------------
(* The tracker's steps keep the invariant. *)

\* A registration keeps IInv.
LEMMA JoinKeeps ==
    ASSUME IInv, NEW n \in Nodes, Join(n)
    PROVE  IInv'
<1>1. TypeOK'
  BY DEF IInv, TypeOK, StorageTypeOK, Join
<1>2. (UploadFirst /\ PostFirst /\ OriginWhole /\ ReplicaWhole
       /\ IndexMadeBy /\ StaysSettled /\ DeleteSticks /\ LogKept /\ FreshReplica)'
  BY DEF IInv, FreshReplica, UploadFirst, PostFirst, OriginWhole, ReplicaWhole,
      IndexMadeBy,
      StaysSettled, DeleteSticks, LogKept, Settled, Join
<1>. QED BY <1>1, <1>2 DEF IInv

\* A proxied upload keeps IInv.
LEMMA StartUploadKeeps ==
    ASSUME IInv, NEW f \in Files, NEW n \in Nodes, NEW hdr \in Hashes,
        StartUpload(f, n, hdr)
    PROVE  IInv'
<1>1. TypeOK'
  BY DEF IInv, TypeOK, StorageTypeOK, StartUpload, RecvUpload
<1>2. UploadFirst'
  BY StorageAssumption DEF IInv, TypeOK, StorageTypeOK, UploadFirst,
      StartUpload, RecvUpload
<1>3. OriginWhole'
  BY DEF IInv, TypeOK, StorageTypeOK, OriginWhole, StartUpload, RecvUpload
<1>4. IndexMadeBy'
  BY DEF IInv, TypeOK, StorageTypeOK, IndexMadeBy, UploadFirst, StartUpload,
      RecvUpload
<1>5. StaysSettled'
  BY DEF IInv, TypeOK, StorageTypeOK, StaysSettled, Settled, StartUpload,
      RecvUpload
<1>6. (PostFirst /\ ReplicaWhole /\ DeleteSticks /\ LogKept)'
  BY DEF IInv, PostFirst, ReplicaWhole, DeleteSticks, LogKept, StartUpload,
      RecvUpload
<1>7. FreshReplica'
  BY StorageAssumption DEF IInv, TypeOK, StorageTypeOK, FreshReplica, UploadFirst,
      StartUpload, RecvUpload
<1>. QED BY <1>1, <1>2, <1>3, <1>4, <1>5, <1>6, <1>7 DEF IInv

\* The fan-out of a stored upload keeps IInv.
LEMMA FanOutKeeps ==
    ASSUME IInv, NEW f \in Files, FanOut(f)
    PROVE  IInv'
<1>1. TypeOK'
  BY DEF IInv, TypeOK, StorageTypeOK, FanOut
<1>2. UploadFirst'
  BY DEF IInv, TypeOK, StorageTypeOK, UploadFirst, FanOut
<1>3. PostFirst'
  BY DEF IInv, TypeOK, StorageTypeOK, PostFirst, UploadFirst, FanOut
<1>4. StaysSettled'
  BY DEF IInv, TypeOK, StorageTypeOK, StaysSettled, Settled, FanOut
<1>5. LogKept'
  BY DEF IInv, TypeOK, StorageTypeOK, LogKept, FanOut
<1>6. (OriginWhole /\ ReplicaWhole /\ IndexMadeBy /\ DeleteSticks /\ FreshReplica)'
  BY DEF IInv, FreshReplica, OriginWhole, ReplicaWhole, IndexMadeBy, DeleteSticks,
      FanOut
<1>. QED BY <1>1, <1>2, <1>3, <1>4, <1>5, <1>6 DEF IInv

\* A reply without the success header keeps IInv.
LEMMA EndUploadKeeps ==
    ASSUME IInv, NEW f \in Files, EndUpload(f)
    PROVE  IInv'
<1>1. TypeOK'
  BY DEF IInv, TypeOK, StorageTypeOK, EndUpload
<1>2. UploadFirst'
  BY DEF IInv, TypeOK, StorageTypeOK, UploadFirst, EndUpload
<1>3. StaysSettled'
  BY DEF IInv, TypeOK, StorageTypeOK, StaysSettled, Settled, EndUpload
<1>4. (PostFirst /\ OriginWhole /\ ReplicaWhole /\ IndexMadeBy
       /\ DeleteSticks /\ LogKept /\ FreshReplica)'
  BY DEF IInv, FreshReplica, PostFirst, OriginWhole, ReplicaWhole, IndexMadeBy,
      DeleteSticks, LogKept, EndUpload
<1>. QED BY <1>1, <1>2, <1>3, <1>4 DEF IInv

\* A proxy error keeps IInv.
LEMMA AbortUploadKeeps ==
    ASSUME IInv, NEW f \in Files, AbortUpload(f)
    PROVE  IInv'
<1>1. TypeOK'
  BY DEF IInv, TypeOK, StorageTypeOK, AbortUpload
<1>2. UploadFirst'
  BY DEF IInv, TypeOK, StorageTypeOK, UploadFirst, AbortUpload
<1>3. StaysSettled'
  BY DEF IInv, TypeOK, StorageTypeOK, StaysSettled, Settled, AbortUpload
<1>4. (PostFirst /\ OriginWhole /\ ReplicaWhole /\ IndexMadeBy
       /\ DeleteSticks /\ LogKept /\ FreshReplica)'
  BY DEF IInv, FreshReplica, PostFirst, OriginWhole, ReplicaWhole, IndexMadeBy,
      DeleteSticks, LogKept, AbortUpload
<1>. QED BY <1>1, <1>2, <1>3, <1>4 DEF IInv

\* A goroutine that finds its destination inactive keeps IInv.
LEMMA SkipSyncKeeps ==
    ASSUME IInv, NEW f \in Files, NEW n \in Nodes, SkipSync(f, n)
    PROVE  IInv'
<1>1. TypeOK'
  BY DEF IInv, TypeOK, StorageTypeOK, SkipSync, SyncGo, PutRecord
<1>2. UploadFirst'
  BY DEF IInv, TypeOK, StorageTypeOK, UploadFirst, SkipSync, SyncGo, PutRecord
<1>3. PostFirst'
  BY DEF IInv, TypeOK, StorageTypeOK, PostFirst, SkipSync, SyncGo, PutRecord
<1>4. StaysSettled'
  BY DEF IInv, TypeOK, StorageTypeOK, StaysSettled, Settled, SkipSync, SyncGo,
      PutRecord
<1>5. LogKept'
  BY ReplicationAssumption DEF IInv, TypeOK, StorageTypeOK, LogKept, SkipSync,
      SyncGo, PutRecord
<1>6. (OriginWhole /\ ReplicaWhole /\ IndexMadeBy /\ DeleteSticks /\ FreshReplica)'
  BY DEF IInv, FreshReplica, OriginWhole, ReplicaWhole, IndexMadeBy, DeleteSticks,
      SkipSync,
      SyncGo, PutRecord
<1>. QED BY <1>1, <1>2, <1>3, <1>4, <1>5, <1>6 DEF IInv

\* A posted SyncFileAdd keeps IInv.
LEMMA PostSyncKeeps ==
    ASSUME IInv, NEW f \in Files, NEW n \in Nodes, PostSync(f, n)
    PROVE  IInv'
<1>1. TypeOK'
  BY DEF IInv, TypeOK, StorageTypeOK, PostSync, SyncGo, RecvAdd, AddStep
<1>2. UploadFirst'
  BY DEF IInv, TypeOK, StorageTypeOK, UploadFirst, PostSync, SyncGo, RecvAdd,
      AddStep
<1>3. PostFirst'
  BY DEF IInv, TypeOK, StorageTypeOK, PostFirst, PostSync, SyncGo, RecvAdd,
      AddStep
<1>4. ReplicaWhole'
  BY DEF IInv, TypeOK, StorageTypeOK, ReplicaWhole, PostSync, SyncGo, RecvAdd,
      AddStep
<1>5. IndexMadeBy'
  BY DEF IInv, TypeOK, StorageTypeOK, IndexMadeBy, PostSync, SyncGo, RecvAdd,
      AddStep
<1>6. StaysSettled'
  BY DEF IInv, TypeOK, StorageTypeOK, StaysSettled, Settled, PostSync, SyncGo,
      RecvAdd, AddStep
<1>7. LogKept'
  BY DEF IInv, TypeOK, StorageTypeOK, LogKept, PostSync, SyncGo, RecvAdd,
      AddStep
<1>8. (OriginWhole /\ DeleteSticks)'
  BY DEF IInv, OriginWhole, DeleteSticks, PostSync, SyncGo, RecvAdd, AddStep
<1>9. FreshReplica'
  BY DEF IInv, TypeOK, StorageTypeOK, FreshReplica, PostSync, SyncGo, RecvAdd,
      AddStep
<1>. QED BY <1>1, <1>2, <1>3, <1>4, <1>5, <1>6, <1>7, <1>8, <1>9 DEF IInv

\* A failed or timed-out SyncFileAdd keeps IInv.
LEMMA FailSyncKeeps ==
    ASSUME IInv, NEW f \in Files, NEW n \in Nodes, FailSync(f, n)
    PROVE  IInv'
<1>1. TypeOK'
  BY DEF IInv, TypeOK, StorageTypeOK, FailSync, SyncGo, PutRecord
<1>2. UploadFirst'
  BY DEF IInv, TypeOK, StorageTypeOK, UploadFirst, FailSync, SyncGo, PutRecord
<1>3. PostFirst'
  BY DEF IInv, TypeOK, StorageTypeOK, PostFirst, FailSync, SyncGo, PutRecord
<1>4. StaysSettled'
  BY DEF IInv, TypeOK, StorageTypeOK, StaysSettled, Settled, FailSync, SyncGo,
      PutRecord
<1>5. LogKept'
  BY ReplicationAssumption DEF IInv, TypeOK, StorageTypeOK, LogKept, FailSync,
      SyncGo, PutRecord
<1>6. (OriginWhole /\ ReplicaWhole /\ IndexMadeBy /\ DeleteSticks /\ FreshReplica)'
  BY DEF IInv, FreshReplica, OriginWhole, ReplicaWhole, IndexMadeBy, DeleteSticks,
      FailSync,
      SyncGo, PutRecord
<1>. QED BY <1>1, <1>2, <1>3, <1>4, <1>5, <1>6 DEF IInv

\* A confirmed SyncFileAdd keeps IInv.
LEMMA ConfirmSyncKeeps ==
    ASSUME IInv, NEW f \in Files, NEW n \in Nodes, ConfirmSync(f, n)
    PROVE  IInv'
<1>1. TypeOK'
  BY DEF IInv, TypeOK, StorageTypeOK, ConfirmSync, SyncGo
<1>2. UploadFirst'
  BY DEF IInv, TypeOK, StorageTypeOK, UploadFirst, ConfirmSync, SyncGo
<1>3. PostFirst'
  BY DEF IInv, TypeOK, StorageTypeOK, PostFirst, ConfirmSync, SyncGo
<1>4. StaysSettled'
  BY DEF IInv, TypeOK, StorageTypeOK, StaysSettled, Settled, ConfirmSync,
      SyncGo
<1>5. LogKept'
  BY DEF IInv, TypeOK, StorageTypeOK, LogKept, ConfirmSync, SyncGo
<1>6. (OriginWhole /\ ReplicaWhole /\ IndexMadeBy /\ DeleteSticks /\ FreshReplica)'
  BY DEF IInv, FreshReplica, OriginWhole, ReplicaWhole, IndexMadeBy, DeleteSticks,
      ConfirmSync, SyncGo
<1>. QED BY <1>1, <1>2, <1>3, <1>4, <1>5, <1>6 DEF IInv

\* A delete request keeps IInv.
LEMMA DeleteKeeps ==
    ASSUME IInv, NEW d \in Deletes, NEW f \in Files, NEW h \in Hashes,
        Delete(d, f, h)
    PROVE  IInv'
<1>1. TypeOK'
  BY StorageAssumption DEF IInv, TypeOK, StorageTypeOK, Delete
<1>2. UploadFirst'
  BY DEF IInv, TypeOK, StorageTypeOK, UploadFirst, Delete
<1>3. PostFirst'
  BY StorageAssumption DEF IInv, TypeOK, StorageTypeOK, PostFirst, Delete
<1>4. OriginWhole'
  BY DEF IInv, TypeOK, StorageTypeOK, OriginWhole, Delete
<1>5. ReplicaWhole'
  BY DEF IInv, TypeOK, StorageTypeOK, ReplicaWhole, Delete
<1>6. StaysSettled'
  BY DEF IInv, TypeOK, StorageTypeOK, StaysSettled, Settled, Delete
<1>7. DeleteSticks'
  BY DEF IInv, TypeOK, StorageTypeOK, DeleteSticks, UploadFirst, PostFirst,
      Delete
<1>8. LogKept'
  BY DEF IInv, TypeOK, StorageTypeOK, LogKept, UploadFirst, PostFirst, Delete
<1>9. (IndexMadeBy /\ FreshReplica)'
  BY DEF IInv, FreshReplica, IndexMadeBy, Delete
<1>. QED BY <1>1, <1>2, <1>3, <1>4, <1>5, <1>6, <1>7, <1>8, <1>9 DEF IInv

\* A delete that finds its destination offline keeps IInv.
LEMMA SkipDeleteKeeps ==
    ASSUME IInv, NEW d \in Deletes, NEW n \in Nodes, SkipDelete(d, n)
    PROVE  IInv'
<1>1. TypeOK'
  BY DEF IInv, TypeOK, StorageTypeOK, SkipDelete, RmGo, PutRecord
<1>2. PostFirst'
  BY DEF IInv, TypeOK, StorageTypeOK, PostFirst, SkipDelete, RmGo, PutRecord
<1>3. DeleteSticks'
  BY DEF IInv, TypeOK, StorageTypeOK, DeleteSticks, SkipDelete, RmGo,
      PutRecord
<1>4. LogKept'
  BY ReplicationAssumption DEF IInv, TypeOK, StorageTypeOK, LogKept, PostFirst,
      SkipDelete, RmGo, PutRecord
<1>5. (UploadFirst /\ OriginWhole /\ ReplicaWhole /\ IndexMadeBy
       /\ StaysSettled /\ FreshReplica)'
  BY DEF IInv, FreshReplica, UploadFirst, OriginWhole, ReplicaWhole, IndexMadeBy,
      StaysSettled, Settled, SkipDelete, RmGo, PutRecord
<1>. QED BY <1>1, <1>2, <1>3, <1>4, <1>5 DEF IInv

\* A posted SyncFileDelete keeps IInv.
LEMMA PostDeleteKeeps ==
    ASSUME IInv, NEW d \in Deletes, NEW n \in Nodes, PostDelete(d, n)
    PROVE  IInv'
<1>1. TypeOK'
  BY DEF IInv, TypeOK, StorageTypeOK, PostDelete, RmGo, RecvDelete, DelStep
<1>2. PostFirst'
  BY DEF IInv, TypeOK, StorageTypeOK, PostFirst, PostDelete, RmGo, RecvDelete,
      DelStep
<1>3. DeleteSticks'
  BY DEF IInv, TypeOK, StorageTypeOK, DeleteSticks, PostDelete, RmGo,
      RecvDelete, DelStep
<1>4. LogKept'
  BY DEF IInv, TypeOK, StorageTypeOK, LogKept, PostDelete, RmGo, RecvDelete,
      DelStep
<1>5. (UploadFirst /\ OriginWhole /\ ReplicaWhole /\ IndexMadeBy
       /\ StaysSettled /\ FreshReplica)'
  BY DEF IInv, FreshReplica, UploadFirst, OriginWhole, ReplicaWhole, IndexMadeBy,
      StaysSettled, Settled, PostDelete, RmGo, RecvDelete, DelStep
<1>. QED BY <1>1, <1>2, <1>3, <1>4, <1>5 DEF IInv

\* A failed or timed-out SyncFileDelete keeps IInv.
LEMMA FailDeleteKeeps ==
    ASSUME IInv, NEW d \in Deletes, NEW n \in Nodes, FailDelete(d, n)
    PROVE  IInv'
<1>1. TypeOK'
  BY DEF IInv, TypeOK, StorageTypeOK, FailDelete, RmGo, PutRecord
<1>2. PostFirst'
  BY DEF IInv, TypeOK, StorageTypeOK, PostFirst, FailDelete, RmGo, PutRecord
<1>3. DeleteSticks'
  BY DEF IInv, TypeOK, StorageTypeOK, DeleteSticks, FailDelete, RmGo,
      PutRecord
<1>4. LogKept'
  BY ReplicationAssumption DEF IInv, TypeOK, StorageTypeOK, LogKept, PostFirst,
      FailDelete, RmGo, PutRecord
<1>5. (UploadFirst /\ OriginWhole /\ ReplicaWhole /\ IndexMadeBy
       /\ StaysSettled /\ FreshReplica)'
  BY DEF IInv, FreshReplica, UploadFirst, OriginWhole, ReplicaWhole, IndexMadeBy,
      StaysSettled, Settled, FailDelete, RmGo, PutRecord
<1>. QED BY <1>1, <1>2, <1>3, <1>4, <1>5 DEF IInv

\* A confirmed SyncFileDelete keeps IInv.
LEMMA ConfirmDeleteKeeps ==
    ASSUME IInv, NEW d \in Deletes, NEW n \in Nodes, ConfirmDelete(d, n)
    PROVE  IInv'
<1>1. TypeOK'
  BY DEF IInv, TypeOK, StorageTypeOK, ConfirmDelete, RmGo
<1>2. PostFirst'
  BY DEF IInv, TypeOK, StorageTypeOK, PostFirst, ConfirmDelete, RmGo
<1>3. DeleteSticks'
  BY DEF IInv, TypeOK, StorageTypeOK, DeleteSticks, ConfirmDelete, RmGo
<1>4. LogKept'
  BY DEF IInv, TypeOK, StorageTypeOK, LogKept, ConfirmDelete, RmGo
<1>5. (UploadFirst /\ OriginWhole /\ ReplicaWhole /\ IndexMadeBy
       /\ StaysSettled /\ FreshReplica)'
  BY DEF IInv, FreshReplica, UploadFirst, OriginWhole, ReplicaWhole, IndexMadeBy,
      StaysSettled, Settled, ConfirmDelete, RmGo
<1>. QED BY <1>1, <1>2, <1>3, <1>4, <1>5 DEF IInv

\* The end of the tracker's process keeps IInv.
LEMMA EndProcessKeeps ==
    ASSUME IInv, EndProcess
    PROVE  IInv'
<1>1. TypeOK'
  BY DEF IInv, TypeOK, StorageTypeOK, EndProcess
<1>2. UploadFirst'
  BY DEF IInv, TypeOK, StorageTypeOK, UploadFirst, EndProcess
<1>3. PostFirst'
  BY DEF IInv, TypeOK, StorageTypeOK, PostFirst, EndProcess
<1>4. StaysSettled'
  BY DEF IInv, TypeOK, StorageTypeOK, StaysSettled, Settled, EndProcess
<1>5. DeleteSticks'
  BY DEF IInv, TypeOK, StorageTypeOK, DeleteSticks, EndProcess
<1>6. LogKept'
  BY DEF IInv, TypeOK, StorageTypeOK, LogKept, EndProcess
<1>7. (OriginWhole /\ ReplicaWhole /\ IndexMadeBy /\ FreshReplica)'
  BY DEF IInv, FreshReplica, OriginWhole, ReplicaWhole, IndexMadeBy, EndProcess
<1>. QED BY <1>1, <1>2, <1>3, <1>4, <1>5, <1>6, <1>7 DEF IInv

-----------------------------------------------------------------------------
(* The steps of QuickUpload on a storage. *)

\* The lookup of an announced MD5 keeps IInv.
LEMMA FindExistingKeeps ==
    ASSUME IInv, NEW f \in Files, FindExisting(f), UNCHANGED trackerVars
    PROVE  IInv'
<1>1. TypeOK'
  BY DEF IInv, TypeOK, StorageTypeOK, FindExisting, Indexed
<1>2. UploadFirst'
  BY DEF IInv, TypeOK, StorageTypeOK, UploadFirst, FindExisting, Indexed
<1>3. OriginWhole'
  BY DEF IInv, TypeOK, StorageTypeOK, OriginWhole, FindExisting, Indexed
<1>4. (PostFirst /\ ReplicaWhole /\ IndexMadeBy /\ StaysSettled
       /\ DeleteSticks /\ LogKept /\ FreshReplica)'
  BY DEF IInv, FreshReplica, PostFirst, ReplicaWhole, IndexMadeBy, StaysSettled,
      DeleteSticks, LogKept, Settled, FindExisting, Indexed
<1>. QED BY <1>1, <1>2, <1>3, <1>4 DEF IInv

\* The reply of an instant upload keeps IInv.
LEMMA ReplyExistingKeeps ==
    ASSUME IInv, NEW f \in Files, ReplyExisting(f), UNCHANGED trackerVars
    PROVE  IInv'
<1>1. TypeOK'
  BY StorageAssumption DEF IInv, TypeOK, StorageTypeOK, UploadFirst,
      ReplyExisting, ForgetMd5
<1>2. UploadFirst'
  BY DEF IInv, TypeOK, StorageTypeOK, UploadFirst, ReplyExisting, ForgetMd5
<1>3. OriginWhole'
  BY DEF IInv, TypeOK, StorageTypeOK, OriginWhole, ReplyExisting, ForgetMd5
<1>4. (PostFirst /\ ReplicaWhole /\ IndexMadeBy /\ StaysSettled
       /\ DeleteSticks /\ LogKept /\ FreshReplica)'
  BY DEF IInv, FreshReplica, PostFirst, ReplicaWhole, IndexMadeBy, StaysSettled,
      DeleteSticks, LogKept, Settled, ReplyExisting, ForgetMd5
<1>. QED BY <1>1, <1>2, <1>3, <1>4 DEF IInv

\* An announced MD5 that is not in the index keeps IInv.
LEMMA FindNoneKeeps ==
    ASSUME IInv, NEW f \in Files, FindNone(f), UNCHANGED trackerVars
    PROVE  IInv'
<1>1. TypeOK'
  BY DEF IInv, TypeOK, StorageTypeOK, FindNone
<1>2. UploadFirst'
  BY DEF IInv, TypeOK, StorageTypeOK, UploadFirst, FindNone
<1>3. OriginWhole'
  BY DEF IInv, TypeOK, StorageTypeOK, OriginWhole, FindNone
<1>4. (PostFirst /\ ReplicaWhole /\ IndexMadeBy /\ StaysSettled
       /\ DeleteSticks /\ LogKept /\ FreshReplica)'
  BY DEF IInv, FreshReplica, PostFirst, ReplicaWhole, IndexMadeBy, StaysSettled,
      DeleteSticks, LogKept, Settled, FindNone
<1>. QED BY <1>1, <1>2, <1>3, <1>4 DEF IInv

\* A rejected upload keeps IInv.
LEMMA RejectUploadKeeps ==
    ASSUME IInv, NEW f \in Files, RejectUpload(f), UNCHANGED trackerVars
    PROVE  IInv'
<1>1. TypeOK'
  BY DEF IInv, TypeOK, StorageTypeOK, RejectUpload, ForgetMd5
<1>2. UploadFirst'
  BY DEF IInv, TypeOK, StorageTypeOK, UploadFirst, RejectUpload, ForgetMd5
<1>3. OriginWhole'
  BY DEF IInv, TypeOK, StorageTypeOK, OriginWhole, RejectUpload, ForgetMd5
<1>4. (PostFirst /\ ReplicaWhole /\ IndexMadeBy /\ StaysSettled
       /\ DeleteSticks /\ LogKept /\ FreshReplica)'
  BY DEF IInv, FreshReplica, PostFirst, ReplicaWhole, IndexMadeBy, StaysSettled,
      DeleteSticks, LogKept, Settled, RejectUpload, ForgetMd5
<1>. QED BY <1>1, <1>2, <1>3, <1>4 DEF IInv

\* An upload whose copy fails keeps IInv.
LEMMA TearUploadKeeps ==
    ASSUME IInv, NEW f \in Files, TearUpload(f), UNCHANGED trackerVars
    PROVE  IInv'
<1>1. TypeOK'
  <2>1. PICK bytes \in {Part(ContentOf[f]), ContentOf[f]} :
               disk' = [disk EXCEPT ![upNode[f]][f] = bytes]
    BY DEF TearUpload
  <2>2. bytes \in DiskValues
    BY ContentFacts DEF Part
  <2>3. (disk \in [Nodes -> [Files -> DiskValues]])'
    BY <2>1, <2>2 DEF IInv, TypeOK, StorageTypeOK
  <2>. QED BY <2>3 DEF IInv, TypeOK, StorageTypeOK, TearUpload, ForgetMd5
<1>2. UploadFirst'
  BY DEF IInv, TypeOK, StorageTypeOK, UploadFirst, TearUpload, ForgetMd5
<1>3. OriginWhole'
  BY DEF IInv, TypeOK, StorageTypeOK, OriginWhole, TearUpload, ForgetMd5
<1>4. ReplicaWhole'
  BY AddSource DEF IInv, TypeOK, StorageTypeOK, ReplicaWhole, TearUpload,
      ForgetMd5
<1>5. DeleteSticks'
  <2>1. ASSUME NEW e \in Deletes, NEW m \in Nodes, delPc[e][m] \in {"removed", "done"}
        PROVE  delFile[e] # f
    BY <2>1, DeleteKnown DEF TearUpload
  <2>. QED BY <2>1 DEF IInv, TypeOK, StorageTypeOK, DeleteSticks, TearUpload, ForgetMd5
<1>6. (PostFirst /\ IndexMadeBy /\ StaysSettled /\ LogKept)'
  BY DEF IInv, PostFirst, IndexMadeBy, StaysSettled, LogKept, Settled,
      TearUpload, ForgetMd5
<1>7. FreshReplica'
  BY AddSource DEF IInv, TypeOK, StorageTypeOK, FreshReplica, TearUpload, ForgetMd5
<1>. QED BY <1>1, <1>2, <1>3, <1>4, <1>5, <1>6, <1>7 DEF IInv

\* An upload that is written and read back keeps IInv.
LEMMA SaveUploadKeeps ==
    ASSUME IInv, NEW f \in Files, SaveUpload(f), UNCHANGED trackerVars
    PROVE  IInv'
<1>1. PICK md5 \in GenMD5(f) :
           /\ upPc' = [upPc EXCEPT ![f] = CheckHash(f, md5)]
           /\ upMd5' = [upMd5 EXCEPT ![f] = md5]
  BY DEF SaveUpload
<1>2. md5 \in {NoHash, ContentOf[f]} /\ CheckHash(f, md5) \in {"saved", "damaged"}
  BY DEF GenMD5, CheckHash
<1>3. /\ upPc[f] = "new"
      /\ disk' = [disk EXCEPT ![upNode[f]][f] = ContentOf[f]]
      /\ UNCHANGED <<db, upNode, upHit, addVars, delVars, trackerVars>>
  BY DEF SaveUpload
<1>4. TypeOK'
  BY <1>1, <1>2, <1>3, StorageAssumption DEF IInv, TypeOK, StorageTypeOK
<1>5. UploadFirst'
  BY <1>1, <1>2, <1>3 DEF IInv, TypeOK, StorageTypeOK, UploadFirst
<1>6. OriginWhole'
  BY <1>1, <1>2, <1>3 DEF IInv, TypeOK, StorageTypeOK, OriginWhole, UploadFirst
<1>7. ReplicaWhole'
  BY <1>3, AddSource DEF IInv, TypeOK, StorageTypeOK, ReplicaWhole
<1>8. FreshReplica'
  BY <1>3, AddSource DEF IInv, TypeOK, StorageTypeOK, FreshReplica
<1>9. DeleteSticks'
  <2>1. ASSUME NEW e \in Deletes, NEW m \in Nodes, delPc[e][m] \in {"removed", "done"}
        PROVE  delFile[e] # f
    BY <1>3, <2>1, DeleteKnown
  <2>. QED BY <1>3, <2>1 DEF IInv, TypeOK, StorageTypeOK, DeleteSticks
<1>10. (PostFirst /\ IndexMadeBy /\ StaysSettled /\ LogKept)'
  BY <1>3 DEF IInv, PostFirst, IndexMadeBy, StaysSettled, LogKept, Settled
<1>. QED BY <1>4, <1>5, <1>6, <1>7, <1>8, <1>9, <1>10 DEF IInv

\* The removal of a damaged upload keeps IInv.
LEMMA RemoveDamagedKeeps ==
    ASSUME IInv, NEW f \in Files, RemoveDamaged(f), UNCHANGED trackerVars
    PROVE  IInv'
<1>1. TypeOK'
  BY DEF IInv, TypeOK, StorageTypeOK, RemoveDamaged, ForgetMd5
<1>2. UploadFirst'
  BY DEF IInv, TypeOK, StorageTypeOK, UploadFirst, RemoveDamaged, ForgetMd5
<1>3. OriginWhole'
  BY DEF IInv, TypeOK, StorageTypeOK, OriginWhole, RemoveDamaged, ForgetMd5
<1>4. ReplicaWhole'
  BY AddSource DEF IInv, TypeOK, StorageTypeOK, ReplicaWhole, RemoveDamaged,
      ForgetMd5
<1>5. DeleteSticks'
  BY DEF IInv, TypeOK, StorageTypeOK, DeleteSticks, RemoveDamaged, ForgetMd5
<1>6. (PostFirst /\ IndexMadeBy /\ StaysSettled /\ LogKept)'
  BY DEF IInv, PostFirst, IndexMadeBy, StaysSettled, LogKept, Settled,
      RemoveDamaged, ForgetMd5
<1>7. FreshReplica'
  BY DEF IInv, TypeOK, StorageTypeOK, FreshReplica, RemoveDamaged, ForgetMd5
<1>. QED BY <1>1, <1>2, <1>3, <1>4, <1>5, <1>6, <1>7 DEF IInv

\* The index entry of an upload keeps IInv.
LEMMA IndexUploadKeeps ==
    ASSUME IInv, NEW f \in Files, IndexUpload(f), UNCHANGED trackerVars
    PROVE  IInv'
<1>1. TypeOK'
  BY DEF IInv, TypeOK, StorageTypeOK, IndexUpload, Put
<1>2. UploadFirst'
  BY DEF IInv, TypeOK, StorageTypeOK, UploadFirst, IndexUpload, Put
<1>3. OriginWhole'
  BY DEF IInv, TypeOK, StorageTypeOK, OriginWhole, IndexUpload, Put
<1>4. IndexMadeBy'
  BY StorageAssumption DEF IInv, TypeOK, StorageTypeOK, UploadFirst, IndexMadeBy,
      IndexUpload, Put
<1>5. (PostFirst /\ ReplicaWhole /\ StaysSettled /\ DeleteSticks /\ LogKept
       /\ FreshReplica)'
  BY DEF IInv, FreshReplica, PostFirst, ReplicaWhole, StaysSettled, DeleteSticks,
      LogKept,
      Settled, IndexUpload, Put
<1>. QED BY <1>1, <1>2, <1>3, <1>4, <1>5 DEF IInv

-----------------------------------------------------------------------------
(* The steps of SyncFileAdd. *)

\* A SyncFileAdd that fails before its file exists keeps IInv.
LEMMA RejectAddKeeps ==
    ASSUME IInv, NEW f \in Files, NEW n \in Nodes, RejectAdd(f, n), UNCHANGED
        trackerVars
    PROVE  IInv'
<1>1. TypeOK'
  BY DEF IInv, TypeOK, StorageTypeOK, RejectAdd, AddStep, ForgetBody
<1>2. PostFirst'
  BY DEF IInv, TypeOK, StorageTypeOK, PostFirst, RejectAdd, AddStep,
      ForgetBody
<1>3. ReplicaWhole'
  BY DEF IInv, TypeOK, StorageTypeOK, ReplicaWhole, RejectAdd, AddStep,
      ForgetBody
<1>4. IndexMadeBy'
  BY DEF IInv, TypeOK, StorageTypeOK, IndexMadeBy, RejectAdd, AddStep,
      ForgetBody
<1>5. StaysSettled'
  BY DEF IInv, TypeOK, StorageTypeOK, StaysSettled, Settled, RejectAdd,
      AddStep, ForgetBody
<1>6. (UploadFirst /\ OriginWhole /\ DeleteSticks /\ LogKept)'
  BY DEF IInv, UploadFirst, OriginWhole, DeleteSticks, LogKept, RejectAdd,
      AddStep, ForgetBody
<1>7. FreshReplica'
  BY DEF IInv, TypeOK, StorageTypeOK, FreshReplica, RejectAdd, AddStep, ForgetBody
<1>. QED BY <1>1, <1>2, <1>3, <1>4, <1>5, <1>6, <1>7 DEF IInv

\* The source's first open keeps IInv: until a delete is asked for, the file is
\* there to be found.
LEMMA ProbeSourceKeeps ==
    ASSUME IInv, NEW f \in Files, NEW n \in Nodes, ProbeSource(f, n), UNCHANGED trackerVars
    PROVE  IInv'
<1>. DEFINE pc == IF SourceBytes(f) = Absent THEN "fetched" ELSE "probed"
            body == IF SourceBytes(f) = Absent THEN Empty ELSE addBody[f][n]
<1>1. /\ addPc' = [addPc EXCEPT ![f][n] = pc]
      /\ addBody' = [addBody EXCEPT ![f][n] = body]
      /\ addPc[f][n] = "recv"
      /\ UNCHANGED <<disk, db, uploadVars, delVars, trackerVars>>
  BY DEF IInv, TypeOK, StorageTypeOK, ProbeSource, AddStep
<1>2. f \notin asked => pc = "probed"
  BY <1>1, AddSource, ContentFacts DEF IInv, OriginWhole, SourceBytes, Download
<1>3. pc \in {"fetched", "probed"} /\ body \in DiskValues
  BY DEF IInv, TypeOK, StorageTypeOK
<1>. HIDE DEF pc, body
<1>4. TypeOK'
  BY <1>1, <1>3 DEF IInv, TypeOK, StorageTypeOK
<1>5. PostFirst'
  BY <1>1, <1>3 DEF IInv, TypeOK, StorageTypeOK, PostFirst
<1>6. ReplicaWhole'
  BY <1>1, <1>2 DEF IInv, TypeOK, StorageTypeOK, ReplicaWhole
<1>7. IndexMadeBy'
  BY <1>1, <1>3 DEF IInv, TypeOK, StorageTypeOK, IndexMadeBy
<1>8. StaysSettled'
  BY <1>1, <1>3 DEF IInv, TypeOK, StorageTypeOK, StaysSettled, Settled
<1>9. (UploadFirst /\ OriginWhole /\ DeleteSticks /\ LogKept)'
  BY <1>1 DEF IInv, UploadFirst, OriginWhole, DeleteSticks, LogKept
<1>10. FreshReplica'
  BY <1>1, <1>3 DEF IInv, TypeOK, StorageTypeOK, FreshReplica
<1>. QED BY <1>4, <1>5, <1>6, <1>7, <1>8, <1>9, <1>10 DEF IInv

\* The source's second open keeps IInv.
LEMMA OpenSourceKeeps ==
    ASSUME IInv, NEW f \in Files, NEW n \in Nodes, OpenSource(f, n), UNCHANGED
        trackerVars
    PROVE  IInv'
<1>1. TypeOK'
  BY AddSource, ContentFacts DEF IInv, TypeOK, StorageTypeOK, OpenSource,
      AddStep, SourceBytes, Download
<1>2. PostFirst'
  BY DEF IInv, TypeOK, StorageTypeOK, PostFirst, OpenSource, AddStep,
      SourceBytes, Download
<1>3. ReplicaWhole'
  BY AddSource, ContentFacts DEF IInv, TypeOK, StorageTypeOK, ReplicaWhole,
      OriginWhole, OpenSource, AddStep, SourceBytes, Download
<1>4. IndexMadeBy'
  BY DEF IInv, TypeOK, StorageTypeOK, IndexMadeBy, OpenSource, AddStep,
      SourceBytes, Download
<1>5. StaysSettled'
  BY DEF IInv, TypeOK, StorageTypeOK, StaysSettled, Settled, OpenSource,
      AddStep, SourceBytes, Download
<1>6. (UploadFirst /\ OriginWhole /\ DeleteSticks /\ LogKept)'
  BY DEF IInv, UploadFirst, OriginWhole, DeleteSticks, LogKept, OpenSource,
      AddStep, SourceBytes, Download
<1>7. FreshReplica'
  BY DEF IInv, TypeOK, StorageTypeOK, FreshReplica, OpenSource, AddStep,
      SourceBytes, Download
<1>. QED BY <1>1, <1>2, <1>3, <1>4, <1>5, <1>6, <1>7 DEF IInv

\* The creation of the replica's file keeps IInv.
LEMMA CreateReplicaKeeps ==
    ASSUME IInv, NEW f \in Files, NEW n \in Nodes, CreateReplica(f, n),
        UNCHANGED trackerVars
    PROVE  IInv'
<1>1. TypeOK'
  BY DEF IInv, TypeOK, StorageTypeOK, CreateReplica, AddStep
<1>2. PostFirst'
  BY DEF IInv, TypeOK, StorageTypeOK, PostFirst, CreateReplica, AddStep
<1>3. OriginWhole'
  BY AddSource DEF IInv, TypeOK, StorageTypeOK, OriginWhole, CreateReplica,
      AddStep
<1>4. ReplicaWhole'
  BY AddSource, ContentFacts DEF IInv, TypeOK, StorageTypeOK, ReplicaWhole,
      CreateReplica, AddStep
<1>5. IndexMadeBy'
  BY DEF IInv, TypeOK, StorageTypeOK, IndexMadeBy, CreateReplica, AddStep
<1>6. StaysSettled'
  BY DEF IInv, TypeOK, StorageTypeOK, StaysSettled, Settled, CreateReplica,
      AddStep
<1>7. DeleteSticks'
  <2>1. ASSUME NEW e \in Deletes, NEW m \in Nodes, m \notin racing[e],
               delPc[e][m] \in {"removed", "done"}
        PROVE  delFile[e] # f \/ m # n
    <3>1. delFile[e] # NoFile
      BY <2>1, DeleteKnown, StorageAssumption
    <3>. QED BY <2>1, <3>1 DEF IInv, StaysSettled, Settled, CreateReplica
  <2>. QED BY <2>1 DEF IInv, TypeOK, StorageTypeOK, DeleteSticks, CreateReplica,
                       AddStep
<1>8. (UploadFirst /\ LogKept)'
  BY DEF IInv, UploadFirst, LogKept, CreateReplica, AddStep
<1>9. FreshReplica'
  BY AddSource DEF IInv, TypeOK, StorageTypeOK, FreshReplica, CreateReplica, AddStep
<1>. QED BY <1>1, <1>2, <1>3, <1>4, <1>5, <1>6, <1>7, <1>8, <1>9 DEF IInv

\* The copy of the body keeps IInv.
LEMMA CopyReplicaKeeps ==
    ASSUME IInv, NEW f \in Files, NEW n \in Nodes, CopyReplica(f, n),
        UNCHANGED trackerVars
    PROVE  IInv'
<1>1. TypeOK'
  BY DEF IInv, TypeOK, StorageTypeOK, CopyReplica, AddStep, ForgetBody,
      Written, CopyOutcome
<1>2. PostFirst'
  BY DEF IInv, TypeOK, StorageTypeOK, PostFirst, CopyReplica, AddStep,
      ForgetBody, Written, CopyOutcome
<1>3. OriginWhole'
  BY AddSource DEF IInv, TypeOK, StorageTypeOK, OriginWhole, CopyReplica,
      AddStep, ForgetBody, Written, CopyOutcome
<1>4. ReplicaWhole'
  BY DEF IInv, TypeOK, StorageTypeOK, ReplicaWhole, CopyReplica, AddStep,
      ForgetBody, Written, CopyOutcome
<1>5. IndexMadeBy'
  BY DEF IInv, TypeOK, StorageTypeOK, IndexMadeBy, CopyReplica, AddStep,
      ForgetBody, Written, CopyOutcome
<1>6. StaysSettled'
  BY DEF IInv, TypeOK, StorageTypeOK, StaysSettled, Settled, CopyReplica,
      AddStep, ForgetBody, Written, CopyOutcome
<1>7. DeleteSticks'
  BY DEF IInv, TypeOK, StorageTypeOK, DeleteSticks, CopyReplica, AddStep,
      ForgetBody, Written, CopyOutcome
<1>8. (UploadFirst /\ LogKept)'
  BY DEF IInv, UploadFirst, LogKept, CopyReplica, AddStep, ForgetBody,
      Written, CopyOutcome
<1>9. FreshReplica'
  BY AddSource DEF IInv, TypeOK, StorageTypeOK, FreshReplica, CopyReplica, AddStep,
      ForgetBody, Written, CopyOutcome
<1>. QED BY <1>1, <1>2, <1>3, <1>4, <1>5, <1>6, <1>7, <1>8, <1>9 DEF IInv

\* A copy that fails half-way keeps IInv.
LEMMA TearReplicaKeeps ==
    ASSUME IInv, NEW f \in Files, NEW n \in Nodes, TearReplica(f, n),
        UNCHANGED trackerVars
    PROVE  IInv'
<1>1. TypeOK'
  BY DEF IInv, TypeOK, StorageTypeOK, TearReplica, AddStep, ForgetBody,
      Written, Part
<1>2. PostFirst'
  BY DEF IInv, TypeOK, StorageTypeOK, PostFirst, TearReplica, AddStep,
      ForgetBody, Written, Part
<1>3. OriginWhole'
  BY AddSource DEF IInv, TypeOK, StorageTypeOK, OriginWhole, TearReplica,
      AddStep, ForgetBody, Written, Part
<1>4. ReplicaWhole'
  BY DEF IInv, TypeOK, StorageTypeOK, ReplicaWhole, TearReplica, AddStep,
      ForgetBody, Written, Part
<1>5. IndexMadeBy'
  BY DEF IInv, TypeOK, StorageTypeOK, IndexMadeBy, TearReplica, AddStep,
      ForgetBody, Written, Part
<1>6. StaysSettled'
  BY DEF IInv, TypeOK, StorageTypeOK, StaysSettled, Settled, TearReplica,
      AddStep, ForgetBody, Written, Part
<1>7. DeleteSticks'
  BY DEF IInv, TypeOK, StorageTypeOK, DeleteSticks, TearReplica, AddStep,
      ForgetBody, Written, Part
<1>8. (UploadFirst /\ LogKept)'
  BY DEF IInv, UploadFirst, LogKept, TearReplica, AddStep, ForgetBody, Written, Part
<1>9. FreshReplica'
  BY AddSource DEF IInv, TypeOK, StorageTypeOK, FreshReplica, TearReplica, AddStep,
      ForgetBody, Written, Part
<1>. QED BY <1>1, <1>2, <1>3, <1>4, <1>5, <1>6, <1>7, <1>8, <1>9 DEF IInv

\* The stat of the replica keeps IInv.
LEMMA StatReplicaKeeps ==
    ASSUME IInv, NEW f \in Files, NEW n \in Nodes, StatReplica(f, n),
        UNCHANGED trackerVars
    PROVE  IInv'
<1>1. TypeOK'
  BY DEF IInv, TypeOK, StorageTypeOK, StatReplica, AddStep
<1>2. PostFirst'
  BY DEF IInv, TypeOK, StorageTypeOK, PostFirst, StatReplica, AddStep
<1>3. ReplicaWhole'
  BY DEF IInv, TypeOK, StorageTypeOK, ReplicaWhole, StatReplica, AddStep
<1>4. IndexMadeBy'
  BY DEF IInv, TypeOK, StorageTypeOK, IndexMadeBy, StatReplica, AddStep
<1>5. StaysSettled'
  BY DEF IInv, TypeOK, StorageTypeOK, StaysSettled, Settled, StatReplica,
      AddStep
<1>6. (UploadFirst /\ OriginWhole /\ DeleteSticks /\ LogKept)'
  BY DEF IInv, UploadFirst, OriginWhole, DeleteSticks, LogKept, StatReplica,
      AddStep
<1>7. FreshReplica'
  BY DEF IInv, TypeOK, StorageTypeOK, FreshReplica, StatReplica, AddStep
<1>. QED BY <1>1, <1>2, <1>3, <1>4, <1>5, <1>6, <1>7 DEF IInv

\* The index entry of a replica keeps IInv.
LEMMA IndexReplicaKeeps ==
    ASSUME IInv, NEW f \in Files, NEW n \in Nodes, IndexReplica(f, n),
        UNCHANGED trackerVars
    PROVE  IInv'
<1>1. TypeOK'
  BY DEF IInv, TypeOK, StorageTypeOK, IndexReplica, AddStep, Put
<1>2. UploadFirst'
  BY AddSource DEF IInv, TypeOK, StorageTypeOK, UploadFirst, IndexReplica,
      AddStep, Put
<1>3. PostFirst'
  BY DEF IInv, TypeOK, StorageTypeOK, PostFirst, IndexReplica, AddStep, Put
<1>4. ReplicaWhole'
  BY DEF IInv, TypeOK, StorageTypeOK, ReplicaWhole, IndexReplica, AddStep, Put
<1>5. IndexMadeBy'
  BY AddSource, StorageAssumption DEF IInv, TypeOK, StorageTypeOK, UploadFirst,
      IndexMadeBy, IndexReplica, AddStep, Put
<1>6. StaysSettled'
  BY DEF IInv, TypeOK, StorageTypeOK, StaysSettled, Settled, IndexReplica,
      AddStep, Put
<1>7. (OriginWhole /\ DeleteSticks /\ LogKept)'
  BY DEF IInv, OriginWhole, DeleteSticks, LogKept, IndexReplica, AddStep, Put
<1>8. FreshReplica'
  BY DEF IInv, TypeOK, StorageTypeOK, FreshReplica, IndexReplica, AddStep, Put
<1>. QED BY <1>1, <1>2, <1>3, <1>4, <1>5, <1>6, <1>7, <1>8 DEF IInv

-----------------------------------------------------------------------------
(* The steps of SyncFileDelete, and a crash. *)

\* The stat before a delete keeps IInv.
LEMMA StatDeleteKeeps ==
    ASSUME IInv, NEW d \in Deletes, NEW n \in Nodes, StatDelete(d, n),
        UNCHANGED trackerVars
    PROVE  IInv'
<1>1. TypeOK'
  BY DEF IInv, TypeOK, StorageTypeOK, StatDelete, DelStep
<1>2. PostFirst'
  BY DEF IInv, TypeOK, StorageTypeOK, PostFirst, StatDelete, DelStep
<1>3. DeleteSticks'
  BY DEF IInv, TypeOK, StorageTypeOK, DeleteSticks, StatDelete, DelStep
<1>4. (UploadFirst /\ OriginWhole /\ ReplicaWhole /\ IndexMadeBy
       /\ StaysSettled /\ LogKept /\ FreshReplica)'
  BY DEF IInv, FreshReplica, UploadFirst, OriginWhole, ReplicaWhole, IndexMadeBy,
      StaysSettled, LogKept, Settled, StatDelete, DelStep
<1>. QED BY <1>1, <1>2, <1>3, <1>4 DEF IInv

\* The removal of a file keeps IInv.
LEMMA RemoveFileKeeps ==
    ASSUME IInv, NEW d \in Deletes, NEW n \in Nodes, RemoveFile(d, n),
        UNCHANGED trackerVars
    PROVE  IInv'
<1>1. TypeOK'
  BY DEF IInv, TypeOK, StorageTypeOK, RemoveFile, DelStep
<1>2. PostFirst'
  BY DEF IInv, TypeOK, StorageTypeOK, PostFirst, RemoveFile, DelStep
<1>3. OriginWhole'
  BY DeleteKnown DEF IInv, TypeOK, StorageTypeOK, OriginWhole, RemoveFile,
      DelStep
<1>4. ReplicaWhole'
  BY DeleteKnown DEF IInv, TypeOK, StorageTypeOK, ReplicaWhole, RemoveFile,
      DelStep
<1>5. DeleteSticks'
  <2>1. delFile[d] \in Files
    BY DeleteKnown DEF RemoveFile
  <2>. QED BY <2>1 DEF IInv, TypeOK, StorageTypeOK, DeleteSticks, RemoveFile,
                       DelStep
<1>6. (UploadFirst /\ IndexMadeBy /\ StaysSettled /\ LogKept)'
  BY DEF IInv, UploadFirst, IndexMadeBy, StaysSettled, LogKept, Settled,
      RemoveFile, DelStep
<1>7. FreshReplica'
  BY DEF IInv, TypeOK, StorageTypeOK, FreshReplica, RemoveFile, DelStep
<1>. QED BY <1>1, <1>2, <1>3, <1>4, <1>5, <1>6, <1>7 DEF IInv

\* A removal that fails keeps IInv.
LEMMA FailRemoveKeeps ==
    ASSUME IInv, NEW d \in Deletes, NEW n \in Nodes, FailRemove(d, n),
        UNCHANGED trackerVars
    PROVE  IInv'
<1>1. TypeOK'
  BY DEF IInv, TypeOK, StorageTypeOK, FailRemove, DelStep
<1>2. PostFirst'
  BY DEF IInv, TypeOK, StorageTypeOK, PostFirst, FailRemove, DelStep
<1>3. DeleteSticks'
  BY DEF IInv, TypeOK, StorageTypeOK, DeleteSticks, FailRemove, DelStep
<1>4. (UploadFirst /\ OriginWhole /\ ReplicaWhole /\ IndexMadeBy
       /\ StaysSettled /\ LogKept /\ FreshReplica)'
  BY DEF IInv, FreshReplica, UploadFirst, OriginWhole, ReplicaWhole, IndexMadeBy,
      StaysSettled, LogKept, Settled, FailRemove, DelStep
<1>. QED BY <1>1, <1>2, <1>3, <1>4 DEF IInv

\* The removal of an index entry keeps IInv.
LEMMA UnindexFileKeeps ==
    ASSUME IInv, NEW d \in Deletes, NEW n \in Nodes, UnindexFile(d, n),
        UNCHANGED trackerVars
    PROVE  IInv'
<1>1. TypeOK'
  BY DEF IInv, TypeOK, StorageTypeOK, UnindexFile, DelStep
<1>2. UploadFirst'
  BY DEF IInv, TypeOK, StorageTypeOK, UploadFirst, UnindexFile, DelStep
<1>3. PostFirst'
  BY DEF IInv, TypeOK, StorageTypeOK, PostFirst, UnindexFile, DelStep
<1>4. IndexMadeBy'
  BY DEF IInv, TypeOK, StorageTypeOK, IndexMadeBy, UnindexFile, DelStep
<1>5. DeleteSticks'
  BY DEF IInv, TypeOK, StorageTypeOK, DeleteSticks, UnindexFile, DelStep
<1>6. (OriginWhole /\ ReplicaWhole /\ StaysSettled /\ LogKept /\ FreshReplica)'
  BY DEF IInv, FreshReplica, OriginWhole, ReplicaWhole, StaysSettled, LogKept,
      Settled,
      UnindexFile, DelStep
<1>. QED BY <1>1, <1>2, <1>3, <1>4, <1>5, <1>6 DEF IInv

\* The crash of a storage node keeps IInv.
LEMMA CrashStorageKeeps ==
    ASSUME IInv, NEW n \in Nodes, CrashStorage(n), UNCHANGED trackerVars
    PROVE  IInv'
<1>1. TypeOK'
  BY DEF IInv, TypeOK, StorageTypeOK, CrashStorage
<1>2. UploadFirst'
  BY DEF IInv, TypeOK, StorageTypeOK, UploadFirst, CrashStorage
<1>3. PostFirst'
  BY DEF IInv, TypeOK, StorageTypeOK, PostFirst, CrashStorage
<1>4. OriginWhole'
  BY DEF IInv, TypeOK, StorageTypeOK, OriginWhole, CrashStorage
<1>5. ReplicaWhole'
  BY DEF IInv, TypeOK, StorageTypeOK, ReplicaWhole, CrashStorage
<1>6. IndexMadeBy'
  BY DEF IInv, TypeOK, StorageTypeOK, IndexMadeBy, CrashStorage
<1>7. StaysSettled'
  BY DEF IInv, TypeOK, StorageTypeOK, StaysSettled, Settled, CrashStorage
<1>8. DeleteSticks'
  BY DEF IInv, TypeOK, StorageTypeOK, DeleteSticks, CrashStorage
<1>9. (LogKept)'
  BY DEF IInv, LogKept, CrashStorage
<1>10. FreshReplica'
  BY DEF IInv, TypeOK, StorageTypeOK, FreshReplica, CrashStorage
<1>. QED BY <1>1, <1>2, <1>3, <1>4, <1>5, <1>6, <1>7, <1>8, <1>9, <1>10 DEF IInv

-----------------------------------------------------------------------------
(* The invariant, and what follows from it. *)

\* The program starts in a state that satisfies IInv.
LEMMA InitIInv == Init => IInv
<1>. SUFFICES ASSUME Init PROVE IInv
  OBVIOUS
<1>1. TypeOK
  BY StorageAssumption DEF Init, StorageInit, TypeOK, StorageTypeOK
<1>2. UploadFirst /\ PostFirst
  BY StorageAssumption DEF Init, StorageInit, UploadFirst, PostFirst
<1>3. OriginWhole /\ ReplicaWhole /\ FreshReplica /\ IndexMadeBy
  BY StorageAssumption DEF Init, StorageInit, OriginWhole, ReplicaWhole,
      FreshReplica,
      IndexMadeBy
<1>4. StaysSettled /\ DeleteSticks /\ LogKept
  BY StorageAssumption DEF Init, StorageInit, StaysSettled, DeleteSticks, LogKept
<1>. QED BY <1>1, <1>2, <1>3, <1>4 DEF IInv

\* Every step of the tracker keeps IInv.
LEMMA TrackerKeeps == ASSUME IInv, TrackerNext PROVE IInv'
<1>1. CASE \E n \in Nodes : Join(n)
  BY <1>1, JoinKeeps
<1>2. CASE \E f \in Files, n \in Nodes, hdr \in Hashes : StartUpload(f, n, hdr)
  <2>1. PICK f \in Files, n \in Nodes, hdr \in Hashes : StartUpload(f, n, hdr)
    BY <1>2
  <2>. QED BY <2>1, StartUploadKeeps
<1>3. CASE \E f \in Files : FanOut(f) \/ EndUpload(f) \/ AbortUpload(f)
  BY <1>3, FanOutKeeps, EndUploadKeeps, AbortUploadKeeps
<1>4. CASE \E f \in Files, n \in Nodes : SyncStep(f, n)
  <2>1. PICK f \in Files, n \in Nodes : SyncStep(f, n)
    BY <1>4
  <2>. QED BY <2>1, SkipSyncKeeps, PostSyncKeeps, FailSyncKeeps, ConfirmSyncKeeps
           DEF SyncStep
<1>5. CASE \E d \in Deletes, f \in Files, h \in Hashes : Delete(d, f, h)
  <2>1. PICK d \in Deletes, f \in Files, h \in Hashes : Delete(d, f, h)
    BY <1>5
  <2>. QED BY <2>1, DeleteKeeps
<1>6. CASE \E d \in Deletes, n \in Nodes : RmStep(d, n)
  <2>1. PICK d \in Deletes, n \in Nodes : RmStep(d, n)
    BY <1>6
  <2>. QED BY <2>1, SkipDeleteKeeps, PostDeleteKeeps, FailDeleteKeeps,
              ConfirmDeleteKeeps
           DEF RmStep
<1>7. CASE CrashTracker \/ RepairSyncFail
  BY <1>7, EndProcessKeeps DEF CrashTracker, RepairSyncFail
<1>. QED BY <1>1, <1>2, <1>3, <1>4, <1>5, <1>6, <1>7 DEF TrackerNext

\* Every step of a storage node keeps IInv.
LEMMA StorageKeeps == ASSUME IInv, StorageNext PROVE IInv'
<1>1. CASE \E f \in Files : UploadHandler(f)
  BY <1>1, FindExistingKeeps, ReplyExistingKeeps, FindNoneKeeps,
     RejectUploadKeeps, TearUploadKeeps, SaveUploadKeeps, RemoveDamagedKeeps, IndexUploadKeeps
     DEF UploadHandler, UploadStep
<1>2. CASE \E f \in Files, n \in Nodes : AddHandler(f, n)
  <2>1. PICK f \in Files, n \in Nodes : AddHandler(f, n)
    BY <1>2
  <2>. QED BY <2>1, RejectAddKeeps, ProbeSourceKeeps, OpenSourceKeeps,
              CreateReplicaKeeps, CopyReplicaKeeps, TearReplicaKeeps,
              StatReplicaKeeps, IndexReplicaKeeps
           DEF AddHandler, AddHandlerStep
<1>3. CASE \E d \in Deletes, n \in Nodes : DeleteHandler(d, n)
  <2>1. PICK d \in Deletes, n \in Nodes : DeleteHandler(d, n)
    BY <1>3
  <2>. QED BY <2>1, StatDeleteKeeps, RemoveFileKeeps, FailRemoveKeeps,
              UnindexFileKeeps
           DEF DeleteHandler, DelHandlerStep
<1>4. CASE \E n \in CrashNodes : Crash(n)
  BY <1>4, CrashStorageKeeps, StorageAssumption DEF Crash
<1>. QED BY <1>1, <1>2, <1>3, <1>4 DEF StorageNext

\* Stuttering keeps IInv.
LEMMA StutterKeeps == ASSUME IInv, UNCHANGED vars PROVE IInv'
BY DEF IInv, vars, TypeOK, StorageTypeOK, UploadFirst, PostFirst, OriginWhole,
       ReplicaWhole, FreshReplica, IndexMadeBy, StaysSettled, Settled, DeleteSticks,
       LogKept

\* IInv holds in every reachable state.
THEOREM Inductive == Spec => []IInv
<1>1. IInv /\ [Next]_vars => IInv'
  BY TrackerKeeps, StorageKeeps, StutterKeeps DEF Next
<1>. QED BY <1>1, InitIInv, PTL DEF Spec

\* Every variable keeps its type.
THEOREM TypeCorrect == Spec => []TypeOK
<1>1. IInv => TypeOK
  BY DEF IInv
<1>. QED BY <1>1, Inductive, PTL

\* An index entry made by an upload or a copy leads to the whole file with that
\* MD5 until a delete of the file is asked for (storage.go:70, 147, 325).
THEOREM IndexIsSound == Spec => []IndexSound
<1>1. ASSUME IInv PROVE IndexSound
  <2>. SUFFICES ASSUME NEW n \in Nodes, NEW h \in Contents,
                       db[n][h] # NoFile, db[n][h] \notin asked
                PROVE  disk[n][db[n][h]] = h /\ ContentOf[db[n][h]] = h
    BY DEF IndexSound
  <2>. DEFINE f == db[n][h]
  <2>1. f \in Files
    BY <1>1 DEF IInv, TypeOK, StorageTypeOK
  <2>2. ContentOf[f] = h /\ (n = upNode[f] \/ addPc[f][n] = "done")
    BY <1>1 DEF IInv, IndexMadeBy
  <2>3. CASE n = upNode[f]
    BY <1>1, <2>1, <2>2, <2>3 DEF IInv, UploadFirst, OriginWhole
  <2>4. CASE addPc[f][n] = "done"
    BY <1>1, <2>1, <2>2, <2>4 DEF IInv, ReplicaWhole
  <2>. QED BY <2>2, <2>3, <2>4
<1>. QED BY <1>1, Inductive, PTL

\* A confirmed copy is whole, and a failed copy or delete is on the sync-err log
\* (tracker.go:333, 344, 381, 401).
THEOREM SyncIsAccounted == Spec => []SyncAccounted
<1>1. IInv => SyncAccounted
  BY DEF IInv, SyncAccounted, PostFirst, ReplicaWhole, LogKept
<1>. QED BY <1>1, Inductive, PTL

\* A delete that no copy was racing with stays effective (storage.go:340).
THEOREM DeletesStick == Spec => []DeleteSticks
<1>1. IInv => DeleteSticks
  BY DEF IInv
<1>. QED BY <1>1, Inductive, PTL

\* A file a client knows is kept whole until its delete (storage.go:147).
THEOREM AckedFilesKept == Spec => []AckedFileKept
<1>1. ASSUME IInv PROVE AckedFileKept
  <2>1. \A f \in acked : f \in Files /\ upPc[f] = "stored"
    BY <1>1 DEF IInv, TypeOK, UploadFirst
  <2>. QED BY <1>1, <2>1 DEF IInv, OriginWhole, AckedFileKept
<1>. QED BY <1>1, Inductive, PTL
=============================================================================
