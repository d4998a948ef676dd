--------------------------- MODULE RegistryProofs ---------------------------
(***************************************************************************)
(* Proofs about Registry: with any storages, groups, reports and requests, *)
(* any patience and any number of restarts, IInv is an invariant, and with *)
(* it type correctness, NoneHidden, CapIsLeast and ActiveHasRoom.  Each    *)
(* action has a lemma; the parts of IInv it leaves alone share one step.   *)
(***************************************************************************)
EXTENDS Registry, TLAPS

\* Tuples of variables and the sets of ages and locked steps are always expanded.
USE DEF storageVars, groupVars, reportVars, scanVars, requestVars, Locked, Ages

\* Time keeps an age within its bound.
LEMMA OlderAge == ASSUME NEW a \in Ages PROVE Older(a) \in Ages
BY RegistryAssumption DEF Older

\* A report registers its storage as Active or as full.
LEMMA RatingType == \A space : Rating(space) \in {"Active", "NotEnoughSpace"}
BY DEF Rating

\* Only a storage with more than the minimum is rated Active.
LEMMA RatingRoomy ==
    \A space \in Frees \cup {0} : Rating(space) = "Active" => space > MinStorageSpace
BY RegistryAssumption DEF Rating

\* The empty registry satisfies IInv.
LEMMA InitIInv == Init => IInv
<1>. SUFFICES ASSUME Init PROVE IInv
  OBVIOUS
<1>1. TypeOK
  <2>1. 0 \in Ages
    BY RegistryAssumption DEF Init
  <2>. QED BY <2>1 DEF Init, TypeOK
<1>2. Exclusive /\ GroupFirst /\ ActiveRoomy
  BY RegistryAssumption DEF Init, Exclusive, GroupFirst, ActiveRoomy
<1>3. Recomputed
  <2>1. \A g \in Groups : Agrees(g)
    BY DEF Init, Agrees
  <2>. QED BY <2>1, RegistryAssumption DEF Init, Recomputed
<1>. QED BY <1>1, <1>2, <1>3 DEF IInv

-----------------------------------------------------------------------------
(* The environment. *)

\* A storage that stops keeps IInv.
LEMMA StopKeeps ==
    ASSUME IInv, NEW n \in Nodes, Stop(n)
    PROVE  IInv'
<1>1. TypeOK'
  BY DEF IInv, TypeOK, Stop
<1>2. (Exclusive /\ GroupFirst /\ Recomputed /\ ActiveRoomy)'
  BY DEF IInv, Exclusive, GroupFirst, Recomputed, Registered, Agrees,
      KnownGroups, ActiveRoomy, Roomy, Stop
<1>. QED BY <1>1, <1>2 DEF IInv

\* A storage that starts keeps IInv.
LEMMA StartKeeps ==
    ASSUME IInv, NEW n \in Nodes, Start(n)
    PROVE  IInv'
<1>1. TypeOK'
  BY DEF IInv, TypeOK, Start
<1>2. (Exclusive /\ GroupFirst /\ Recomputed /\ ActiveRoomy)'
  BY DEF IInv, Exclusive, GroupFirst, Recomputed, Registered, Agrees,
      KnownGroups, ActiveRoomy, Roomy, Start
<1>. QED BY <1>1, <1>2 DEF IInv

\* The passing of time keeps IInv.
LEMMA TickKeeps ==
    ASSUME IInv, Tick
    PROVE  IInv'
<1>1. TypeOK'
  BY OlderAge DEF IInv, TypeOK, Tick
<1>2. (Exclusive /\ GroupFirst /\ Recomputed /\ ActiveRoomy)'
  BY DEF IInv, Exclusive, GroupFirst, Recomputed, Registered, Agrees,
      KnownGroups, ActiveRoomy, Roomy, Tick
<1>. QED BY <1>1, <1>2 DEF IInv

\* A restart of the tracker keeps IInv.
LEMMA RestartKeeps ==
    ASSUME IInv, Restart
    PROVE  IInv'
<1>1. TypeOK'
  <2>1. (up \in SUBSET Nodes)'
    BY DEF IInv, TypeOK, Restart
  <2>2. (repAge \in [Reports -> Ages] /\ age \in [Nodes -> Ages])'
    BY RegistryAssumption DEF Restart
  <2>. QED BY <2>1, <2>2 DEF TypeOK, Restart
<1>2. Exclusive'
  BY RegistryAssumption DEF IInv, TypeOK, Exclusive, Restart
<1>3. GroupFirst'
  BY DEF IInv, TypeOK, GroupFirst, Registered, Restart
<1>4. Recomputed'
  BY DEF IInv, TypeOK, Recomputed, Agrees, Roomy, Registered, KnownGroups, Restart
<1>5. ActiveRoomy'
  BY DEF IInv, ActiveRoomy, Roomy, Restart
<1>. QED BY <1>1, <1>2, <1>3, <1>4, <1>5 DEF IInv

-----------------------------------------------------------------------------
(* A report and SetTrackerStatus. *)

\* A report that arrives keeps IInv.
LEMMA ReportKeeps ==
    ASSUME IInv, NEW r \in Reports, NEW space \in Frees, Report(r, space)
    PROVE  IInv'
<1>1. TypeOK'
  BY RegistryAssumption DEF IInv, TypeOK, Report
<1>2. Exclusive'
  BY RegistryAssumption DEF IInv, TypeOK, Exclusive, Report
<1>3. GroupFirst'
  BY DEF IInv, TypeOK, GroupFirst, Registered, Report
<1>4. Recomputed'
  BY DEF IInv, TypeOK, Recomputed, Agrees, Roomy, Registered, KnownGroups, Report
<1>5. ActiveRoomy'
  BY DEF IInv, ActiveRoomy, Roomy, Report
<1>. QED BY <1>1, <1>2, <1>3, <1>4, <1>5 DEF IInv

\* Taking t.lock keeps IInv.
LEMMA LockKeeps ==
    ASSUME IInv, NEW r \in Reports, Lock(r)
    PROVE  IInv'
<1>1. TypeOK'
  BY DEF IInv, TypeOK, Lock
<1>2. Exclusive'
  BY RegistryAssumption DEF IInv, TypeOK, Exclusive, Lock
<1>3. GroupFirst'
  BY DEF IInv, TypeOK, GroupFirst, Registered, Lock
<1>4. Recomputed'
  BY DEF IInv, TypeOK, Recomputed, Agrees, Roomy, Registered, KnownGroups, Lock
<1>5. ActiveRoomy'
  BY DEF IInv, ActiveRoomy, Roomy, Lock
<1>. QED BY <1>1, <1>2, <1>3, <1>4, <1>5 DEF IInv

\* The registration of a group keeps IInv.
LEMMA RegisterGroupKeeps ==
    ASSUME IInv, NEW r \in Reports, RegisterGroup(r)
    PROVE  IInv'
<1>1. TypeOK'
  BY RegistryAssumption, RatingType DEF IInv, TypeOK, RegisterGroup,
      SaveOrUpdateStorage
<1>2. Exclusive'
  BY RegistryAssumption DEF IInv, TypeOK, Exclusive, RegisterGroup,
      SaveOrUpdateStorage
<1>3. GroupFirst'
  <2>1. status' = [status EXCEPT ![Sender[r]] = Rating(repFree[r])]
    BY DEF RegisterGroup, SaveOrUpdateStorage
  <2>2. \A n \in Nodes : status[n] # "none" \/ n = Sender[r] => status'[n] # "none"
    BY <2>1, RatingType DEF IInv, TypeOK
  <2>3. \A n \in Nodes : n # Sender[r] => status'[n] = status[n]
    BY <2>1 DEF IInv, TypeOK
  <2>4. \A g \in Groups : gStatus[g] # "none" \/ g = GroupOf[Sender[r]] => gStatus'[g] # "none"
    BY DEF IInv, TypeOK, RegisterGroup
  <2>5. \A q \in Requests : reqPc'[q] \in {"proxied", "abort"} =>
            reqPc[q] \in {"proxied", "abort"} /\ reqNode'[q] = reqNode[q]
    BY DEF IInv, TypeOK, RegisterGroup, SaveOrUpdateStorage
  <2>6. \A g \in Groups : Registered(g) \subseteq Registered(g)'
    BY <2>2 DEF Registered
  <2>7. (\A n \in Nodes : status[n] # "none" => gStatus[GroupOf[n]] # "none")'
    BY <2>3, <2>4, RegistryAssumption DEF IInv, GroupFirst
  <2>8. (\A q \in Requests : reqPc[q] \in {"proxied", "abort"} => reqNode[q] \in Registered(reqGroup[q]))'
    BY <2>2, <2>5, RegistryAssumption DEF IInv, GroupFirst, Registered, RegisterGroup
  <2>9. (\A s \in Reports : repPc[s] = "registered" => gStatus[GroupOf[Sender[s]]] # "none")'
    BY <2>4, RegistryAssumption DEF IInv, TypeOK, GroupFirst, RegisterGroup
  <2>. QED BY <2>7, <2>8, <2>9 DEF GroupFirst
<1>4. Recomputed'
  BY DEF IInv, TypeOK, Recomputed, Agrees, Roomy, Registered, KnownGroups,
      RegisterGroup, SaveOrUpdateStorage
<1>5. ActiveRoomy'
  BY RegistryAssumption, RatingRoomy
     DEF IInv, TypeOK, ActiveRoomy, Roomy, RegisterGroup, SaveOrUpdateStorage
<1>. QED BY <1>1, <1>2, <1>3, <1>4, <1>5 DEF IInv

\* Saving the storage keeps IInv.
LEMMA SaveKeeps ==
    ASSUME IInv, NEW r \in Reports, Save(r)
    PROVE  IInv'
<1>1. TypeOK'
  <2>1. (status \in [Nodes -> {"none", "Active", "Offline", "NotEnoughSpace"}])'
    BY RatingType DEF IInv, TypeOK, Save, SaveOrUpdateStorage
  <2>2. (free \in [Nodes -> Frees \cup {0}] /\ age \in [Nodes -> Ages])'
    BY DEF IInv, TypeOK, Save, SaveOrUpdateStorage
  <2>3. (todo \in SUBSET Groups)'
    BY DEF Save, KnownGroups
  <2>4. (reqPc \in [Requests -> {"idle", "upload", "download", "proxied", "abort", "stale"}])'
    BY DEF IInv, TypeOK, Save, SaveOrUpdateStorage
  <2>. QED BY <2>1, <2>2, <2>3, <2>4, RegistryAssumption DEF IInv, TypeOK, Save
<1>2. Exclusive'
  BY RegistryAssumption DEF IInv, TypeOK, Exclusive, Save, SaveOrUpdateStorage
<1>3. GroupFirst'
  BY RegistryAssumption, RatingType DEF IInv, TypeOK, Exclusive, GroupFirst,
      Registered, Save, SaveOrUpdateStorage
<1>4. Recomputed'
  BY RegistryAssumption DEF IInv, TypeOK, Exclusive, GroupFirst, Recomputed,
      Agrees, Roomy, Registered, KnownGroups, Save, SaveOrUpdateStorage
<1>5. ActiveRoomy'
  <2>1. CASE SaveOrUpdateStorage(r)
    BY <2>1, RegistryAssumption, RatingRoomy
       DEF IInv, TypeOK, ActiveRoomy, Roomy, SaveOrUpdateStorage
  <2>2. CASE UNCHANGED <<storageVars, reqPc>>
    BY <2>2 DEF IInv, ActiveRoomy, Roomy
  <2>. QED BY <2>1, <2>2 DEF Save
<1>. QED BY <1>1, <1>2, <1>3, <1>4, <1>5 DEF IInv

\* Turning to the next group keeps IInv.
LEMMA NextGroupKeeps ==
    ASSUME IInv, NEW r \in Reports, NEW g \in Groups, NextGroup(r, g)
    PROVE  IInv'
<1>1. TypeOK'
  <2>1. (left \in SUBSET Nodes)'
    BY DEF NextGroup, Registered
  <2>2. (todo \in SUBSET Groups)'
    BY DEF IInv, TypeOK, NextGroup
  <2>. QED BY <2>1, <2>2 DEF IInv, TypeOK, NextGroup
<1>2. Recomputed'
  BY RegistryAssumption DEF IInv, TypeOK, Exclusive, Recomputed, Agrees, Roomy,
      Registered, KnownGroups, NextGroup
<1>3. (Exclusive /\ GroupFirst /\ ActiveRoomy)'
  BY DEF IInv, Exclusive, GroupFirst, ActiveRoomy, Roomy, Registered, NextGroup
<1>. QED BY <1>1, <1>2, <1>3 DEF IInv

\* Looking at one storage keeps IInv.
LEMMA CheckStorageKeeps ==
    ASSUME IInv, NEW r \in Reports, NEW n \in Nodes, CheckStorage(r, n)
    PROVE  IInv'
<1>1. TypeOK'
  BY DEF IInv, TypeOK, CheckStorage
<1>2. Exclusive'
  BY DEF IInv, Exclusive, CheckStorage
<1>3. GroupFirst' /\ Recomputed' /\ ActiveRoomy'
  <2>1. /\ \A m \in Nodes : status'[m] = "none" <=> status[m] = "none"
        /\ \A m \in Nodes : status'[m] = "Active" => status[m] = "Active"
        /\ \A m \in Nodes \ {n} : status'[m] = status[m]
        /\ UNCHANGED <<up, free, age, groupVars, reportVars, todo, cur, requestVars>>
        /\ status'[n] = "Active" => found'
        /\ found => found'
        /\ left' = left \ {n} /\ n \in left /\ repPc[r] = "scan"
    BY DEF IInv, TypeOK, CheckStorage
  <2>2. \A g \in Groups : Registered(g)' = Registered(g)
    BY <2>1 DEF Registered
  <2>3. cur # NoGroup /\ GroupOf[n] = cur
    BY <2>1 DEF IInv, Recomputed, Registered
  <2>4. GroupFirst'
    BY <2>1, <2>2, RegistryAssumption DEF IInv, GroupFirst, Registered
  <2>5. \A g \in Groups : g # cur /\ Agrees(g) => Agrees(g)'
    BY <2>1, <2>2, <2>3 DEF Agrees, Roomy, Registered
  <2>6. Recomputed'
    <3>1. (lock = NoReport => todo = {} /\ cur = NoGroup)'
      BY <2>1 DEF IInv, Recomputed
    <3>2. (cur # NoGroup => /\ gStatus[cur] # "none"
                            /\ left \subseteq Registered(cur)
                            /\ ~found => \A m \in Registered(cur) \ left : status[m] # "Active"
                            /\ found => \E m \in Registered(cur) : Roomy(m))'
      <4>1. cur' \in Groups /\ gStatus[cur] # "none" /\ left \subseteq Registered(cur)
        BY <2>1, <2>3 DEF IInv, TypeOK, Recomputed
      <4>2. ASSUME ~found', NEW m \in Registered(cur)' \ left' PROVE status'[m] # "Active"
        BY <2>1, <2>3, <4>1, <4>2 DEF IInv, Recomputed, Registered
      <4>3. ASSUME found' PROVE \E m \in Registered(cur) : Roomy(m)
        <5>1. found \/ status[n] = "Active"
          BY <4>3 DEF CheckStorage
        <5>2. status[n] = "Active" => n \in Registered(cur) /\ Roomy(n)
          BY <2>3 DEF IInv, ActiveRoomy, Registered
        <5>. QED BY <2>3, <5>1, <5>2 DEF IInv, Recomputed
      <4>. QED BY <2>1, <2>2, <4>1, <4>2, <4>3 DEF Roomy
    <3>3. (cur = NoGroup => left = {})'
      BY <2>1, <2>3
    <3>4. ((\E s \in Reports : repPc[s] \in {"locked", "registered"}) => todo = {} /\ cur = NoGroup)'
      BY <2>1 DEF IInv, Recomputed
    <3>5. (todo \subseteq KnownGroups)'
      BY <2>1 DEF IInv, Recomputed, KnownGroups
    <3>6. (\A g \in Groups : Agrees(g) \/ g \in todo \/ g = cur
             \/ \E s \in Reports : repPc[s] = "registered" /\ GroupOf[Sender[s]] = g)'
      BY <2>1, <2>5 DEF IInv, Recomputed
    <3>7. \A s \in Reports : repPc'[s] # "cap"
      BY <2>1 DEF IInv, Exclusive
    <3>. QED BY <3>1, <3>2, <3>3, <3>4, <3>5, <3>6, <3>7 DEF Recomputed
  <2>7. ActiveRoomy'
    BY <2>1 DEF IInv, ActiveRoomy, Roomy
  <2>. QED BY <2>4, <2>6, <2>7
<1>. QED BY <1>1, <1>2, <1>3 DEF IInv

\* Setting a group's Status keeps IInv.
LEMMA PublishStatusKeeps ==
    ASSUME IInv, NEW r \in Reports, PublishStatus(r)
    PROVE  IInv'
<1>1. TypeOK'
  BY DEF IInv, TypeOK, PublishStatus
<1>2. Exclusive'
  BY DEF IInv, TypeOK, Exclusive, PublishStatus
<1>3. GroupFirst'
  BY RegistryAssumption DEF IInv, TypeOK, GroupFirst, Recomputed, Registered,
      PublishStatus
<1>4. Recomputed'
  BY DEF IInv, TypeOK, Exclusive, Recomputed, Agrees, Roomy, Registered,
      KnownGroups, PublishStatus
<1>5. ActiveRoomy'
  BY DEF IInv, ActiveRoomy, Roomy, PublishStatus
<1>. QED BY <1>1, <1>2, <1>3, <1>4, <1>5 DEF IInv

\* Setting its Cap keeps IInv: now the group shows what follows from its storages.
LEMMA PublishCapKeeps ==
    ASSUME IInv, NEW r \in Reports, PublishCap(r)
    PROVE  IInv'
<1>1. TypeOK'
  <2>1. (gCap \in [Groups -> Frees \cup {0}])'
    <3>1. \A n \in Registered(cur) : free[n] \in Frees \cup {0}
      BY DEF IInv, TypeOK, Registered
    <3>. QED BY <3>1 DEF IInv, TypeOK, PublishCap
  <2>. QED BY <2>1 DEF IInv, TypeOK, PublishCap
<1>2. Exclusive'
  BY DEF IInv, TypeOK, Exclusive, PublishCap
<1>3. GroupFirst'
  BY DEF IInv, TypeOK, GroupFirst, Registered, PublishCap
<1>4. Recomputed'
  BY DEF IInv, TypeOK, Exclusive, Recomputed, Agrees, Roomy, Registered,
      KnownGroups, PublishCap
<1>5. ActiveRoomy'
  BY DEF IInv, ActiveRoomy, Roomy, PublishCap
<1>. QED BY <1>1, <1>2, <1>3, <1>4, <1>5 DEF IInv

\* Releasing t.lock keeps IInv.
LEMMA UnlockKeeps ==
    ASSUME IInv, NEW r \in Reports, Unlock(r)
    PROVE  IInv'
<1>1. TypeOK'
  BY DEF IInv, TypeOK, Unlock
<1>2. Exclusive'
  BY RegistryAssumption DEF IInv, TypeOK, Exclusive, Unlock
<1>3. GroupFirst'
  BY DEF IInv, TypeOK, GroupFirst, Registered, Unlock
<1>4. Recomputed'
  BY DEF IInv, TypeOK, Recomputed, Agrees, Roomy, Registered, KnownGroups, Unlock
<1>5. ActiveRoomy'
  BY DEF IInv, ActiveRoomy, Roomy, Unlock
<1>. QED BY <1>1, <1>2, <1>3, <1>4, <1>5 DEF IInv

-----------------------------------------------------------------------------
(* Proxied requests. *)

\* An upload's choice of a group keeps IInv.
LEMMA SelectGroupForUploadKeeps ==
    ASSUME IInv, NEW q \in Requests, NEW g \in Groups, SelectGroupForUpload(q,
        g)
    PROVE  IInv'
<1>1. TypeOK'
  BY DEF IInv, TypeOK, SelectGroupForUpload, RequestGo
<1>2. GroupFirst'
  BY DEF IInv, TypeOK, GroupFirst, Registered, SelectGroupForUpload, RequestGo
<1>3. (Exclusive /\ Recomputed /\ ActiveRoomy)'
  BY DEF IInv, Exclusive, Recomputed, ActiveRoomy, Agrees, Roomy, Registered, KnownGroups,
      SelectGroupForUpload, RequestGo
<1>. QED BY <1>1, <1>2, <1>3 DEF IInv

\* A download's check of its group keeps IInv.
LEMMA DownloadKeeps ==
    ASSUME IInv, NEW q \in Requests, NEW g \in Groups, Download(q, g)
    PROVE  IInv'
<1>1. TypeOK'
  BY DEF IInv, TypeOK, Download, RequestGo
<1>2. GroupFirst'
  BY DEF IInv, TypeOK, GroupFirst, Registered, Download, RequestGo
<1>3. (Exclusive /\ Recomputed /\ ActiveRoomy)'
  BY DEF IInv, Exclusive, Recomputed, ActiveRoomy, Agrees, Roomy, Registered, KnownGroups,
      Download, RequestGo
<1>. QED BY <1>1, <1>2, <1>3 DEF IInv

\* The choice of a storage keeps IInv.
LEMMA SelectStorageIPHashKeeps ==
    ASSUME IInv, NEW q \in Requests, NEW n \in Nodes, SelectStorageIPHash(q,
        n)
    PROVE  IInv'
<1>1. TypeOK'
  BY DEF IInv, TypeOK, SelectStorageIPHash, RequestGo
<1>2. GroupFirst'
  BY DEF IInv, TypeOK, GroupFirst, Registered, SelectStorageIPHash, RequestGo
<1>3. (Exclusive /\ Recomputed /\ ActiveRoomy)'
  BY DEF IInv, Exclusive, Recomputed, ActiveRoomy, Agrees, Roomy, Registered, KnownGroups,
      SelectStorageIPHash, RequestGo
<1>. QED BY <1>1, <1>2, <1>3 DEF IInv

\* A request that finds no storage keeps IInv.
LEMMA NoStorageKeeps ==
    ASSUME IInv, NEW q \in Requests, NoStorage(q)
    PROVE  IInv'
<1>1. TypeOK'
  BY DEF IInv, TypeOK, NoStorage, RequestGo
<1>2. GroupFirst'
  BY DEF IInv, TypeOK, GroupFirst, Registered, NoStorage, RequestGo
<1>3. (Exclusive /\ Recomputed /\ ActiveRoomy)'
  BY DEF IInv, Exclusive, Recomputed, ActiveRoomy, Agrees, Roomy, Registered, KnownGroups,
      NoStorage, RequestGo
<1>. QED BY <1>1, <1>2, <1>3 DEF IInv

\* A storage's answer keeps IInv.
LEMMA AnswerKeeps ==
    ASSUME IInv, NEW q \in Requests, Answer(q)
    PROVE  IInv'
<1>1. TypeOK'
  BY DEF IInv, TypeOK, Answer, RequestGo
<1>2. GroupFirst'
  BY DEF IInv, TypeOK, GroupFirst, Registered, Answer, RequestGo
<1>3. (Exclusive /\ Recomputed /\ ActiveRoomy)'
  BY DEF IInv, Exclusive, Recomputed, ActiveRoomy, Agrees, Roomy, Registered, KnownGroups, Answer,
      RequestGo
<1>. QED BY <1>1, <1>2, <1>3 DEF IInv

\* A proxy failure keeps IInv.
LEMMA AbortKeeps ==
    ASSUME IInv, NEW q \in Requests, Abort(q)
    PROVE  IInv'
<1>1. TypeOK'
  BY DEF IInv, TypeOK, Abort, RequestGo
<1>2. GroupFirst'
  BY DEF IInv, TypeOK, GroupFirst, Registered, Abort, RequestGo
<1>3. (Exclusive /\ Recomputed /\ ActiveRoomy)'
  BY DEF IInv, Exclusive, Recomputed, ActiveRoomy, Agrees, Roomy, Registered, KnownGroups, Abort,
      RequestGo
<1>. QED BY <1>1, <1>2, <1>3 DEF IInv

\* Marking a storage Offline keeps IInv.
LEMMA SetOfflineKeeps ==
    ASSUME IInv, NEW q \in Requests, SetOffline(q)
    PROVE  IInv'
<1>1. TypeOK'
  BY DEF IInv, TypeOK, SetOffline
<1>2. GroupFirst'
  BY DEF IInv, TypeOK, GroupFirst, Registered, SetOffline
<1>3. Recomputed'
  BY RegistryAssumption DEF IInv, TypeOK, GroupFirst, Recomputed, Agrees, Roomy,
      Registered, KnownGroups, SetOffline
<1>4. (Exclusive)'
  BY DEF IInv, Exclusive, SetOffline
<1>5. ActiveRoomy'
  BY DEF IInv, TypeOK, ActiveRoomy, Roomy, SetOffline
<1>. QED BY <1>1, <1>2, <1>3, <1>4, <1>5 DEF IInv

-----------------------------------------------------------------------------
(* The invariant, and what follows from it. *)

\* Every step of the system keeps IInv.
LEMMA NextKeeps == ASSUME IInv, Next PROVE IInv'
<1>1. CASE Environment
  BY <1>1, StopKeeps, StartKeeps, TickKeeps, RestartKeeps DEF Environment
<1>2. CASE \E n \in Nodes : SendReport(n)
  BY <1>2, ReportKeeps DEF SendReport
<1>3. CASE \E r \in Reports : HandleReport(r)
  BY <1>3, LockKeeps, RegisterGroupKeeps, SaveKeeps, NextGroupKeeps,
     CheckStorageKeeps, PublishStatusKeeps, PublishCapKeeps, UnlockKeeps DEF HandleReport
<1>4. CASE \E q \in Requests : HandleRequest(q)
  BY <1>4, SelectGroupForUploadKeeps, DownloadKeeps, SelectStorageIPHashKeeps,
     NoStorageKeeps, AnswerKeeps, AbortKeeps, SetOfflineKeeps DEF HandleRequest
<1>. QED BY <1>1, <1>2, <1>3, <1>4 DEF Next

\* Stuttering keeps IInv.
LEMMA StutterKeeps == ASSUME IInv, UNCHANGED vars PROVE IInv'
BY DEF IInv, vars, TypeOK, Exclusive, GroupFirst, Recomputed, ActiveRoomy, Agrees,
       Roomy, Registered, KnownGroups

\* IInv holds in every reachable state.
THEOREM Inductive == Spec => []IInv
<1>1. IInv /\ [Next]_vars => IInv'
  BY NextKeeps, StutterKeeps
<1>. QED BY <1>1, InitIInv, PTL DEF Spec

\* Every variable of the registry keeps its type.
THEOREM TypeCorrect == Spec => []TypeOK
<1>1. IInv => TypeOK
  BY DEF IInv
<1>. QED BY <1>1, Inductive, PTL

\* With t.lock free, nothing is left to recompute.
LEMMA AllAgree == ASSUME IInv, lock = NoReport, NEW g \in Groups PROVE Agrees(g)
BY RegistryAssumption DEF IInv, Recomputed, Exclusive

\* A group is called Unavailable only when none of its storages is Active
\* (tracker.go:438).
THEOREM NothingHidden == Spec => []NoneHidden
<1>1. IInv => NoneHidden
  BY AllAgree DEF NoneHidden, Agrees
<1>. QED BY <1>1, Inductive, PTL

\* An Active group's capacity is the least free space of its storages
\* (group.go:109, tracker.go:442).
THEOREM CapacityIsLeast == Spec => []CapIsLeast
<1>1. IInv => CapIsLeast
  BY AllAgree DEF CapIsLeast, Agrees
<1>. QED BY <1>1, Inductive, PTL

\* An Active storage, and one of an Active group's storages, reported more than
\* the minimum of free space (tracker.go:153, 163, 437).
THEOREM RoomKept == Spec => []ActiveHasRoom
<1>1. IInv => ActiveHasRoom
  BY AllAgree DEF IInv, ActiveRoomy, ActiveHasRoom, Agrees
<1>. QED BY <1>1, Inductive, PTL
=============================================================================
