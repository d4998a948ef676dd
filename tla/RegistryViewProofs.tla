------------------------- MODULE RegistryViewProofs -------------------------
(***************************************************************************)
(* Proof that Registry implements GroupView: in a state that satisfies     *)
(* IInv, every step of a report's handler, of a proxied request and of the *)
(* environment is, to a reader of the registry, one step of GroupView or   *)
(* no step at all.                                                         *)
(***************************************************************************)
EXTENDS RegistryProofs

USE DEF storageVars, groupVars, reportVars, scanVars, requestVars, Locked, Ages

\* What a reader sees is unchanged if storages, groups, the requests that may
\* still set a storage Offline, and the progress of the handler are.
LEMMA NotSeen ==
    ASSUME UNCHANGED <<storageVars, groupVars>>, Suspects' = Suspects, Busy' = Busy
    PROVE  UNCHANGED GV!vars
BY DEF GV!vars

\* The suspects are told by the steps and the storages of the requests.
LEMMA SuspectsFrame ==
    ASSUME UNCHANGED <<reqPc, reqNode>> PROVE Suspects' = Suspects
BY DEF Suspects

\* Whether a saved report is still to be shown is told by the reports' steps.
LEMMA BusyFrame == ASSUME UNCHANGED repPc PROVE Busy' = Busy
BY DEF Busy

\* A group's registered storages are its members in GroupView.
LEMMA SameMembers == ASSUME NEW g \in Groups PROVE Registered(g) = GV!Members(g)
BY DEF Registered, GV!Members

\* Both modules ask the same of what a group shows.
LEMMA SameAgrees == ASSUME NEW g \in Groups PROVE Agrees(g) <=> GV!Agrees(g)
BY SameMembers DEF Agrees, GV!Agrees, GV!Least, Roomy, GV!Roomy

-----------------------------------------------------------------------------
(* The environment. *)

\* Storages that stop and start are not seen.
LEMMA StopStartSeen ==
    ASSUME NEW n \in Nodes, Stop(n) \/ Start(n) PROVE UNCHANGED GV!vars
BY NotSeen, SuspectsFrame, BusyFrame DEF Stop, Start

\* Time passes for the registry as for GroupView.
LEMMA TickSeen == ASSUME IInv, Tick PROVE GV!Tick
<1>1. UNCHANGED <<status, free, gStatus, gCap, Suspects, Busy>>
  BY SuspectsFrame, BusyFrame DEF Tick
<1>2. age' = [n \in Nodes |->
          IF status[n] = "none" \/ age[n] > Patience THEN age[n] ELSE age[n] + 1]
  BY DEF Tick, Older
<1>. QED BY <1>1, <1>2 DEF GV!Tick

\* The end of the tracker's process forgets everything.
LEMMA RestartSeen == ASSUME Restart PROVE GV!Forget
<1>1. Suspects' = {}
  BY DEF Restart, Suspects
<1>2. Busy' = FALSE
  BY DEF Restart, Busy
<1>. QED BY <1>1, <1>2 DEF Restart, GV!Forget

-----------------------------------------------------------------------------
(* A report and SetTrackerStatus. *)

\* A report that arrives, waits or takes t.lock is not seen yet.
LEMMA ArrivalSeen ==
    ASSUME IInv, NEW r \in Reports,
           Lock(r) \/ \E space \in Frees : Report(r, space)
    PROVE  UNCHANGED GV!vars
<1>1. \A s \in Reports :
          repPc'[s] \in {"registered", "scan", "cap"}
              <=> repPc[s] \in {"registered", "scan", "cap"}
  BY DEF IInv, TypeOK, Lock, Report
<1>2. Busy' = Busy
  BY <1>1 DEF Busy
<1>3. UNCHANGED <<storageVars, groupVars, reqPc, reqNode>>
  BY DEF Lock, Report
<1>. QED BY <1>2, <1>3, NotSeen, SuspectsFrame

\* What a report says of its storage becomes known in one step, when no other
\* report is in progress.
LEMMA SavedSeen ==
    ASSUME IInv, NEW r \in Reports, repPc[r] = "locked", SaveOrUpdateStorage(r),
           reqNode' = reqNode, repPc'[r] \in {"registered", "scan"},
           IF gStatus[GroupOf[Sender[r]]] = "none"
           THEN /\ gStatus' = [gStatus EXCEPT ![GroupOf[Sender[r]]] = "Active"]
                /\ gCap' = [gCap EXCEPT ![GroupOf[Sender[r]]] = repFree[r]]
           ELSE UNCHANGED groupVars
    PROVE  GV!Next
<1>. DEFINE n == Sender[r]
<1>1. n \in Nodes /\ repFree[r] \in Frees \cup {0} /\ repAge[r] \in GV!Ages
  BY RegistryAssumption DEF IInv, TypeOK, GV!Ages
<1>2. Busy = FALSE
  BY DEF Busy, IInv, TypeOK, Exclusive
<1>3. Busy' = TRUE
  BY DEF Busy
<1>4. Suspects' = Suspects \ {n}
  BY DEF Suspects, SaveOrUpdateStorage
<1>5. status' = [status EXCEPT ![n] =
          IF repFree[r] > MinStorageSpace THEN "Active" ELSE "NotEnoughSpace"]
  <2>1. repFree[r] \in Nat /\ MinStorageSpace \in Nat
    <3>1. Frees \cup {0} \subseteq Nat /\ MinStorageSpace \in Nat
      BY RegistryAssumption
    <3>. QED BY <1>1, <3>1
  <2>2. Rating(repFree[r]) =
            IF repFree[r] > MinStorageSpace THEN "Active" ELSE "NotEnoughSpace"
    BY <2>1 DEF Rating
  <2>. QED BY <2>2 DEF SaveOrUpdateStorage
<1>6. GV!Hear(n)
  BY <1>1, <1>2, <1>3, <1>4, <1>5 DEF GV!Hear, SaveOrUpdateStorage
<1>. QED BY <1>1, <1>6 DEF GV!Next

\* The registration of a group is such a step.
LEMMA RegisterGroupSeen ==
    ASSUME IInv, NEW r \in Reports, RegisterGroup(r) PROVE GV!Next
<1>1. repPc'[r] = "registered"
  BY DEF RegisterGroup, IInv, TypeOK
<1>. QED BY <1>1, SavedSeen DEF RegisterGroup

\* So is the save of a storage of a known group; that of a new group's first
\* storage changes nothing any more.
LEMMA SaveSeen ==
    ASSUME IInv, NEW r \in Reports, Save(r) PROVE GV!Next \/ UNCHANGED GV!vars
<1>1. repPc'[r] = "scan"
  BY DEF Save, IInv, TypeOK
<1>2. CASE repPc[r] = "locked"
  BY <1>1, <1>2, SavedSeen DEF Save
<1>3. CASE repPc[r] = "registered"
  <2>1. Busy' = Busy
    BY <1>1, <1>3 DEF Busy
  <2>2. UNCHANGED <<storageVars, groupVars, reqPc, reqNode>>
    BY <1>3 DEF Save
  <2>. QED BY <2>1, <2>2, NotSeen, SuspectsFrame
<1>. QED BY <1>2, <1>3 DEF Save

\* Turning to the next group is not seen.
LEMMA NextGroupSeen ==
    ASSUME NEW r \in Reports, NEW g \in Groups, NextGroup(r, g) PROVE UNCHANGED GV!vars
BY NotSeen, SuspectsFrame, BusyFrame DEF NextGroup

\* A storage that is looked at ages out, or nothing is seen.
LEMMA CheckStorageSeen ==
    ASSUME NEW r \in Reports, NEW n \in Nodes, CheckStorage(r, n)
    PROVE  GV!Next \/ UNCHANGED GV!vars
<1>1. Busy /\ UNCHANGED <<free, age, groupVars, Suspects, Busy>>
  BY SuspectsFrame, BusyFrame DEF CheckStorage, Busy
<1>2. CASE status' = status
  BY <1>1, <1>2, NotSeen
<1>3. CASE status' # status
  <2>1. GV!AgeOut(n)
    BY <1>1, <1>3 DEF CheckStorage, GV!AgeOut
  <2>. QED BY <2>1 DEF GV!Next
<1>. QED BY <1>2, <1>3

\* A report that goes from one busy step to another leaves the registry busy.
LEMMA StaysBusy ==
    ASSUME IInv, NEW r \in Reports, repPc[r] \in {"scan", "cap"},
           repPc'[r] \in {"scan", "cap"}
    PROVE  Busy = TRUE /\ Busy' = TRUE
BY DEF Busy

\* The status published of a group fits the storages of that moment.
LEMMA PublishStatusSeen ==
    ASSUME IInv, NEW r \in Reports, PublishStatus(r) PROVE GV!Next
<1>1. repPc[r] = "scan" /\ repPc'[r] = "cap"
  BY DEF PublishStatus, IInv, TypeOK
<1>2. Busy = TRUE /\ Busy' = TRUE
  BY <1>1, StaysBusy
<1>3. UNCHANGED <<storageVars, gCap, Suspects>>
  BY SuspectsFrame DEF PublishStatus
<1>4. cur \in Groups /\ gStatus[cur] # "none" /\ Registered(cur) = GV!Members(cur)
  BY SameMembers DEF PublishStatus, IInv, TypeOK, Recomputed
<1>5. CASE found
  <2>1. \E m \in GV!Members(cur) : GV!Roomy(m)
    BY <1>4, <1>5 DEF IInv, Recomputed, PublishStatus, Roomy, GV!Roomy
  <2>2. GV!ShowStatus(cur)
    BY <1>2, <1>3, <1>4, <1>5, <2>1 DEF PublishStatus, GV!ShowStatus
  <2>. QED BY <1>4, <2>2 DEF GV!Next
<1>6. CASE ~found
  <2>1. \A n \in GV!Members(cur) : status[n] # "Active"
    BY <1>4, <1>6 DEF PublishStatus, IInv, Recomputed
  <2>2. GV!ShowStatus(cur)
    BY <1>2, <1>3, <1>4, <1>6, <2>1 DEF PublishStatus, GV!ShowStatus
  <2>. QED BY <1>4, <2>2 DEF GV!Next
<1>. QED BY <1>5, <1>6

\* So does the capacity published after it, though a storage may have been given
\* up in between.
LEMMA PublishCapSeen ==
    ASSUME IInv, NEW r \in Reports, PublishCap(r) PROVE GV!Next
<1>1. repPc[r] = "cap" /\ repPc'[r] = "scan"
  BY DEF PublishCap, IInv, TypeOK
<1>2. Busy = TRUE /\ Busy' = TRUE
  BY <1>1, StaysBusy
<1>3. UNCHANGED <<storageVars, gStatus, Suspects>>
  BY SuspectsFrame DEF PublishCap
<1>4. /\ cur \in Groups /\ Registered(cur) = GV!Members(cur)
      /\ gStatus[cur] = IF found THEN "Active" ELSE "Unavailable"
  BY <1>1, SameMembers DEF IInv, TypeOK, Recomputed
<1>5. CASE found
  <2>1. PICK n \in Registered(cur) :
            /\ \A m \in Registered(cur) : free[n] <= free[m]
            /\ gCap' = [gCap EXCEPT ![cur] = free[n]]
    BY <1>5 DEF PublishCap
  <2>2. free[n] \in Frees \cup {0} /\ GV!Least(cur, free[n])
    BY <1>4, <2>1 DEF GV!Least, Registered, IInv, TypeOK
  <2>3. GV!ShowCap(cur)
    BY <1>2, <1>3, <1>4, <1>5, <2>1, <2>2 DEF GV!ShowCap
  <2>. QED BY <1>4, <2>3 DEF GV!Next
<1>6. CASE ~found
  <2>1. GV!ShowCap(cur)
    BY <1>2, <1>3, <1>4, <1>6 DEF PublishCap, GV!ShowCap
  <2>. QED BY <1>4, <2>1 DEF GV!Next
<1>. QED BY <1>5, <1>6

\* When the handler returns, every group shows what follows from its storages.
LEMMA UnlockSeen ==
    ASSUME IInv, NEW r \in Reports, Unlock(r) PROVE GV!Next
<1>1. repPc[r] = "scan" /\ lock = r /\ cur = NoGroup /\ todo = {}
  BY DEF Unlock, IInv, Exclusive
<1>2. \A s \in Reports : s # r => repPc[s] \notin Locked
  BY <1>1 DEF IInv, Exclusive
<1>3. Busy = TRUE
  BY <1>1 DEF Busy
<1>4. Busy' = FALSE
  BY <1>1, <1>2 DEF Busy, Unlock, IInv, TypeOK
<1>5. \A g \in Groups : Agrees(g)
  BY <1>1, <1>2, RegistryAssumption DEF IInv, Recomputed
<1>6. UNCHANGED <<storageVars, groupVars, Suspects>>
  BY SuspectsFrame DEF Unlock
<1>7. GV!Settle
  BY <1>3, <1>4, <1>5, <1>6, SameAgrees DEF GV!Settle
<1>. QED BY <1>7 DEF GV!Next

-----------------------------------------------------------------------------
(* Proxied requests. *)

\* A request is not seen until the proxy fails.
LEMMA RequestSeen ==
    ASSUME IInv, NEW q \in Requests,
           \/ \E g \in Groups : SelectGroupForUpload(q, g) \/ Download(q, g)
           \/ \E n \in Nodes : SelectStorageIPHash(q, n)
           \/ NoStorage(q) \/ Answer(q)
    PROVE  UNCHANGED GV!vars
<1>1. UNCHANGED <<storageVars, groupVars, repPc>>
  BY DEF SelectGroupForUpload, Download, SelectStorageIPHash, NoStorage, Answer, RequestGo
<1>2. /\ reqPc[q] # "abort" /\ reqPc'[q] # "abort"
      /\ \A p \in Requests \ {q} : reqPc'[p] = reqPc[p] /\ reqNode'[p] = reqNode[p]
  BY DEF SelectGroupForUpload, Download, SelectStorageIPHash, NoStorage, Answer,
         RequestGo, IInv, TypeOK
<1>3. Suspects' = Suspects
  BY <1>2 DEF Suspects
<1>. QED BY <1>1, <1>3, NotSeen, BusyFrame

\* When it does, its storage, which is registered, becomes a suspect.
LEMMA AbortSeen ==
    ASSUME IInv, NEW q \in Requests, Abort(q) PROVE GV!Next
<1>1. UNCHANGED <<storageVars, groupVars, Busy>>
  BY BusyFrame DEF Abort, RequestGo
<1>2. reqNode[q] \in Nodes /\ status[reqNode[q]] # "none"
  BY DEF Abort, IInv, GroupFirst, Registered
<1>3. Suspects' = Suspects \cup {reqNode[q]}
  BY DEF Suspects, Abort, RequestGo, IInv, TypeOK
<1>4. GV!Suspect(reqNode[q])
  BY <1>1, <1>2, <1>3 DEF GV!Suspect
<1>. QED BY <1>2, <1>4 DEF GV!Next

\* A suspect is given up, unless it has reported since.
LEMMA SetOfflineSeen ==
    ASSUME IInv, NEW q \in Requests, SetOffline(q) PROVE GV!Next \/ UNCHANGED GV!vars
<1>. DEFINE n == reqNode[q]
<1>1. UNCHANGED <<free, age, groupVars, Busy>>
  BY BusyFrame DEF SetOffline
<1>2. /\ reqPc'[q] = "idle"
      /\ \A p \in Requests \ {q} : reqPc'[p] = reqPc[p] /\ reqNode'[p] = reqNode[p]
  BY DEF SetOffline, IInv, TypeOK
<1>3. CASE reqPc[q] = "abort"
  <2>1. n \in Nodes /\ n \in Suspects
    BY <1>3 DEF Suspects, IInv, GroupFirst, Registered
  <2>2. Suspects' \in {Suspects, Suspects \ {n}}
    <3>1. Suspects' \subseteq Suspects
      BY <1>2 DEF Suspects
    <3>2. Suspects \ {n} \subseteq Suspects'
      BY <1>2 DEF Suspects
    <3>. QED BY <3>1, <3>2
  <2>3. GV!GiveUp(n)
    BY <1>1, <1>3, <2>1, <2>2 DEF GV!GiveUp, SetOffline
  <2>. QED BY <2>1, <2>3 DEF GV!Next
<1>4. CASE reqPc[q] = "stale"
  <2>1. Suspects' = Suspects
    BY <1>2, <1>4 DEF Suspects
  <2>2. status' = status
    BY <1>4 DEF SetOffline
  <2>. QED BY <1>1, <2>1, <2>2, NotSeen
<1>. QED BY <1>3, <1>4 DEF SetOffline

-----------------------------------------------------------------------------
\* Every step of Registry is a step of GroupView or none.
LEMMA StepSeen == ASSUME IInv, [Next]_vars PROVE [GV!Next]_(GV!vars)
<1>1. CASE Environment
  BY <1>1, StopStartSeen, TickSeen, RestartSeen DEF Environment, GV!Next
<1>2. CASE \E n \in Nodes : SendReport(n)
  BY <1>2, ArrivalSeen DEF SendReport
<1>3. CASE \E r \in Reports : HandleReport(r)
  BY <1>3, ArrivalSeen, RegisterGroupSeen, SaveSeen, NextGroupSeen,
     CheckStorageSeen, PublishStatusSeen, PublishCapSeen, UnlockSeen DEF HandleReport
<1>4. CASE \E q \in Requests : HandleRequest(q)
  BY <1>4, RequestSeen, AbortSeen, SetOfflineSeen DEF HandleRequest
<1>5. CASE UNCHANGED vars
  BY <1>5, NotSeen, SuspectsFrame, BusyFrame DEF vars
<1>. QED BY <1>1, <1>2, <1>3, <1>4, <1>5 DEF Next

\* The empty registry is GroupView's first state.
LEMMA InitSeen == Init => GV!Init
<1>. SUFFICES ASSUME Init PROVE GV!Init
  OBVIOUS
<1>1. Suspects = {} /\ Busy = FALSE
  BY DEF Init, Suspects, Busy
<1>. QED BY <1>1 DEF Init, GV!Init

\* Registry implements GroupView: with any reports, requests, restarts and
\* delays, the fine-grained handlers look like one step per storage, per group's
\* status and per group's capacity, whose outcome fits the storages of that moment,
\* and a request that fails late never undoes a newer report (tracker.go:422, tracker_proxy.go:65).
THEOREM ViewRefinement == Spec => KeepsView
<1>1. IInv /\ [Next]_vars => [GV!Next]_(GV!vars)
  BY StepSeen
<1>. QED BY <1>1, InitSeen, Inductive, PTL DEF Spec, KeepsView, GV!Spec
=============================================================================
