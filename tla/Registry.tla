------------------------------ MODULE Registry ------------------------------
(***************************************************************************)
(* The tracker's registry of groups and storages (svc/tracker.go,          *)
(* svc/group.go, svc/tracker_proxy.go): the handlers of storage reports,   *)
(* which run concurrently and recompute every group's status under t.lock, *)
(* and the proxied requests, which read the registry without that lock and *)
(* mark a storage Offline when the proxy fails.                            *)
(*                                                                         *)
(* Time is counted in steps of Tick; a StorageServer's UpdateTime is kept  *)
(* as its age.  The registry is lost when the tracker's process ends.      *)
(***************************************************************************)
EXTENDS Naturals

CONSTANTS
    Nodes,           \* storage nodes, by address
    Groups,          \* group names
    GroupOf,         \* the group in a node's configuration
    Reports,         \* status reports: slots, reused when a handler returns
    Sender,          \* the node each report comes from
    Requests,        \* uploads and downloads being proxied: slots, reused
    Frees,           \* values a report may give for the free space
    MinStorageSpace, \* at or below this a storage is full
    Patience,        \* Ticks without a report before a storage is Offline
    NoReport, NoGroup, NoNode

ASSUME RegistryAssumption ==
    /\ GroupOf \in [Nodes -> Groups]
    /\ Sender \in [Reports -> Nodes]
    /\ Frees \subseteq Nat
    /\ MinStorageSpace \in Nat /\ Patience \in Nat
    /\ NoReport \notin Reports
    /\ NoGroup \notin Groups
    /\ NoNode \notin Nodes

VARIABLES
    up,         \* the storages whose process runs
    status, free, age,          \* a registered node's StorageServer
    gStatus, gCap,              \* a registered group's Status and Cap
    lock,       \* the report that holds t.lock
    repPc, repFree, repAge,     \* report: step, the StorageServer it built
    todo, cur, left, found,     \* SetTrackerStatus of the lock's holder
    reqPc, reqGroup, reqNode    \* proxied request: step, what it chose

storageVars == <<status, free, age>>
groupVars   == <<gStatus, gCap>>
reportVars  == <<lock, repPc, repFree, repAge>>
scanVars    == <<todo, cur, left, found>>
requestVars == <<reqPc, reqGroup, reqNode>>
vars == <<up, storageVars, groupVars, reportVars, scanVars, requestVars>>

Ages == 0 .. (Patience + 1)
Older(a) == IF a > Patience THEN a ELSE a + 1

\* The steps of a report that holds t.lock.
Locked == {"locked", "registered", "scan", "cap"}

Registered(g) == {n \in Nodes : status[n] # "none" /\ GroupOf[n] = g}
KnownGroups   == {g \in Groups : gStatus[g] # "none"}

TypeOK ==
    /\ up \in SUBSET Nodes
    /\ status \in [Nodes -> {"none", "Active", "Offline", "NotEnoughSpace"}]
    /\ free \in [Nodes -> Frees \cup {0}]
    /\ age \in [Nodes -> Ages]
    /\ gStatus \in [Groups -> {"none", "Active", "Unavailable"}]
    /\ gCap \in [Groups -> Frees \cup {0}]
    /\ lock \in Reports \cup {NoReport}
    /\ repPc \in [Reports -> {"idle", "built"} \cup Locked]
    /\ repFree \in [Reports -> Frees \cup {0}]
    /\ repAge \in [Reports -> Ages]
    /\ todo \in SUBSET Groups
    /\ cur \in Groups \cup {NoGroup}
    /\ left \in SUBSET Nodes
    /\ found \in BOOLEAN
    /\ reqPc \in [Requests ->
           {"idle", "upload", "download", "proxied", "abort", "stale"}]
    /\ reqGroup \in [Requests -> Groups \cup {NoGroup}]
    /\ reqNode \in [Requests -> Nodes \cup {NoNode}]

Init ==
    /\ up = Nodes
    /\ status = [n \in Nodes |-> "none"]
    /\ free = [n \in Nodes |-> 0]
    /\ age = [n \in Nodes |-> 0]
    /\ gStatus = [g \in Groups |-> "none"]
    /\ gCap = [g \in Groups |-> 0]
    /\ lock = NoReport
    /\ repPc = [r \in Reports |-> "idle"]
    /\ repFree = [r \in Reports |-> 0]
    /\ repAge = [r \in Reports |-> 0]
    /\ todo = {} /\ cur = NoGroup /\ left = {} /\ found = FALSE
    /\ reqPc = [q \in Requests |-> "idle"]
    /\ reqGroup = [q \in Requests |-> NoGroup]
    /\ reqNode = [q \in Requests |-> NoNode]

-----------------------------------------------------------------------------
(***************************************************************************)
(* The environment: storages stop and start, time passes, and the tracker  *)
(* ends: killed, by the panic of its repair timer, or by Go's "concurrent  *)
(* map iteration and map write" when GroupStatus encodes a group while a   *)
(* report writes its map.                                                  *)
(***************************************************************************)
Stop(n) ==
    /\ n \in up
    /\ up' = up \ {n}
    /\ UNCHANGED <<storageVars, groupVars, reportVars, scanVars, requestVars>>

Start(n) ==
    /\ n \notin up
    /\ up' = up \cup {n}
    /\ UNCHANGED <<storageVars, groupVars, reportVars, scanVars, requestVars>>

Tick ==
    /\ age' = [n \in Nodes |-> IF status[n] = "none" THEN age[n] ELSE Older(age[n])]
    /\ repAge' = [r \in Reports |->
           IF repPc[r] \in {"built", "locked", "registered"} THEN Older(repAge[r])
           ELSE repAge[r]]
    /\ UNCHANGED <<up, status, free, groupVars, lock, repPc, repFree, scanVars,
                   requestVars>>

Restart ==
    /\ status' = [n \in Nodes |-> "none"]
    /\ free' = [n \in Nodes |-> 0]
    /\ age' = [n \in Nodes |-> 0]
    /\ gStatus' = [g \in Groups |-> "none"]
    /\ gCap' = [g \in Groups |-> 0]
    /\ lock' = NoReport
    /\ repPc' = [r \in Reports |-> "idle"]
    /\ repFree' = [r \in Reports |-> 0]
    /\ repAge' = [r \in Reports |-> 0]
    /\ todo' = {} /\ cur' = NoGroup /\ left' = {} /\ found' = FALSE
    /\ reqPc' = [q \in Requests |-> "idle"]
    /\ reqGroup' = [q \in Requests |-> NoGroup]
    /\ reqNode' = [q \in Requests |-> NoNode]
    /\ UNCHANGED up

-----------------------------------------------------------------------------
(***************************************************************************)
(* StorageStatusReport.  The StorageServer is built, with its UpdateTime,  *)
(* before t.lock is taken.                                                 *)
(***************************************************************************)
\* A report arrives, and the handler builds sm.
Report(r, space) ==
    /\ repPc[r] = "idle"
    /\ Sender[r] \in up
    /\ repPc' = [repPc EXCEPT ![r] = "built"]
    /\ repFree' = [repFree EXCEPT ![r] = space]
    /\ repAge' = [repAge EXCEPT ![r] = 0]
    /\ UNCHANGED <<up, storageVars, groupVars, lock, scanVars, requestVars>>

\* t.lock.Lock()
Lock(r) ==
    /\ repPc[r] = "built"
    /\ lock = NoReport
    /\ lock' = r
    /\ repPc' = [repPc EXCEPT ![r] = "locked"]
    /\ UNCHANGED <<up, storageVars, groupVars, repFree, repAge, scanVars,
                   requestVars>>

\* Variation: a storage with exactly the minimum is not full.
RatingBelow(space) == IF space < MinStorageSpace THEN "NotEnoughSpace" ELSE "Active"

Rating(space) == IF space <= MinStorageSpace THEN "NotEnoughSpace" ELSE "Active"

\* Variation: a known storage's object is updated but for its Status.
KeepStatus(r) ==
    LET n == Sender[r] IN
    /\ status' = [status EXCEPT ![n] = IF @ = "none" THEN Rating(repFree[r]) ELSE @]
    /\ free' = [free EXCEPT ![n] = repFree[r]]
    /\ age' = [age EXCEPT ![n] = repAge[r]]
    /\ UNCHANGED reqPc

\* group.SaveOrUpdateStorage(sm).  A request that has fetched the node's former
\* StorageServer is left with an object nobody reads any more.
SaveOrUpdateStorage(r) ==
    LET n == Sender[r] IN
    /\ status' = [status EXCEPT ![n] = Rating(repFree[r])]
    /\ free' = [free EXCEPT ![n] = repFree[r]]
    /\ age' = [age EXCEPT ![n] = repAge[r]]
    /\ reqPc' = [q \in Requests |->
           IF reqPc[q] = "abort" /\ reqNode[q] = n THEN "stale" ELSE reqPc[q]]

\* An unknown group is registered with this storage, Active whatever its space.
RegisterGroup(r) ==
    LET g == GroupOf[Sender[r]] IN
    /\ repPc[r] = "locked"
    /\ gStatus[g] = "none"
    /\ SaveOrUpdateStorage(r)
    /\ gStatus' = [gStatus EXCEPT ![g] = "Active"]
    /\ gCap' = [gCap EXCEPT ![g] = repFree[r]]
    /\ repPc' = [repPc EXCEPT ![r] = "registered"]
    /\ UNCHANGED <<up, lock, repFree, repAge, scanVars, reqGroup, reqNode>>

\* The storage is saved (for a new group the object that is there already, with
\* what a request has made of it since), and SetTrackerStatus takes the list of
\* groups.  The group has just been found or registered and the address comes
\* from JoinHostPort, so neither return with t.lock held (tracker.go:174, 177)
\* can be reached.
Save(r) ==
    /\ \/ repPc[r] = "registered" /\ UNCHANGED <<storageVars, reqPc>>
       \/ /\ repPc[r] = "locked" /\ gStatus[GroupOf[Sender[r]]] # "none"
          /\ SaveOrUpdateStorage(r)
    /\ repPc' = [repPc EXCEPT ![r] = "scan"]
    /\ repFree' = [repFree EXCEPT ![r] = 0]
    /\ repAge' = [repAge EXCEPT ![r] = 0]
    /\ todo' = KnownGroups
    /\ UNCHANGED <<up, groupVars, lock, cur, left, found, reqGroup, reqNode>>

-----------------------------------------------------------------------------
(***************************************************************************)
(* SetTrackerStatus, by the report that holds t.lock: for every group, the *)
(* storages one by one, then the group's Status, then its Cap.             *)
(***************************************************************************)
NextGroup(r, g) ==
    /\ repPc[r] = "scan"
    /\ cur = NoGroup
    /\ g \in todo
    /\ cur' = g
    /\ todo' = todo \ {g}
    /\ left' = Registered(g)
    /\ found' = FALSE
    /\ UNCHANGED <<up, storageVars, groupVars, reportVars, requestVars>>

\* Variations: the last storage decides; nothing ages.
LastDecides(r, n) ==
    /\ repPc[r] = "scan"
    /\ n \in left
    /\ left' = left \ {n}
    /\ found' = (status[n] = "Active")
    /\ UNCHANGED <<up, storageVars, groupVars, reportVars, todo, cur, requestVars>>

NothingAges(r, n) ==
    /\ repPc[r] = "scan"
    /\ n \in left
    /\ left' = left \ {n}
    /\ found' = (found \/ status[n] = "Active")
    /\ UNCHANGED <<up, storageVars, groupVars, reportVars, todo, cur, requestVars>>

\* An Active storage is counted, or set Offline if its last report is too old.
CheckStorage(r, n) ==
    /\ repPc[r] = "scan"
    /\ n \in left
    /\ left' = left \ {n}
    /\ IF status[n] = "Active" /\ age[n] > Patience
       THEN /\ status' = [status EXCEPT ![n] = "Offline"]
            /\ UNCHANGED found
       ELSE /\ found' = (found \/ status[n] = "Active")
            /\ UNCHANGED status
    /\ UNCHANGED <<up, free, age, groupVars, reportVars, todo, cur, requestVars>>

\* Variation: an Active group is not called Unavailable again.
StaysActive(r) ==
    /\ repPc[r] = "scan"
    /\ cur # NoGroup
    /\ left = {}
    /\ gStatus' = [gStatus EXCEPT ![cur] = "Active"]
    /\ repPc' = [repPc EXCEPT ![r] = "cap"]
    /\ UNCHANGED <<up, storageVars, gCap, lock, repFree, repAge, scanVars, requestVars>>

\* Nothing counted: Unavailable.  Otherwise Active.  The group's capacity is that
\* of an earlier report for the moment; readers do not wait for t.lock.
PublishStatus(r) ==
    /\ repPc[r] = "scan"
    /\ cur # NoGroup
    /\ left = {}
    /\ gStatus' = [gStatus EXCEPT ![cur] = IF found THEN "Active" ELSE "Unavailable"]
    /\ repPc' = [repPc EXCEPT ![r] = "cap"]
    /\ UNCHANGED <<up, storageVars, gCap, lock, repFree, repAge, scanVars, requestVars>>

\* Variation: the capacity is that of the storage that reports.
CapOfReporter(r) ==
    /\ repPc[r] = "cap"
    /\ gCap' = [gCap EXCEPT ![cur] = IF found THEN free[Sender[r]] ELSE 0]
    /\ cur' = NoGroup
    /\ repPc' = [repPc EXCEPT ![r] = "scan"]
    /\ UNCHANGED <<up, storageVars, gStatus, lock, repFree, repAge, todo, left, found,
                   requestVars>>

\* The capacity of an Active group (GetGroupCap) is the least free space of all
\* its storages.
PublishCap(r) ==
    /\ repPc[r] = "cap"
    /\ \/ ~found /\ gCap' = [gCap EXCEPT ![cur] = 0]
       \/ found /\ \E n \in Registered(cur) :
              /\ \A m \in Registered(cur) : free[n] <= free[m]
              /\ gCap' = [gCap EXCEPT ![cur] = free[n]]
    /\ cur' = NoGroup
    /\ repPc' = [repPc EXCEPT ![r] = "scan"]
    /\ UNCHANGED <<up, storageVars, gStatus, lock, repFree, repAge, todo, left, found,
                   requestVars>>

\* Variation: t.lock is not unlocked.
LeaveLocked(r) ==
    /\ repPc[r] = "scan"
    /\ cur = NoGroup /\ todo = {}
    /\ repPc' = [repPc EXCEPT ![r] = "idle"]
    /\ found' = FALSE
    /\ UNCHANGED <<up, storageVars, groupVars, lock, repFree, repAge, todo, cur, left,
                   requestVars>>

\* t.lock.Unlock(), and the handler returns.
Unlock(r) ==
    /\ repPc[r] = "scan"
    /\ cur = NoGroup /\ todo = {}
    /\ repPc' = [repPc EXCEPT ![r] = "idle"]
    /\ lock' = NoReport
    /\ found' = FALSE
    /\ UNCHANGED <<up, storageVars, groupVars, repFree, repAge, todo, cur, left,
                   requestVars>>

-----------------------------------------------------------------------------
(***************************************************************************)
(* Tracker.QuickUpload and Tracker.Download up to the proxied request.     *)
(***************************************************************************)
RequestGo(q, pc, g, n) ==
    /\ reqPc' = [reqPc EXCEPT ![q] = pc]
    /\ reqGroup' = [reqGroup EXCEPT ![q] = g]
    /\ reqNode' = [reqNode EXCEPT ![q] = n]
    /\ UNCHANGED <<up, storageVars, groupVars, reportVars, scanVars>>

\* SelectGroupForUpload: the comparator of its sort compares gs[i].Cap with
\* itself, so any Active group may come first.
SelectGroupForUpload(q, g) ==
    /\ reqPc[q] = "idle"
    /\ gStatus[g] = "Active"
    /\ RequestGo(q, "upload", g, NoNode)

\* Download names its group, which must be Active.
Download(q, g) ==
    /\ reqPc[q] = "idle"
    /\ gStatus[g] = "Active"
    /\ RequestGo(q, "download", g, NoNode)

\* SelectStorageIPHash: the client's address picks one of the Active storages;
\* the request is proxied there.
SelectStorageIPHash(q, n) ==
    /\ reqPc[q] \in {"upload", "download"}
    /\ n \in Registered(reqGroup[q])
    /\ status[n] = "Active"
    /\ RequestGo(q, "proxied", reqGroup[q], n)

\* "no available storage for group"
NoStorage(q) ==
    /\ reqPc[q] \in {"upload", "download"}
    /\ \A n \in Registered(reqGroup[q]) : status[n] # "Active"
    /\ RequestGo(q, "idle", NoGroup, NoNode)

\* The storage has answered.
Answer(q) ==
    /\ reqPc[q] = "proxied"
    /\ reqNode[q] \in up
    /\ RequestGo(q, "idle", NoGroup, NoNode)

\* AbortErrorHandler: the proxy failed (the storage is down, the connection
\* broke or the client has left); the storage is fetched from its group ...
Abort(q) ==
    /\ reqPc[q] = "proxied"
    /\ RequestGo(q, "abort", reqGroup[q], reqNode[q])

\* Variation: the group is given the storage's status.
OfflineGroup(q) ==
    /\ reqPc[q] \in {"abort", "stale"}
    /\ gStatus' = [gStatus EXCEPT ![reqGroup[q]] = "Offline"]
    /\ reqPc' = [reqPc EXCEPT ![q] = "idle"]
    /\ reqGroup' = [reqGroup EXCEPT ![q] = NoGroup]
    /\ reqNode' = [reqNode EXCEPT ![q] = NoNode]
    /\ UNCHANGED <<up, storageVars, gCap, reportVars, scanVars>>

\* Variation: the storage is looked up again when its status is written.
OfflineByAddress(q) ==
    /\ reqPc[q] \in {"abort", "stale"}
    /\ status' = [status EXCEPT ![reqNode[q]] = "Offline"]
    /\ reqPc' = [reqPc EXCEPT ![q] = "idle"]
    /\ reqGroup' = [reqGroup EXCEPT ![q] = NoGroup]
    /\ reqNode' = [reqNode EXCEPT ![q] = NoNode]
    /\ UNCHANGED <<up, free, age, groupVars, reportVars, scanVars>>

\* ... and the object fetched is set Offline; the group is not recomputed.
SetOffline(q) ==
    /\ reqPc[q] \in {"abort", "stale"}
    /\ status' = IF reqPc[q] = "abort" THEN [status EXCEPT ![reqNode[q]] = "Offline"]
                 ELSE status
    /\ reqPc' = [reqPc EXCEPT ![q] = "idle"]
    /\ reqGroup' = [reqGroup EXCEPT ![q] = NoGroup]
    /\ reqNode' = [reqNode EXCEPT ![q] = NoNode]
    /\ UNCHANGED <<up, free, age, groupVars, reportVars, scanVars>>

-----------------------------------------------------------------------------
Environment ==
    \/ \E n \in Nodes : Stop(n) \/ Start(n)
    \/ Tick
    \/ Restart

SendReport(n) == \E r \in Reports, space \in Frees : Sender[r] = n /\ Report(r, space)

HandleReport(r) ==
    \/ Lock(r) \/ RegisterGroup(r) \/ Save(r)
    \/ PublishStatus(r) \/ PublishCap(r) \/ Unlock(r)
    \/ \E g \in Groups : NextGroup(r, g)
    \/ \E n \in Nodes : CheckStorage(r, n)

HandleRequest(q) ==
    \/ \E g \in Groups : SelectGroupForUpload(q, g) \/ Download(q, g)
    \/ \E n \in Nodes : SelectStorageIPHash(q, n)
    \/ NoStorage(q) \/ Answer(q) \/ Abort(q) \/ SetOffline(q)

Next ==
    \/ Environment
    \/ \E n \in Nodes : SendReport(n)
    \/ \E r \in Reports : HandleReport(r)
    \/ \E q \in Requests : HandleRequest(q)

Spec == Init /\ [][Next]_vars

-----------------------------------------------------------------------------
(***************************************************************************)
(* Fairness.  Storages report every five seconds (storage.go:386), a       *)
(* handler that can go on does, sync.Mutex does not starve a waiter, and   *)
(* time passes.  Nothing is assumed of requests or of Stop and Start.      *)
(***************************************************************************)
ReportFairness ==
    /\ \A n \in Nodes : WF_vars(SendReport(n))
    /\ \A r \in Reports : WF_vars(HandleReport(r)) /\ SF_vars(Lock(r))
    /\ WF_vars(Tick)

FairSpec == Spec /\ ReportFairness

-----------------------------------------------------------------------------
(***************************************************************************)
(* Safety.                                                                 *)
(***************************************************************************)

\* Whenever no report is being handled, a group called Unavailable has no Active
\* storage: uploads and downloads are refused (tracker.go:243, 501) only when no
\* storage could serve them, however reports of several groups, aging and
\* aborted requests interleave.
NoneHidden ==
    lock = NoReport =>
        \A g \in Groups : gStatus[g] = "Unavailable" =>
            gCap[g] = 0 /\ \A n \in Registered(g) : status[n] # "Active"

\* Whenever no report is being handled, the capacity of an Active group is the
\* least free space of its storages (group.go:109), whichever storage reported
\* last and whatever a request set Offline meanwhile.
CapIsLeast ==
    lock = NoReport =>
        \A g \in Groups : gStatus[g] = "Active" =>
            /\ \E n \in Registered(g) : gCap[g] = free[n]
            /\ \A n \in Registered(g) : gCap[g] <= free[n]

Roomy(n) == free[n] > MinStorageSpace

\* A storage is Active only while its last report left more than the minimum,
\* whatever else was reported, aged or aborted meanwhile (tracker.go:153); and
\* with no report in progress a group is called Active only if the last report
\* of one of its storages did, although its first report made it Active whatever
\* its space (tracker.go:163).
ActiveHasRoom ==
    /\ \A n \in Nodes : status[n] = "Active" => Roomy(n)
    /\ lock = NoReport =>
           \A g \in Groups : gStatus[g] = "Active" => \E n \in Registered(g) : Roomy(n)

-----------------------------------------------------------------------------
(***************************************************************************)
(* What readers of the registry see of this, and what GroupView promises   *)
(* of it.                                                                  *)
(***************************************************************************)
\* The storages whose present object an AbortErrorHandler holds.
Suspects == {reqNode[q] : q \in {p \in Requests : reqPc[p] = "abort"}}

\* A report has been saved and SetTrackerStatus is not through.
Busy == \E r \in Reports : repPc[r] \in {"registered", "scan", "cap"}

GV == INSTANCE GroupView WITH suspects <- Suspects, busy <- Busy

\* A report's handler, which reads and writes storages and groups one by one
\* while requests read them and write to them without its lock, looks like one
\* step per storage, per group's status and per group's capacity, whose outcome
\* fits the storages of that moment; and a request that fails late never undoes
\* a newer report (tracker.go:422, tracker_proxy.go:65).
KeepsView == GV!Spec

-----------------------------------------------------------------------------
(***************************************************************************)
(* The inductive invariant behind these.                                   *)
(***************************************************************************)

\* t.lock is held by exactly the report that is past Lock.
Exclusive == \A r \in Reports : repPc[r] \in Locked <=> lock = r

\* A storage is registered only in a registered group, and the storage of a
\* proxied request is there for AbortErrorHandler to find.
GroupFirst ==
    /\ \A n \in Nodes : status[n] # "none" => gStatus[GroupOf[n]] # "none"
    /\ \A r \in Reports : repPc[r] = "registered" => gStatus[GroupOf[Sender[r]]] # "none"
    /\ \A q \in Requests :
           reqPc[q] \in {"proxied", "abort"} => reqNode[q] \in Registered(reqGroup[q])

\* A group's Status and Cap agree with its storages.
Agrees(g) ==
    /\ gStatus[g] = "Unavailable" =>
           gCap[g] = 0 /\ \A n \in Registered(g) : status[n] # "Active"
    /\ gStatus[g] = "Active" =>
           /\ \E n \in Registered(g) : gCap[g] = free[n]
           /\ \A n \in Registered(g) : gCap[g] <= free[n]
           /\ \E n \in Registered(g) : Roomy(n)

\* What SetTrackerStatus still has to do, and what it has seen so far.
Recomputed ==
    /\ \A g \in Groups :
           \/ Agrees(g)
           \/ g \in todo \/ g = cur
           \/ \E r \in Reports : repPc[r] = "registered" /\ GroupOf[Sender[r]] = g
    /\ lock = NoReport => todo = {} /\ cur = NoGroup
    /\ (\E r \in Reports : repPc[r] \in {"locked", "registered"}) =>
           todo = {} /\ cur = NoGroup
    /\ (\E r \in Reports : repPc[r] = "cap") =>
           /\ cur # NoGroup /\ left = {}
           /\ gStatus[cur] = IF found THEN "Active" ELSE "Unavailable"
    /\ cur = NoGroup => left = {}
    /\ cur # NoGroup =>
           /\ gStatus[cur] # "none"
           /\ left \subseteq Registered(cur)
           /\ ~found => \A n \in Registered(cur) \ left : status[n] # "Active"
           /\ found => \E n \in Registered(cur) : Roomy(n)
    /\ todo \subseteq KnownGroups

\* The first half of ActiveHasRoom: it holds while reports are handled as well.
ActiveRoomy == \A n \in Nodes : status[n] = "Active" => Roomy(n)

IInv ==
    /\ TypeOK
    /\ Exclusive
    /\ GroupFirst
    /\ Recomputed
    /\ ActiveRoomy

-----------------------------------------------------------------------------
(***************************************************************************)
(* Liveness.                                                               *)
(***************************************************************************)

\* No report waits for t.lock for ever: every one is handled to its end, or dies
\* with the tracker, while others arrive, scan every group and wait for the same
\* lock (tracker.go:157).
ReportsFinish == \A r \in Reports : []<>(repPc[r] = "idle")

\* An Offline storage that goes on reporting does not stay Offline: aging and
\* aborted requests, late ones included, are undone by its next report.
OfflineHeals ==
    \A n \in Nodes : []<>(status[n] # "Offline" \/ n \notin up)

\* A group whose last Active storage went Offline, through an aborted request or
\* through aging, does not stay Active with nothing behind it: as long as any
\* storage goes on reporting, a scan takes the group back, or one of its storages
\* is Active again (tracker.go:438, tracker_proxy.go:65).
Hollow(g) == gStatus[g] = "Active" /\ \A n \in Registered(g) : status[n] # "Active"

GroupsFollow ==
    (\E m \in Nodes : <>[](m \in up)) => \A g \in Groups : []<>~Hollow(g)

\* A storage that stays silent does not stay Active as long as another storage,
\* of whatever group, goes on reporting (tracker.go:429).
SilentAgesOut ==
    \A n \in Nodes : \A m \in Nodes \ {n} :
        <>[](n \notin up) /\ <>[](m \in up) => <>[](status[n] # "Active")

-----------------------------------------------------------------------------
(***************************************************************************)
(* What comments lead one to expect and the code does not do.              *)
(***************************************************************************)

\* "No report received ten times: considered offline" (tracker.go:428).
SilentGoesOffline ==
    \A n \in Nodes : <>[](n \notin up) => <>[](status[n] # "Active")

\* "Return the group with the largest capacity" (tracker.go:256).
LargestGroupChosen ==
    [][\A q \in Requests :
           reqPc[q] = "idle" /\ reqPc'[q] = "upload" =>
               \A g \in Groups : gStatus[g] = "Active" => gCap[g] <= gCap[reqGroup'[q]]]_vars
=============================================================================
