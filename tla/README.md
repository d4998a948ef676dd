# A TLA+ model of eggdfs

eggdfs is a small distributed file system in Go: a *tracker* keeps a registry of
*storage* nodes, sorted into groups, proxies uploads and downloads to them, and
copies each file to the other members of its group. This directory models that
code in TLA+, checks it with TLC on small instances and proves its invariants
with TLAPS for every instance. Source lines below are relative to `src/src/`
unless said otherwise.

## 1. The system

| Component | State | Operations | Model |
|---|---|---|---|
| storage node (`svc/storage.go`) | files under `storage_dir`, a leveldb index MD5 -> file, running handlers | `QuickUpload`, `SyncFileAdd`, `SyncFileDelete`, `Status` (a report every 5 s), `Download` | `Storage`, `Replication`; its reports in `Registry` |
| tracker, replication (`svc/tracker.go`) | proxied uploads, one goroutine per file and destination, a leveldb "sync err log" | `QuickUpload`, `SyncFile`, `Delete`, `RepairSyncFail` | `Replication` |
| tracker, registry (`svc/tracker.go`, `svc/group.go`) | groups (Status, Cap) and their storages (Status, Free, UpdateTime), in memory only | `StorageStatusReport`, `SetTrackerStatus`, `SelectGroupForUpload`, `SelectStorageIPHash`, `Download` | `Registry` |
| tracker proxy (`svc/tracker_proxy.go`) | none | `HttpProxy`, `AbortErrorHandler` (marks the storage Offline) | its effects in both |
| EggDB (`common/model/eggdb.go`) | leveldb | `Put`, `Get`, `Delete`, `IsExistKey` | the variables `db` and `log` |
| helpers (`util/helper.go`) | the shared `http.DefaultClient`, the snowflake node | `HttpPost`, `GenFileUUID`, `GenTrackerNodeId`, `GetFileContentType`, `ParseHeaderFilePath` | `HttpClient`, `Naming`; `GenMD5` in `Storage` |
| constants, configuration, logger, banner, `main` | read once, or output only | | not modelled |

How they interact. A client uploads through the tracker, which chooses an Active
group and an Active storage and proxies the request. The storage looks the
announced MD5 up (instant upload), or saves, verifies and indexes the file. When
the success header comes back the tracker starts one `SyncFile` goroutine per
other member; each posts `/sync` to its destination, which downloads the file
from the first storage's static file server, writes it and indexes it. A delete
is answered at once and starts one goroutine per member, which posts `/sync`
with action DELETE. A failed copy or delete is put on the sync-err log, which a
timer reads every half hour. Reports, in parallel, register storages and
recompute every group's status under `t.lock`; the proxy's error handler writes
a storage's status without that lock.

What is hard in it, with the properties that answer (`PROJECT.json` has the full
list, each at its line):

- all of the following at once, seen by a client: `KeepsPromises`;
- copies, deletes and instant uploads of one file run concurrently on a node,
  each in several steps, with no lock: `IndexSound`, `DeleteSticks`;
- any process may end between two steps, a request may time out while its
  handler goes on, a copy may stop half-way: `SyncAccounted`, `AckedFileKept`;
- index entries are keyed by content and shared by files: `IndexSound`;
- statuses are written by reports, by the scan and by aborted requests:
  `NoneHidden`, `CapIsLeast`, `OfflineHeals`, `GroupsFollow`, and what a reader
  without the lock sees of all that: `KeepsView`;
- a storage at the threshold of free space, in a group that its first report
  made Active: `ActiveHasRoom`;
- requests of one process overwrite each other's timeout:
  `OwnUnlessOvertaken`;
- file names rest on node ids that trackers draw at random:
  `TrackersDisjoint`, `OwnIdsFresh`;
- things that must come to an end: `GoroutinesSettle`, `ReportsFinish`,
  `SilentAgesOut`, `GroupsFollow`, `CallsEnd`.

## 2. The modules

**`Storage`** is what a storage node keeps (`disk`, `db`) and its three handlers,
cut between a check and its use, and wherever else another handler, a crash or a
reader can come between to any effect:
`QuickUpload` is `RecvUpload`, `FindExisting` or `FindNone` (the lookup of the
MD5, storage.go:70) with `ReplyExisting` (a second read, storage.go:71),
`SaveUpload`/`TearUpload`/`RejectUpload`, `RemoveDamaged` (the `go os.Remove`),
`IndexUpload`. `SaveUpload` is one step for creating the file, copying, reading
back and comparing: no other handler knows the path before the upload's reply,
and a process that ends on the way leaves a part of a file nobody was told of, as
`TearUpload` does. `SyncFileAdd` is
`ProbeSource`/`OpenSource` (gin's `StaticFS` opens a file twice, so the source
may answer with the file, an empty 404 or a 404 page), `CreateReplica`,
`CopyReplica`/`TearReplica`, `StatReplica`, `IndexReplica`; `SyncFileDelete` is
`StatDelete`, `RemoveFile`/`FailRemove`, `UnindexFile`. `CrashStorage` ends the
process: handlers go, disk and index stay. A file is named by the id the tracker
generated for one upload attempt, a content stands for its own MD5, and `disk`
distinguishes a content, an empty file, a prefix, an error page and no file.
The MD5 a node keeps and indexes is the one it computed (`GenMD5`), which is
empty when the reading back fails (helper.go:72 drops the error; `Unreadable`
names the uploads this may happen to): such an upload is accepted if no header
announced its MD5, and `Put` refuses to index it.

**`Replication`** EXTENDS it with the tracker: `StartUpload`, `FanOut`,
`EndUpload`, `AbortUpload` for the proxied upload; per goroutine
`SkipSync`/`PostSync`/`FailSync`/`ConfirmSync`, and the same four for deletes;
`Delete`; `RepairSyncFail`; and the end of the tracker's process, which loses
registrations and goroutines and keeps the log. A record of the log keeps the
destination as the URL the code writes (`URL`, tracker.go:312, 384). A `Delete`
is for a file some client was told of, with any MD5 or none: the handler trusts
the client's, so it can take another file's index entry away. A delete of a path
nobody was told of is left out, as is what the handler does after a failed
binding (tracker.go:371 goes on: for an empty group the handler panics, and for an
empty path the goroutine does, one more way for the tracker to end). Which status a goroutine finds
at its destination is a free choice, because `Registry` shows it can be any.
`FailSync` may fire at any time after the post: an error, a bad reply and the
30 s timeout look the same to the tracker, and the handler may still be running.
Of `RepairSyncFail` only its first record's lookup is reached (see findings).

**`Registry`** is the tracker's registry. A report is `Report` (the
StorageServer is built, with its time, before the lock), `Lock`,
`RegisterGroup`, `Save`, the scan of `SetTrackerStatus` as `NextGroup`,
`CheckStorage` per storage, `PublishStatus` and `PublishCap` per group (two
writes, between which requests and `GroupStatus`, which take no lock, see the new
Status with the old Cap), and `Unlock`. The returns of tracker.go:174 and 177,
which would leave `t.lock` held, cannot be reached: the group has just been found
or registered and the address is never empty. Requests
choose a group and a storage without the lock and may `Abort`: the handler
fetches the StorageServer first and sets it Offline in a second step, by when a
report may have replaced the object (`stale`). Time is `Tick`; an age is counted
up to `Patience + 1`. `SelectGroupForUpload` may choose any Active group,
because its comparator compares a group with itself. A new group's storage is
put twice (tracker.go:167, 176); the second time it is the object already there,
with whatever a request has written to it since, so `Save` after `RegisterGroup`
leaves the storage alone. `Restart` may happen at any time and any number of
times.

**`GroupView`** is the abstract specification that `Registry` implements: what
the registry promises whoever reads it, with no lock, handler, scan or request in
it. A report replaces what was known of one storage in one step (`Hear`), which
makes the registry busy; while it is busy storages age out and groups are shown,
as the storages of that moment warrant, a group's status (`ShowStatus`) and its
capacity (`ShowCap`) in a step each, since a reader may come between the two; it
settles only when every group agrees with its storages. Between reports a storage is set Offline
only when a request to it has failed since its last report (`Suspect`,
`GiveUp`). The mapping (`GV` in `Registry`) takes storages and groups as they
are; `suspects` are the storages whose present object an `AbortErrorHandler`
holds, and the registry is busy from a report's save until its handler returns.
`KeepsView` is its specification under that mapping. It is no restatement of
`Registry`: one `ShowStatus` stands for a whole scan of the group, which reads
storages one by one while requests write to them, and `GiveUp` is refused for a
report that was saved after the request fetched its object.

**`ReplicatedFiles`** is the abstract specification that `Replication`
implements: what a client may rely on for each file, with no handler, message,
index or step of a copy in it. A file is unknown, kept or withdrawn; nodes that
serve a kept file whole are only added to; a pending copy is confirmed only when
it is whole, or given up and put on record; only nodes the tracker knows of are
owed a copy; a delete withdraws the promise; the end of the tracker forgets the
copies it owed together with the nodes it knew, and nothing else does. The
mapping (`RF` in `Replication`) reads the abstract state off the real one:
`members` is the tracker's own, `phase` comes from `acked`
and `asked`, `whole` from what `Download` would serve, `pending` and `copied`
from the goroutines, `recorded` from the log. `KeepsPromises` is its
specification under that mapping.

**`HttpClient`** is `HttpPost` in one process. It assigns the `Timeout` of
`http.DefaultClient` and then calls `Do`, which reads it: `Assign` and `Do` are
two steps, so another post may come between them (`since` keeps which ones did).
A post that fails before the assignment (helper.go:80-87) is left out: it touches
nothing of the client.
A call may make several requests in turn, as `TransErrorLogToTracker` does, and
`SyncFileAdd`'s `http.Get` assigns nothing and inherits the limit, or none
before the first post of the process. A limit covers the body, so `TimeOut` is
also what cuts a copy short (`TearReplica` in `Storage`).

**`Naming`** is how trackers name files: `GenTrackerNodeId` when a process
starts, `GenFileUUID` for each upload. The snowflake generator is the library's
and is modelled from its use: millisecond, node number and step, where a
millisecond's steps can be used up.

**`MCReplication`**, **`MCRegistry`**, **`MCHttpClient`**, **`MCNaming`** give
the constants values. **`ReplicationProofs`**, **`RefinementProofs`**,
**`ReplicatedFilesProofs`**, **`RegistryProofs`**, **`RegistryViewProofs`**,
**`GroupViewProofs`**, **`HttpClientProofs`**, **`NamingProofs`** hold the
theorems.

An operator introduced by "Variation:" is a plausible bug of the definition that
follows it; nothing uses it but `PROJECT.json`'s mutants, which show that each
property notices it.

## 3. The runs

| Run | Question | Instance |
|---|---|---|
| `faults` | Is everything accounted for when processes die at any step, and does a client see what `ReplicatedFiles` allows? | 2 storages that crash, 1 file, 1 delete, tracker killed or ended by its repair |
| `shared` | Do two files with the same bytes keep one index sound? | 2 storages, 2 files with the same content, one of which may not be readable back, 1 delete, no crash |
| `registry` | Do Status and Cap agree with the storages, has an Active storage room, and does a reader see what `GroupView` allows? | 2 storages of one group, the first with two reports at once, 1 proxied request, any number of restarts |
| `registry_live` | Does nothing wait for ever, do statuses heal, do groups follow their storages? | 2 groups of one storage, 1 proxied request |
| `http` | Under whose timeout does a request wait, and does every post end? | a storage's process: 2 status reports, an error log to 2 trackers, a download, any number of restarts |
| `instant`, `undelete`, `errlog`, `repair`, `silent`, `largest`, `naming` | the findings of section 5 | the smallest instance showing each |

Why these bounds are enough. The faults of replication concern one file on its
origin and one destination; goroutines of different destinations do not touch
each other's node and share only the log, which `errlog` gives three nodes. Two
files interact only through an index entry, so `shared` gives both the same
content (and one client, so that both go to the same origin: the constraint
`OneClient`; it also waits for both members, since late registration is in
`faults`). `faults` lets a client announce the MD5 of the empty file, so that a
wrong header is reached, and `TrackerEnds` has no bound on how often the tracker
ends. In `http` two calls ask for the same timeout and one for another, so that
an overtaken assignment shows and may also go unnoticed; the error log makes two
requests, so that what a first request leaves behind reaches the second.
`naming` needs one id of each of two trackers; `NodeIds`, `MaxStep` and `MaxTime`
are small for TLC and arbitrary in the theorem. In `registry` two reports of one
storage overlap, so the older may be saved last; two free values are one on each
side of the threshold, and only their order matters besides. `Patience = 0` means
one `Tick` makes a report too old: the age has the two values the code tells
apart. No counter of `Registry` is bounded: slots of reports and requests are
reused, ages saturate and the tracker restarts without limit. Deadlock is checked for
`Registry`, where a storage can always report, and for `HttpClient`;
`Replication` may really stop, when all its requests are done (`CHECK_DEADLOCK
FALSE`). Symmetry is used only in `shared` (nodes) and `registry` (the two
reports of one storage), which check invariants and, in `registry`, the steps of
`GroupView`, which mention no report. `shared` also has a VIEW
(`NoRecords`) without `log` and `racing`: with no repair in the instance no
action reads them, and neither of its two invariants mentions them.
`registry` has one without `up` (`AnyUp`), which no property of the run but its
type concerns: a storage that is down only lacks the steps `Report` and `Answer`,
so nothing is reached with it down that is not reached with it up; a proxied
request may fail all the same. The theorems and `registry_live` keep `up`.

The theorems of section 4 drop all of these bounds for the safety properties.

Fairness. `GoroutineFairness`: the Go scheduler runs a goroutine that can run,
and a posted request ends whether or not the storage answers. The second half is
not taken on trust: `CallsEnd` shows it of `HttpClient`, whatever posts of the
same process overwrite its timeout with, from the fairness of the scheduler and
of timers alone. Nothing is assumed of storages, clients or crashes, and no
outcome is preferred. `ReportFairness`: a running storage reports every five
seconds (storage.go:386), a handler that can go on does, time passes, and
`t.lock` is a `sync.Mutex`, whose starvation mode hands it to a waiter, hence
strong fairness of `Lock`. Only the run `repair` assumes more
(`StorageFairness`): even when every storage reports and answers and the timer
fires, the failed copy is never repeated.

## 4. The theorems

TLAPS checks, for any sets of nodes, files, deletes, contents, groups, reports
and requests that satisfy `StorageAssumption`, `ReplicationAssumption`,
`RegistryAssumption` and `HttpAssumption` (sentinels differ from values;
`GroupOf`, `Sender`, `ContentOf` and `Asked` are functions; the thresholds and
timeouts are naturals):

- `ReplicationProofs`: `TypeCorrect`, `IndexIsSound`, `SyncIsAccounted`,
  `DeletesStick`, `AckedFilesKept`;
- `RefinementProofs`: `Refinement`, that is `Spec => KeepsPromises`;
- `ReplicatedFilesProofs`: `PromiseKept`;
- `RegistryProofs`: `TypeCorrect`, `NothingHidden`, `CapacityIsLeast`,
  `RoomKept`;
- `RegistryViewProofs`: `ViewRefinement`, that is `Spec => KeepsView`;
- `GroupViewProofs`: `PromiseKept`;
- `HttpClientProofs`: `TypeCorrect`, `LimitsKept`;
- `NamingProofs`: `OwnIdsDiffer`.

The invariants follow one scheme: `IInv` holds initially, every action keeps it (one lemma
per action, one step per conjunct the action can disturb), it implies the
property, and `PTL` combines these.

Replication. None of the properties is inductive: that an index entry leads to a
whole file depends on *who made it*. `IndexMadeBy` says it was the upload or a
completed `SyncFileAdd`; `OriginWhole` says that the node that took a stored
upload has it whole until a delete is asked for; `ReplicaWhole` follows a
`SyncFileAdd` from the body in hand to the bytes on disk, and needs
`OriginWhole` for what the source sends; `UploadFirst` and `PostFirst` order the
parties (a file is fanned out, known or deletable only once it is stored; a
handler runs only for a posted request). `IndexSound` is `IndexMadeBy` with
`OriginWhole` and `ReplicaWhole`; `SyncAccounted` is `ReplicaWhole`,
`PostFirst` and `LogKept`; `AckedFileKept` is `UploadFirst` and `OriginWhole`;
`DeleteSticks` needs `StaysSettled`: a file that had no copy under way on a node
when its delete was issued never gets one again, because its fan-out is over.

An unreadable upload is why `UploadFirst` also says that the MD5 of a stored
upload is that of its bytes, or empty.

Refinement. Each action is shown to be, in a state of `IInv`, one abstract step
or none; lemmas `SeenNot`, `SeenGain` and `SeenKeep` turn what the action does to
each file into that step. The delicate part is that a node never stops serving
a kept file. `CreateReplica` truncates the path it writes, so a node that had
the file would lose it for a moment: `FreshReplica` says that before its one
`SyncFileAdd` a node other than the origin has nothing at the path, and an empty
file while the copy is written. Uploads write only files nobody knows
(`UploadFirst`), deletes only files that are withdrawn, and a confirmation needs
`ReplicaWhole`. `FanOut` is `Keep`, or `Spread` when an instant upload had
already told a client of the file; `EndUpload` of an instant upload is `Keep` of
the file it found. With `PromiseKept` this carries over: a known file is whole on
some node, and on every confirmed one.

HttpClient. The limit an `assigned` post will read is its own or one assigned
since, and never none: `IInv` says this before `Do` and `OwnUnlessOvertaken`
after it.

Naming. What a tracker has issued lies behind its clock: in an earlier
millisecond, or in the same one with a smaller step. A process that starts needs
longer than a millisecond (the guard of `GenTrackerNodeId`), so a restart cannot
repeat a step, whatever number it draws.

Registry. `Recomputed` says what is left of the scan: a group either agrees with
its storages, or is still to be visited, or has just been registered by the
lock's holder, and while a group is visited with nothing found yet, none of the
storages already seen is Active, and with something found one of its storages has
room, even if a request has set that one Offline since. The unlocked writes of
`SetOffline` keep it, since they only take Active away. `ActiveRoomy`, that every
Active storage has room at every moment, is what makes a storage found by the
scan one with room. `Exclusive` gives the lock one holder;
`GroupFirst` says that the storage of a proxied request is still registered when
`AbortErrorHandler` looks for it, without which that handler would panic. With
the lock free nothing is left to visit, hence the three properties.

The view. Each action of `Registry` is, in a state of `IInv`, one step of
`GroupView` or none; each has a lemma. `Exclusive` makes the registry idle when a
report is saved, so that `Hear` is allowed, and makes the report that returns the
only one, so that the registry settles; `Recomputed` with nothing left to visit
gives the agreement `Settle` asks for, and at `PublishStatus`, with nothing left
to look at, the conditions of `ShowStatus`; between the two writes it says that
the Status written is the one the scan found, so `PublishCap` is a `ShowCap`;
`GroupFirst`
makes the storage of a failed request one that can be suspected. `SetOffline` is
`GiveUp` if the request still holds the node's object; otherwise nothing is seen,
which is why a late failure cannot undo a newer report. `GroupView` itself is
shown to keep what it is for (`PromiseKept`); its proof assumes only that
`Patience` is a natural number.

Only model-checked: the liveness properties (`GoroutinesSettle`,
`ReportsFinish`, `OfflineHeals`, `SilentAgesOut`, `GroupsFollow`, `CallsEnd`), since
fairness is out of the prover's reach, and the disagreements of section 5.

## 5. Where code and documentation disagree

Each is a run that TLC refutes with a short trace.

- `instant`: a delete without an MD5 leaves the index entry (storage.go:354), and
  a later upload is told that a missing file exists.
- `undelete`: a delete that reaches a node before the file's `SyncFileAdd` wrote
  it there is confirmed as "not there" (storage.go:344); the add, with its body
  in hand, then brings the file back. `DeleteSticks` states what does hold: a
  delete that found nothing under way is final.
- `errlog`: the log's key does not name the destination (tracker.go:339), so of
  two failed copies of a file one is forgotten.
- `repair`: `RepairSyncFail` looks a storage up by URL where addresses are the
  keys (tracker.go:95); the nil result ends the tracker's process.
- `naming`: the configured node id is overwritten by a random one
  (helper.go:36), so two trackers may issue the same file id, and `os.Create`
  then replaces one file by the other.
- `silent`: ages are looked at only when some storage reports (tracker.go:429).
- `largest`: the sort by capacity compares an element with itself
  (tracker.go:254).

## 6. Not modelled

- Components: the logger, the configuration file and its parser, the banner and
  `main` are input and output only.
- `GetFileContentType`, `GenFilePath`, `GenFileName` and `ParseHeaderFilePath`
  are functions of strings without state. Two things are known of them and stay
  outside: `GetFileContentType` is asked for ".zip" while the table's keys have
  no dot, and `ParseHeaderFilePath` panics on a path without a slash; a unit
  test reaches both.
- `GenFileStaticUrl` formats a URL; `SyncErrorMsg` only logs. `GroupStatus`
  changes no state, and what it may see is any state of `Registry`; its race with a report can end the tracker's process, which
  is `Registry`'s `Restart`. `RegisterStorage`, `RemoveStorage`, `UpdateStorage`
  and `IsExistStorage` have no caller.
- Errors of leveldb and of request binding.
- An upload of no bytes in a run of TLC (each run's uploads carry bytes); the
  theorems allow one, and `SyncIsAccounted` says its failed copies are on the log.
- What happens though nothing promises otherwise: goroutines that die with the
  tracker, a file without replicas after a broken connection, an index entry
  taken away by the delete of another file with the same bytes, downloads of a
  partial replica, the older of two reports saved last, a dead storage that pins
  the capacity of its group. The model shows each; no property forbids it, and
  `PROJECT.json` says so at the hazard.
- Data races on Go maps, but for the end of the process they may bring.
- The size of a download and the second it may take: `TearReplica` may happen to
  any copy, for whatever reason.
- Equal file ids inside `Replication`: a file there is one upload attempt. What
  follows when two trackers give one id is told in section 5 and not carried
  through the handlers.
- `Registry` and `Replication` are not composed. `Replication` leaves the status
  a goroutine finds a free choice at every step, so each behaviour of a
  composition is one of its behaviours, and its theorems hold there too; a
  liveness property across both would need storages that stay up, which nothing
  in the code promises, and `RepairHeals` fails even then.

## 7. State of the plan

Written in this order: `Storage`, `Replication`, its runs and proofs; `Registry`,
its runs and proofs; then errors of `GenMD5`, `ReplicatedFiles` with the
refinement as a run and a theorem, `HttpClient` and `Naming` with theirs. Of the
first plan `ContentType` and `Cluster` were dropped, for the reasons in section
6. `GroupView`, its refinement and theorems, and `ActiveHasRoom` came next, then
the two writes of a group's Status and Cap and `GroupsFollow`.
Left: failing writes of leveldb (`Put` after which the entry is missing,
which `IndexSound` allows and the log's `SyncAccounted` does not), and the
capacity of a group when a storage leaves it for good.
