----------------------------- MODULE HttpClient -----------------------------
(***************************************************************************)
(* HttpPost (util/helper.go) in one process, a tracker's or a storage's.   *)
(* All its requests go through http.DefaultClient: HttpPost assigns the    *)
(* client's one Timeout and then calls Do, which reads it, so calls that   *)
(* run at once set each other's limits.  SyncFileAdd's http.Get assigns    *)
(* none and runs under the limit the last post left, or under none.        *)
(*                                                                         *)
(* A limit covers a request to the last byte of its answer.                *)
(***************************************************************************)
EXTENDS Naturals

CONSTANTS
    Calls,     \* the goroutines and handlers that make requests
    Asked,     \* the timeout in seconds a call hands to HttpPost; 0: http.Get
    Requests   \* how many requests a call makes, one after the other

ASSUME HttpAssumption ==
    /\ Asked \in [Calls -> Nat]
    /\ Requests \in [Calls -> Nat \ {0}]

VARIABLES
    limit,   \* http.DefaultClient.Timeout; 0: none
    pc,      \* pc[c]: where call c is
    left,    \* left[c]: the requests c has not finished
    wait,    \* wait[c]: the limit Do read for c; 0: none
    since    \* history: the calls that assigned the limit since c did

vars == <<limit, pc, left, wait, since>>

Posts  == {c \in Calls : Asked[c] # 0}
Limits == {Asked[c] : c \in Posts}

TypeOK ==
    /\ limit \in Limits \cup {0}
    /\ pc \in [Calls -> {"idle", "ready", "assigned", "waiting"}]
    /\ left \in [Calls -> Nat]
    /\ wait \in [Calls -> Limits \cup {0}]
    /\ since \in [Calls -> SUBSET Calls]

\* http.DefaultClient has no Timeout, and nothing has been requested.
Init ==
    /\ limit = 0
    /\ pc = [c \in Calls |-> "idle"]
    /\ left = [c \in Calls |-> 0]
    /\ wait = [c \in Calls |-> 0]
    /\ since = [c \in Calls |-> {}]

\* A timer, a handler or a goroutine starts to make its requests; those of
\* TransErrorLogToTracker go to one tracker after the other.
Begin(c) ==
    /\ pc[c] = "idle"
    /\ pc' = [pc EXCEPT ![c] = "ready"]
    /\ left' = [left EXCEPT ![c] = Requests[c]]
    /\ UNCHANGED <<limit, wait, since>>

\* The calls whose assignment, not read yet, c's assignment replaces.
Overtake(c) ==
    since' = [d \in Calls |->
        IF d # c /\ pc[d] = "assigned" THEN since[d] \cup {c} ELSE since[d]]

SetLimit(c, seconds) ==
    /\ pc[c] = "ready"
    /\ c \in Posts
    /\ limit' = seconds
    /\ pc' = [pc EXCEPT ![c] = "assigned"]
    /\ Overtake(c)
    /\ UNCHANGED <<left, wait>>

\* Variations: a Timeout that is set is left alone; it is set in milliseconds.
AssignOnce(c)   == SetLimit(c, IF limit = 0 THEN Asked[c] ELSE limit)
AssignMillis(c) == SetLimit(c, Asked[c] * 1000)

\* client.Timeout = timeout.  (A post that cannot build its request returns
\* before this, helper.go:80, and leaves the limit as it is.)
Assign(c) == SetLimit(c, Asked[c])

\* client.Do, of a post or of http.Get: it reads the Timeout once.
Do(c) ==
    /\ pc[c] = IF c \in Posts THEN "assigned" ELSE "ready"
    /\ pc' = [pc EXCEPT ![c] = "waiting"]
    /\ wait' = [wait EXCEPT ![c] = limit]
    /\ UNCHANGED <<limit, left, since>>

EndRequest(c, seconds) ==
    /\ left' = [left EXCEPT ![c] = @ - 1]
    /\ pc' = [pc EXCEPT ![c] = IF left[c] > 1 THEN "ready" ELSE "idle"]
    /\ wait' = [wait EXCEPT ![c] = 0]
    /\ since' = [since EXCEPT ![c] = {}]
    /\ limit' = seconds

\* Variation: the client's Timeout is put back when a request has ended.
EndAndRestore(c) == EndRequest(c, 0)

\* A request of c has ended; the result of the last one is all the caller sees.
End(c) == EndRequest(c, limit)

\* The whole answer has come, or the connection has failed.
Answer(c) == pc[c] = "waiting" /\ End(c)

\* The client's deadline passes.
TimeOut(c) == pc[c] = "waiting" /\ wait[c] # 0 /\ End(c)

\* The process ends and is started again.
Exit ==
    /\ limit' = 0
    /\ pc' = [c \in Calls |-> "idle"]
    /\ left' = [c \in Calls |-> 0]
    /\ wait' = [c \in Calls |-> 0]
    /\ since' = [c \in Calls |-> {}]

Next ==
    \/ \E c \in Calls : Begin(c) \/ Assign(c) \/ Do(c) \/ Answer(c) \/ TimeOut(c)
    \/ Exit

\* Goroutines are scheduled and timers fire; nobody need ever answer.
Fairness ==
    \A c \in Calls : WF_vars(Assign(c)) /\ WF_vars(Do(c)) /\ WF_vars(TimeOut(c))

Spec     == Init /\ [][Next]_vars
FairSpec == Spec /\ Fairness

-----------------------------------------------------------------------------
\* A post that waits has a limit: the one it asked for, or that of a post that
\* came between its own assignment and its Do, and no older one (helper.go:95).
\* A download that starts while a post is between the two, or waits, has one too.
OwnUnlessOvertaken ==
    \A c \in Calls :
        /\ c \in Posts /\ pc[c] = "waiting" =>
               wait[c] \in {Asked[d] : d \in {c} \cup since[c]}
        /\ c \in Posts /\ pc[c] \in {"assigned", "waiting"} => limit # 0

\* Every call that posts comes to its end although nobody need answer it, after
\* all its requests (storage.go:378); a download does if a post came before it.
\* This is what Replication's fairness of goroutines rests on (tracker.go:344).
CallsEnd ==
    /\ \A c \in Posts : pc[c] = "ready" ~> pc[c] = "idle"
    /\ \A c \in Calls : pc[c] = "waiting" /\ wait[c] # 0 ~> pc[c] # "waiting"

\* The inductive invariant: what Do will read.
IInv ==
    /\ TypeOK
    /\ OwnUnlessOvertaken
    /\ \A c \in Calls :
           /\ pc[c] = "assigned" =>
                  c \in Posts /\ limit \in {Asked[d] : d \in {c} \cup since[c]}
           /\ since[c] \subseteq Posts
           /\ pc[c] # "idle" => left[c] # 0
=============================================================================
