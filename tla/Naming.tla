------------------------------- MODULE Naming -------------------------------
(***************************************************************************)
(* How trackers name files (util/helper.go): each process makes itself a   *)
(* snowflake node when it starts, and GenFileUUID gives every upload the   *)
(* node's next id, made of the millisecond, the node's number and a step   *)
(* within the millisecond.  Storages keep a file under its id, and create  *)
(* it with os.Create: a second file of that name would replace the first.  *)
(*                                                                         *)
(* The generator is the library's (github.com/bwmarrin/snowflake), modelled*)
(* from its use; an id is the tuple of its fields, which do not overlap.   *)
(***************************************************************************)
EXTENDS Naturals

CONSTANTS
    Trackers,    \* trackers of one cluster
    NodeIds,     \* numbers a snowflake node may have (0 to 1023 in the code)
    Configured,  \* tracker.node_id of each tracker's configuration, 0: none
    MaxStep,     \* the last step of a millisecond (4095 in the code)
    NoNode,      \* the tracker's process does not run
    MaxTime      \* bound on the clock

VARIABLES
    now,     \* the clock of all trackers, in milliseconds
    node,    \* node[t]: the number of t's snowflake node
    time,    \* time[t]: the millisecond of t's last id
    step,    \* step[t]: the step of t's last id
    issued   \* issued[t]: the ids t has given to uploads

vars == <<now, node, time, step, issued>>

Ids == Nat \X NodeIds \X Nat   \* <<millisecond, node, step>>

TypeOK ==
    /\ now \in Nat
    /\ node \in [Trackers -> NodeIds \cup {NoNode}]
    /\ time \in [Trackers -> Nat]
    /\ step \in [Trackers -> Nat]
    /\ issued \in [Trackers -> SUBSET Ids]

Init ==
    /\ now = 1
    /\ node = [t \in Trackers |-> NoNode]
    /\ time = [t \in Trackers |-> 0]
    /\ step = [t \in Trackers |-> 0]
    /\ issued = [t \in Trackers |-> {}]

Tick ==
    /\ now < MaxTime
    /\ now' = now + 1
    /\ UNCHANGED <<node, time, step, issued>>

\* The process starts, which takes longer than the millisecond in which an
\* earlier process of t gave its last id.  The node made from the configured
\* number, if there is one, is replaced by one made from rand.Intn(1024).
GenTrackerNodeId(t) ==
    /\ node[t] = NoNode
    /\ time[t] < now
    /\ \E drawn \in NodeIds : node' = [node EXCEPT ![t] = drawn]
    /\ UNCHANGED <<now, time, step, issued>>

\* Generate starts each millisecond at step 0; when the steps of one are used up
\* it waits for the next.
NextStep(t) == IF now = time[t] THEN step[t] + 1 ELSE 0

NewId(t) == <<now, node[t], NextStep(t)>>

GenFileUUID(t) ==
    /\ node[t] # NoNode
    /\ NextStep(t) <= MaxStep
    /\ time' = [time EXCEPT ![t] = now]
    /\ step' = [step EXCEPT ![t] = NextStep(t)]
    /\ issued' = [issued EXCEPT ![t] = @ \cup {NewId(t)}]
    /\ UNCHANGED <<now, node>>

\* The process ends.
Stop(t) ==
    /\ node[t] # NoNode
    /\ node' = [node EXCEPT ![t] = NoNode]
    /\ UNCHANGED <<now, time, step, issued>>

Next ==
    \/ Tick
    \/ \E t \in Trackers : GenTrackerNodeId(t) \/ GenFileUUID(t) \/ Stop(t)

Spec == Init /\ [][Next]_vars

-----------------------------------------------------------------------------
\* A tracker never gives the same id to two uploads, restarts included
\* (helper.go:61).
OwnIdsFresh == [][\A t \in Trackers : GenFileUUID(t) => NewId(t) \notin issued[t]]_vars

\* "GenTrackerNodeId generates a unique tracker id" (helper.go:29), and the number
\* may be filled in (README.md:55): the ids of two trackers that were given
\* different numbers differ.
TrackersDisjoint ==
    \A t, u \in Trackers :
        /\ Configured[t] # 0 /\ Configured[u] # 0
        /\ Configured[t] # Configured[u]
        => issued[t] \cap issued[u] = {}

\* The inductive invariant: what a tracker has issued lies behind its clock.
IInv ==
    /\ TypeOK
    /\ \A t \in Trackers :
           /\ time[t] <= now
           /\ \A id \in issued[t] :
                  id[1] < time[t] \/ (id[1] = time[t] /\ id[3] <= step[t])
=============================================================================
