--------------------------- MODULE ReplicatedFiles ---------------------------
(***************************************************************************)
(* What replication promises a client, whatever the nodes, handlers,       *)
(* indexes and messages behind it do: once a client knows a file, some     *)
(* node serves it whole, nodes are only added to those that do, a copy is  *)
(* confirmed only when it is whole, and a copy that is given up is on      *)
(* record, until a delete of the file is asked for, or the tracker ends    *)
(* and forgets the copies it still owed.  Replication implements this.     *)
(***************************************************************************)
CONSTANTS Nodes, Files

VARIABLES
    members,   \* the nodes the tracker's process knows of
    phase,     \* phase[f]: what clients may assume of f
    whole,     \* whole[f]: the nodes that serve a kept file complete
    pending,   \* pending[f]: the nodes f is still to be copied to
    copied,    \* copied[f]: the nodes whose copy of f was confirmed
    recorded   \* recorded[f]: is a failed copy of f on record?

vars == <<members, phase, whole, pending, copied, recorded>>

TypeOK ==
    /\ members \in SUBSET Nodes
    /\ phase \in [Files -> {"unknown", "kept", "withdrawn"}]
    /\ whole \in [Files -> SUBSET Nodes]
    /\ pending \in [Files -> SUBSET Nodes]
    /\ copied \in [Files -> SUBSET Nodes]
    /\ recorded \in [Files -> BOOLEAN]

Init ==
    /\ members = {}
    /\ phase = [f \in Files |-> "unknown"]
    /\ whole = [f \in Files |-> {}]
    /\ pending = [f \in Files |-> {}]
    /\ copied = [f \in Files |-> {}]
    /\ recorded = [f \in Files |-> FALSE]

\* The tracker learns of a node.
Join(n) ==
    /\ members' = members \cup {n}
    /\ UNCHANGED <<phase, whole, pending, copied, recorded>>

\* A client is told of f, which nodes S serve; it is to be copied to nodes P.
Keep(f, S, P) ==
    /\ phase[f] = "unknown"
    /\ S # {}
    /\ P \subseteq members
    /\ phase' = [phase EXCEPT ![f] = "kept"]
    /\ whole' = [whole EXCEPT ![f] = S]
    /\ pending' = [pending EXCEPT ![f] = P]
    /\ UNCHANGED <<members, copied, recorded>>

\* The copies of a file that an instant upload has already told a client of.
Spread(f, P) ==
    /\ phase[f] # "unknown"
    /\ pending[f] = {} /\ copied[f] = {}
    /\ P \subseteq members
    /\ pending' = [pending EXCEPT ![f] = P]
    /\ UNCHANGED <<members, phase, whole, copied, recorded>>

\* One more node serves f.
Gain(f, n) ==
    /\ phase[f] = "kept"
    /\ whole' = [whole EXCEPT ![f] = @ \cup {n}]
    /\ UNCHANGED <<members, phase, pending, copied, recorded>>

Confirm(f, n) ==
    /\ n \in pending[f]
    /\ phase[f] = "kept" => n \in whole[f]
    /\ pending' = [pending EXCEPT ![f] = @ \ {n}]
    /\ copied' = [copied EXCEPT ![f] = @ \cup {n}]
    /\ UNCHANGED <<members, phase, whole, recorded>>

GiveUp(f, n) ==
    /\ n \in pending[f]
    /\ pending' = [pending EXCEPT ![f] = @ \ {n}]
    /\ recorded' = [recorded EXCEPT ![f] = TRUE]
    /\ UNCHANGED <<members, phase, whole, copied>>

\* A delete is asked for: nothing more is promised of where f is.
Withdraw(f) ==
    /\ phase[f] = "kept"
    /\ phase' = [phase EXCEPT ![f] = "withdrawn"]
    /\ whole' = [whole EXCEPT ![f] = {}]
    /\ UNCHANGED <<members, pending, copied, recorded>>

\* The tracker's process ends.
Forget ==
    /\ members # {}
    /\ members' = {}
    /\ pending' = [f \in Files |-> {}]
    /\ UNCHANGED <<phase, whole, copied, recorded>>

Next ==
    \/ \E n \in Nodes : Join(n)
    \/ \E f \in Files, S, P \in SUBSET Nodes : Keep(f, S, P)
    \/ \E f \in Files, P \in SUBSET Nodes : Spread(f, P)
    \/ \E f \in Files, n \in Nodes : Gain(f, n) \/ Confirm(f, n) \/ GiveUp(f, n)
    \/ \E f \in Files : Withdraw(f)
    \/ Forget

Spec == Init /\ [][Next]_vars

\* The promise itself: a known file is served whole by some node and by every
\* node whose copy was confirmed (tracker.go:298, storage.go:334).
Promised ==
    \A f \in Files : phase[f] = "kept" => whole[f] # {} /\ copied[f] \subseteq whole[f]

\* Promised, and nothing is owed of a file nobody knows.
IInv ==
    /\ TypeOK
    /\ Promised
    /\ \A f \in Files : phase[f] = "unknown" => pending[f] = {} /\ copied[f] = {}
=============================================================================
