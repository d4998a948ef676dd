--------------------------- MODULE MCReplication ---------------------------
(***************************************************************************)
(* Instances of Replication for TLC.                                       *)
(***************************************************************************)
EXTENDS Replication, TLC

CONSTANTS c1, f1, f2

\* Both uploads carry the same bytes: they compete for one index entry.
SameContent == f1 :> c1 @@ f2 :> c1

\* One ordinary upload.
OneContent == f1 :> c1

\* Bound of the two-file instance: one client, whose address hashes to the same
\* storage for both uploads; it uploads when both nodes have registered.
\* (Late registration is explored by the one-file instances.)
OneClient ==
    /\ members = Nodes \/ \A f \in Files : proxy[f] = "idle"
    /\ \A f, g \in Files : upNode[f] = upNode[g] \/ NoNode \in {upNode[f], upNode[g]}

\* View of the two-file instance: what no action of it reads, and neither of its
\* properties mentions, does not tell states apart.  (No repair reads the log.)
NoRecords == <<storageVars, members, proxy, syncPc, rmPc, acked, asked>>

\* Storage nodes and delete requests are interchangeable.
Symmetry == Permutations(Nodes) \cup Permutations(Deletes)
=============================================================================
