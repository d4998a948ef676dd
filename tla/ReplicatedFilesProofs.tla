------------------------ MODULE ReplicatedFilesProofs ------------------------
(***************************************************************************)
(* Proof that ReplicatedFiles keeps its promise, for any nodes and files:  *)
(* IInv is inductive, and Promised is one of its conjuncts.                *)
(***************************************************************************)
EXTENDS ReplicatedFiles, TLAPS

\* A promise starts with nothing owed.
LEMMA InitPromised == Init => IInv
BY DEF Init, IInv, TypeOK, Promised

\* No step breaks the promise: nodes are only added to those that serve a kept
\* file, and a copy is confirmed only by a node that serves it.
LEMMA StepPromised == ASSUME IInv, [Next]_vars PROVE IInv'
<1>1. ASSUME NEW f \in Files, NEW S \in SUBSET Nodes, NEW P \in SUBSET Nodes,
             Keep(f, S, P)
      PROVE  IInv'
  BY <1>1 DEF Keep, IInv, TypeOK, Promised
<1>2. ASSUME NEW f \in Files, NEW P \in SUBSET Nodes, Spread(f, P)
      PROVE  IInv'
  BY <1>2 DEF Spread, IInv, TypeOK, Promised
<1>3. ASSUME NEW f \in Files, NEW n \in Nodes, Gain(f, n) PROVE IInv'
  BY <1>3 DEF Gain, IInv, TypeOK, Promised
<1>4. ASSUME NEW f \in Files, NEW n \in Nodes, Confirm(f, n) PROVE IInv'
  BY <1>4 DEF Confirm, IInv, TypeOK, Promised
<1>5. ASSUME NEW f \in Files, NEW n \in Nodes, GiveUp(f, n) PROVE IInv'
  BY <1>5 DEF GiveUp, IInv, TypeOK, Promised
<1>6. ASSUME NEW f \in Files, Withdraw(f) PROVE IInv'
  BY <1>6 DEF Withdraw, IInv, TypeOK, Promised
<1>7. CASE Forget \/ \E n \in Nodes : Join(n)
  BY <1>7 DEF Forget, Join, IInv, TypeOK, Promised
<1>8. CASE UNCHANGED vars
  BY <1>8 DEF vars, IInv, TypeOK, Promised
<1>. QED BY <1>1, <1>2, <1>3, <1>4, <1>5, <1>6, <1>7, <1>8 DEF Next

\* Until its delete is asked for, a file clients know is served whole by some node
\* and by every node whose copy was confirmed (tracker.go:298, storage.go:334).
THEOREM PromiseKept == Spec => []Promised
<1>1. IInv => Promised
  BY DEF IInv
<1>2. IInv /\ [Next]_vars => IInv'
  BY StepPromised
<1>. QED BY <1>1, <1>2, InitPromised, PTL DEF Spec
=============================================================================
