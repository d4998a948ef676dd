--------------------------- MODULE GroupViewProofs ---------------------------
(***************************************************************************)
(* Proof that GroupView keeps its promise, for any storages, groups and    *)
(* reports: IInv is inductive, and Promised is one of its conjuncts.       *)
(***************************************************************************)
EXTENDS GroupView, TLAPS

\* Nothing is known, and nothing is wrong.
LEMMA InitPromised == Patience \in Nat /\ Init => IInv
<1>. SUFFICES ASSUME Patience \in Nat, Init PROVE IInv
  OBVIOUS
<1>1. age \in [Nodes -> Ages]
  BY DEF Init, Ages
<1>2. TypeOK
  BY <1>1 DEF Init, TypeOK
<1>. QED BY <1>2 DEF Init, IInv, Promised, Agrees

\* A step that changes neither a group, nor a storage's space, nor which storages
\* are known and leaves no more of them Active does not disturb what groups show.
LEMMA StillAgrees ==
    ASSUME NEW g \in Groups, Agrees(g), UNCHANGED <<free, gStatus, gCap>>,
           \A n \in Nodes : /\ status'[n] = "none" <=> status[n] = "none"
                            /\ status'[n] = "Active" => status[n] = "Active"
    PROVE  Agrees(g)'
<1>1. Members(g)' = Members(g)
  BY DEF Members
<1>. QED BY <1>1 DEF Agrees, Least, Roomy, Members

\* A report is rated by its space, and nothing is settled yet.
LEMMA HearKeeps ==
    ASSUME IInv, NEW n \in Nodes, Hear(n) PROVE IInv'
<1>1. TypeOK'
  BY DEF IInv, TypeOK, Hear
<1>2. \A m \in Nodes : status'[m] = "Active" => Roomy(m)'
  BY DEF IInv, TypeOK, Promised, Roomy, Hear
<1>3. \A m \in suspects' : status'[m] # "none"
  BY DEF IInv, TypeOK, Hear
<1>. QED BY <1>1, <1>2, <1>3 DEF IInv, Promised, Hear

\* A storage that ages out or is given up leaves what groups show true.
LEMMA OfflineKeeps ==
    ASSUME IInv, NEW n \in Nodes, AgeOut(n) \/ GiveUp(n) PROVE IInv'
<1>1. TypeOK'
  BY DEF IInv, TypeOK, AgeOut, GiveUp
<1>2. status[n] # "none" /\ status' = [status EXCEPT ![n] = "Offline"]
  BY DEF IInv, AgeOut, GiveUp
<1>3. \A m \in Nodes : /\ status'[m] = "none" <=> status[m] = "none"
                       /\ status'[m] = "Active" => status[m] = "Active"
  BY <1>2 DEF IInv, TypeOK
<1>4. UNCHANGED <<free, gStatus, gCap, busy>> /\ suspects' \subseteq suspects
  BY DEF AgeOut, GiveUp
<1>5. Promised'
  BY <1>3, <1>4, StillAgrees DEF IInv, Promised, Roomy
<1>6. \A m \in suspects' : status'[m] # "none"
  BY <1>3, <1>4 DEF IInv, TypeOK
<1>. QED BY <1>1, <1>5, <1>6 DEF IInv

\* What is shown of one group is shown while others may still be wrong.
LEMMA ShowKeeps ==
    ASSUME IInv, NEW g \in Groups, ShowStatus(g) \/ ShowCap(g) PROVE IInv'
<1>1. TypeOK'
  BY DEF IInv, TypeOK, ShowStatus, ShowCap
<1>2. UNCHANGED <<status, free, suspects>> /\ busy'
  BY DEF ShowStatus, ShowCap
<1>. QED BY <1>1, <1>2 DEF IInv, Promised, Roomy

\* The registry settles only when every group shows the truth; suspicion and the
\* passing of time do not change what that is.
LEMMA QuietKeeps ==
    ASSUME IInv, Patience \in Nat,
           Settle \/ Tick \/ (\E n \in Nodes : Suspect(n)) \/ UNCHANGED vars
    PROVE  IInv'
<1>1. TypeOK'
  <2>1. (age \in [Nodes -> Ages])'
    <3>1. \A k \in Ages : ~(k > Patience) => k + 1 \in Ages
      BY DEF Ages
    <3>. QED BY <3>1 DEF IInv, TypeOK, Settle, Tick, Suspect, vars
  <2>. QED BY <2>1 DEF IInv, TypeOK, Settle, Tick, Suspect, vars
<1>2. UNCHANGED <<status, free, gStatus, gCap>>
  BY DEF Settle, Tick, Suspect, vars
<1>3. \A g \in Groups : Agrees(g) => Agrees(g)'
  BY <1>2, StillAgrees
<1>4. ~busy' => \A g \in Groups : Agrees(g)
  BY DEF IInv, Promised, Settle, Tick, Suspect, vars
<1>5. \A m \in suspects' : status'[m] # "none"
  BY DEF IInv, Settle, Tick, Suspect, vars
<1>. QED BY <1>1, <1>2, <1>3, <1>4, <1>5 DEF IInv, Promised, Roomy

\* What is forgotten promises nothing.
LEMMA ForgetKeeps == ASSUME IInv, Patience \in Nat, Forget PROVE IInv'
<1>1. (age \in [Nodes -> Ages])'
  BY DEF Forget, Ages
<1>2. TypeOK'
  BY <1>1 DEF Forget, TypeOK
<1>. QED BY <1>2 DEF Forget, IInv, Promised, Agrees

\* No step breaks the promise.
LEMMA StepPromised == ASSUME IInv, Patience \in Nat, [Next]_vars PROVE IInv'
BY HearKeeps, OfflineKeeps, ShowKeeps, QuietKeeps, ForgetKeeps DEF Next

\* IInv holds in every reachable state.
THEOREM Inductive == ASSUME Patience \in Nat PROVE Spec => []IInv
<1>1. Init => IInv
  BY InitPromised
<1>2. IInv /\ [Next]_vars => IInv'
  BY StepPromised
<1>. QED BY <1>1, <1>2, PTL DEF Spec

\* An Active storage had room in its last report, and between reports every group
\* shows what follows from its storages (tracker.go:153, 437).
THEOREM PromiseKept == ASSUME Patience \in Nat PROVE Spec => []Promised
<1>1. IInv => Promised
  BY DEF IInv
<1>. QED BY <1>1, Inductive, PTL
=============================================================================
