---------------------------- MODULE NamingProofs ----------------------------
(***************************************************************************)
(* Proof that a tracker never issues an id twice, for any trackers, node   *)
(* numbers and bounds.  (Ids of different trackers may be equal: the run   *)
(* of Naming shows it.)                                                    *)
(***************************************************************************)
EXTENDS Naming, TLAPS

\* Nothing has been issued at the start.
LEMMA InitIInv == Init => IInv
BY DEF Init, IInv, TypeOK

\* The number of a new id's step is a natural number, beyond those of the ids the
\* tracker has issued in the same millisecond.
LEMMA NewIdBeyond ==
    ASSUME IInv, NEW t \in Trackers
    PROVE  /\ NextStep(t) \in Nat
           /\ \A id \in issued[t] : id[1] < now \/ (id[1] = now /\ id[3] < NextStep(t))
<1>1. time[t] \in Nat /\ step[t] \in Nat /\ now \in Nat /\ time[t] <= now
  BY DEF IInv, TypeOK
<1>2. NextStep(t) \in Nat
  BY <1>1 DEF NextStep
<1>3. ASSUME NEW id \in issued[t]
      PROVE  id[1] < now \/ (id[1] = now /\ id[3] < NextStep(t))
  <2>1. id[1] \in Nat /\ id[3] \in Nat
    BY DEF IInv, TypeOK, Ids
  <2>2. id[1] < time[t] \/ (id[1] = time[t] /\ id[3] <= step[t])
    BY DEF IInv
  <2>. QED BY <1>1, <2>1, <2>2 DEF NextStep
<1>. QED BY <1>2, <1>3

\* A new id keeps IInv.
LEMMA GenFileUUIDKeeps ==
    ASSUME IInv, NEW t \in Trackers, GenFileUUID(t)
    PROVE  IInv'
<1>1. NewId(t) \in Ids
  BY NewIdBeyond DEF GenFileUUID, NewId, Ids, IInv, TypeOK
<1>2. TypeOK'
  BY <1>1, NewIdBeyond DEF GenFileUUID, IInv, TypeOK
<1>3. ASSUME NEW u \in Trackers
      PROVE  /\ time'[u] <= now'
             /\ \A id \in issued'[u] :
                    id[1] < time'[u] \/ (id[1] = time'[u] /\ id[3] <= step'[u])
  <2>1. CASE u = t
    <3>1. /\ now' = now /\ time'[t] = now /\ step'[t] = NextStep(t)
          /\ issued'[t] = issued[t] \cup {NewId(t)}
      BY DEF GenFileUUID, IInv, TypeOK
    <3>2. NewId(t)[1] = now /\ NewId(t)[3] = NextStep(t)
      BY DEF NewId
    <3>3. \A id \in issued[t] : id[3] \in Nat
      BY DEF IInv, TypeOK, Ids
    <3>4. now <= now /\ NextStep(t) <= NextStep(t)
      BY NewIdBeyond DEF IInv, TypeOK
    <3>. QED BY <2>1, <3>1, <3>2, <3>3, <3>4, NewIdBeyond
  <2>2. CASE u # t
    BY <2>2 DEF GenFileUUID, IInv, TypeOK
  <2>. QED BY <2>1, <2>2
<1>. QED BY <1>2, <1>3 DEF IInv

\* The other steps keep IInv: they issue nothing and turn no clock back.
LEMMA OthersKeep ==
    ASSUME IInv, \/ Tick \/ UNCHANGED vars
                 \/ \E t \in Trackers : GenTrackerNodeId(t) \/ Stop(t)
    PROVE  IInv'
<1>1. UNCHANGED <<time, step, issued>> /\ now' \in {now, now + 1}
  BY DEF Tick, vars, GenTrackerNodeId, Stop
<1>2. TypeOK'
  BY DEF Tick, vars, GenTrackerNodeId, Stop, IInv, TypeOK
<1>. QED BY <1>1, <1>2 DEF IInv, TypeOK

\* IInv holds in every reachable state.
THEOREM Inductive == Spec => []IInv
<1>1. IInv /\ [Next]_vars => IInv'
  BY GenFileUUIDKeeps, OthersKeep DEF Next
<1>. QED BY <1>1, InitIInv, PTL DEF Spec

\* A tracker's ids are all different, through any number of restarts and any use
\* of a millisecond's steps (helper.go:61).
THEOREM OwnIdsDiffer == Spec => OwnIdsFresh
<1>1. ASSUME IInv PROVE \A t \in Trackers : GenFileUUID(t) => NewId(t) \notin issued[t]
  <2>1. ASSUME NEW t \in Trackers, NewId(t) \in issued[t] PROVE FALSE
    <3>1. NewId(t)[1] = now /\ NewId(t)[3] = NextStep(t)
      BY DEF NewId
    <3>2. now < now \/ NextStep(t) < NextStep(t)
      BY <1>1, <2>1, <3>1, NewIdBeyond
    <3>. QED BY <1>1, <3>2, NewIdBeyond DEF IInv, TypeOK
  <2>. QED BY <2>1
<1>. QED BY <1>1, Inductive, PTL DEF OwnIdsFresh
=============================================================================
