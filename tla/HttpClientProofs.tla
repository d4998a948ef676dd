-------------------------- MODULE HttpClientProofs --------------------------
(***************************************************************************)
(* Proofs about HttpClient for any calls, timeouts and numbers of          *)
(* requests: IInv is inductive, and OwnUnlessOvertaken follows from it.    *)
(***************************************************************************)
EXTENDS HttpClient, TLAPS

\* A process starts in a state that satisfies IInv.
LEMMA InitIInv == Init => IInv
BY HttpAssumption DEF Init, IInv, TypeOK, OwnUnlessOvertaken

\* The start of a call keeps IInv.
LEMMA BeginKeeps == ASSUME IInv, NEW c \in Calls, Begin(c) PROVE IInv'
BY HttpAssumption DEF Begin, IInv, TypeOK, OwnUnlessOvertaken

\* The assignment of a limit keeps IInv: a post that has not read the limit yet
\* counts the one that assigns it among those that came since.
LEMMA AssignKeeps == ASSUME IInv, NEW c \in Calls, Assign(c) PROVE IInv'
<1>1. limit' = Asked[c] /\ c \in Posts /\ Asked[c] \in Limits
  BY DEF Assign, SetLimit, Limits
<1>2. \A d \in Calls :
          since'[d] = IF d # c /\ pc[d] = "assigned" THEN since[d] \cup {c} ELSE since[d]
  BY DEF Assign, SetLimit, Overtake
<1>3. TypeOK'
  BY <1>1 DEF Assign, SetLimit, Overtake, IInv, TypeOK
<1>4. OwnUnlessOvertaken'
  BY <1>1, <1>2 DEF Assign, SetLimit, IInv, TypeOK, OwnUnlessOvertaken, Posts
<1>5. \A d \in Calls : pc'[d] = "assigned" =>
          d \in Posts /\ limit' \in {Asked[e] : e \in {d} \cup since'[d]}
  BY <1>1, <1>2 DEF Assign, SetLimit, IInv, TypeOK
<1>6. \A d \in Calls : since'[d] \subseteq Posts /\ (pc'[d] # "idle" => left'[d] # 0)
  BY <1>1, <1>2 DEF Assign, SetLimit, IInv, TypeOK
<1>. QED BY <1>3, <1>4, <1>5, <1>6 DEF IInv

\* Do keeps IInv: the limit it reads is the one IInv speaks of.
LEMMA DoKeeps == ASSUME IInv, NEW c \in Calls, Do(c) PROVE IInv'
<1>1. TypeOK'
  BY DEF Do, IInv, TypeOK
<1>2. OwnUnlessOvertaken'
  BY DEF Do, IInv, TypeOK, OwnUnlessOvertaken
<1>. QED BY <1>1, <1>2 DEF Do, IInv, TypeOK

\* The end of a request keeps IInv.
LEMMA EndKeeps ==
    ASSUME IInv, NEW c \in Calls, pc[c] = "waiting", End(c)
    PROVE  IInv'
<1>1. left[c] \in Nat \ {0}
  BY DEF IInv, TypeOK
<1>2. TypeOK'
  BY <1>1 DEF End, EndRequest, IInv, TypeOK
<1>3. OwnUnlessOvertaken'
  BY DEF End, EndRequest, IInv, TypeOK, OwnUnlessOvertaken
<1>4. \A d \in Calls : pc'[d] # "idle" => left'[d] # 0
  BY <1>1 DEF End, EndRequest, IInv, TypeOK
<1>. QED BY <1>2, <1>3, <1>4 DEF End, EndRequest, IInv, TypeOK

\* The end of the process keeps IInv.
LEMMA ExitKeeps == ASSUME IInv, Exit PROVE IInv'
BY HttpAssumption DEF Exit, IInv, TypeOK, OwnUnlessOvertaken

\* IInv holds in every reachable state.
THEOREM Inductive == Spec => []IInv
<1>1. ASSUME IInv, Next PROVE IInv'
  BY <1>1, BeginKeeps, AssignKeeps, DoKeeps, EndKeeps, ExitKeeps
     DEF Next, Answer, TimeOut
<1>2. IInv /\ UNCHANGED vars => IInv'
  BY DEF vars, IInv, TypeOK, OwnUnlessOvertaken
<1>. QED BY <1>1, <1>2, InitIInv, PTL DEF Spec

\* Every variable keeps its type: in particular the limit is always one some
\* call asked for, or none.
THEOREM TypeCorrect == Spec => []TypeOK
<1>1. IInv => TypeOK
  BY DEF IInv
<1>. QED BY <1>1, Inductive, PTL

\* A post waits under its own limit, or that of a post that came between its two
\* statements (helper.go:95).
THEOREM LimitsKept == Spec => []OwnUnlessOvertaken
<1>1. IInv => OwnUnlessOvertaken
  BY DEF IInv
<1>. QED BY <1>1, Inductive, PTL
=============================================================================
