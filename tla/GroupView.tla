----------------------------- MODULE GroupView -----------------------------
(***************************************************************************)
(* What the tracker's registry promises whoever reads it, whatever locks,  *)
(* handlers and scans behind it do.  A report replaces what was known of   *)
(* one storage; from then on the registry is busy, and it settles only     *)
(* when every group shows what follows from its storages.  Reports and     *)
(* aging come one at a time, each in one step; a group's status and its    *)
(* capacity are shown one after the other, each from the storages of that  *)
(* moment; a storage is given up between reports only for a request that   *)
(* failed since its last one.  Registry implements this.                   *)
(***************************************************************************)
EXTENDS Naturals

CONSTANTS Nodes, Groups, GroupOf, Frees, MinStorageSpace, Patience

VARIABLES
    status, free, age,   \* what is known of each storage
    gStatus, gCap,       \* what is shown of each group
    suspects,            \* storages that failed a request since their last report
    busy                 \* has a report come whose consequences are not shown yet?

vars == <<status, free, age, gStatus, gCap, suspects, busy>>

Ages == 0 .. (Patience + 1)

TypeOK ==
    /\ status \in [Nodes -> {"none", "Active", "Offline", "NotEnoughSpace"}]
    /\ free \in [Nodes -> Frees \cup {0}]
    /\ age \in [Nodes -> Ages]
    /\ gStatus \in [Groups -> {"none", "Active", "Unavailable"}]
    /\ gCap \in [Groups -> Frees \cup {0}]
    /\ suspects \in SUBSET Nodes
    /\ busy \in BOOLEAN

Init ==
    /\ status = [n \in Nodes |-> "none"]
    /\ free = [n \in Nodes |-> 0]
    /\ age = [n \in Nodes |-> 0]
    /\ gStatus = [g \in Groups |-> "none"]
    /\ gCap = [g \in Groups |-> 0]
    /\ suspects = {}
    /\ busy = FALSE

Members(g) == {n \in Nodes : status[n] # "none" /\ GroupOf[n] = g}
Roomy(n)   == free[n] > MinStorageSpace

\* Is c the least free space of g's storages?
Least(g, c) ==
    /\ \E n \in Members(g) : c = free[n]
    /\ \A n \in Members(g) : c <= free[n]

\* What g shows follows from its storages.
Agrees(g) ==
    /\ gStatus[g] = "Unavailable" =>
           gCap[g] = 0 /\ \A n \in Members(g) : status[n] # "Active"
    /\ gStatus[g] = "Active" =>
           Least(g, gCap[g]) /\ \E n \in Members(g) : Roomy(n)

\* A report of n takes effect, a ticks after it was sent.  The first of a group
\* makes it known, for the moment with this storage alone.
Hear(n) ==
    /\ ~busy
    /\ \E space \in Frees \cup {0}, a \in Ages :
           /\ free' = [free EXCEPT ![n] = space]
           /\ age' = [age EXCEPT ![n] = a]
           /\ status' = [status EXCEPT ![n] =
                  IF space > MinStorageSpace THEN "Active" ELSE "NotEnoughSpace"]
           /\ IF gStatus[GroupOf[n]] = "none"
              THEN /\ gStatus' = [gStatus EXCEPT ![GroupOf[n]] = "Active"]
                   /\ gCap' = [gCap EXCEPT ![GroupOf[n]] = space]
              ELSE UNCHANGED <<gStatus, gCap>>
    /\ suspects' = suspects \ {n}
    /\ busy' = TRUE

AgeOut(n) ==
    /\ busy
    /\ status[n] = "Active" /\ age[n] > Patience
    /\ status' = [status EXCEPT ![n] = "Offline"]
    /\ UNCHANGED <<free, age, gStatus, gCap, suspects, busy>>

\* The status shown fits the storages of that moment, the capacity follows in a
\* step of its own: a reader may see the one without the other.
ShowStatus(g) ==
    /\ busy
    /\ gStatus[g] # "none"
    /\ \/ /\ \E n \in Members(g) : Roomy(n)
          /\ gStatus' = [gStatus EXCEPT ![g] = "Active"]
       \/ /\ \A n \in Members(g) : status[n] # "Active"
          /\ gStatus' = [gStatus EXCEPT ![g] = "Unavailable"]
    /\ UNCHANGED <<status, free, age, gCap, suspects, busy>>

ShowCap(g) ==
    /\ busy
    /\ \E c \in Frees \cup {0} :
           /\ \/ gStatus[g] = "Active" /\ Least(g, c)
              \/ gStatus[g] = "Unavailable" /\ c = 0
           /\ gCap' = [gCap EXCEPT ![g] = c]
    /\ UNCHANGED <<status, free, age, gStatus, suspects, busy>>

Settle ==
    /\ busy
    /\ \A g \in Groups : Agrees(g)
    /\ busy' = FALSE
    /\ UNCHANGED <<status, free, age, gStatus, gCap, suspects>>

\* A request to n fails, which may be held against n until its next report.
Suspect(n) ==
    /\ status[n] # "none"
    /\ suspects' = suspects \cup {n}
    /\ UNCHANGED <<status, free, age, gStatus, gCap, busy>>

GiveUp(n) ==
    /\ n \in suspects
    /\ status' = [status EXCEPT ![n] = "Offline"]
    /\ suspects' \in {suspects, suspects \ {n}}
    /\ UNCHANGED <<free, age, gStatus, gCap, busy>>

Tick ==
    /\ age' = [n \in Nodes |->
           IF status[n] = "none" \/ age[n] > Patience THEN age[n] ELSE age[n] + 1]
    /\ UNCHANGED <<status, free, gStatus, gCap, suspects, busy>>

\* The tracker's process ends, and everything is forgotten.
Forget ==
    /\ status' = [n \in Nodes |-> "none"]
    /\ free' = [n \in Nodes |-> 0]
    /\ age' = [n \in Nodes |-> 0]
    /\ gStatus' = [g \in Groups |-> "none"]
    /\ gCap' = [g \in Groups |-> 0]
    /\ suspects' = {}
    /\ busy' = FALSE

Next ==
    \/ \E n \in Nodes : Hear(n) \/ AgeOut(n) \/ Suspect(n) \/ GiveUp(n)
    \/ \E g \in Groups : ShowStatus(g) \/ ShowCap(g)
    \/ Settle \/ Tick \/ Forget

Spec == Init /\ [][Next]_vars

-----------------------------------------------------------------------------
\* The promise itself: an Active storage had room in its last report, and a
\* settled group shows what follows from its storages (tracker.go:153, 437).
Promised ==
    /\ \A n \in Nodes : status[n] = "Active" => Roomy(n)
    /\ ~busy => \A g \in Groups : Agrees(g)

\* Promised, and a suspect is a storage somebody knows of.
IInv ==
    /\ TypeOK
    /\ Promised
    /\ \A n \in suspects : status[n] # "none"
=============================================================================
