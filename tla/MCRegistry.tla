----------------------------- MODULE MCRegistry -----------------------------
(***************************************************************************)
(* Instances of Registry for TLC.                                          *)
(***************************************************************************)
EXTENDS Registry, TLC

CONSTANTS s1, s2, g1, g2, r1, r2, r3

\* Two storages, in one group or in two.
OneGroup  == s1 :> g1 @@ s2 :> g1
TwoGroups == s1 :> g1 @@ s2 :> g2

\* One report at a time from each storage; or two at once from the first, of
\* which the older may be handled last.
OneEach  == r1 :> s1 @@ r2 :> s2
Overlap  == r1 :> s1 @@ r2 :> s1 @@ r3 :> s2

\* Under Overlap the two reports of the first storage are interchangeable.
Symmetry == Permutations({r1, r2})

\* View without up: a storage that is down only lacks steps that one that is up
\* has, so every state but for up is reached with all of them up.
AnyUp == <<storageVars, groupVars, reportVars, scanVars, requestVars>>
=============================================================================
