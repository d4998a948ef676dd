------------------------------ MODULE MCNaming ------------------------------
(***************************************************************************)
(* Two trackers configured with different node ids, for TLC.               *)
(***************************************************************************)
EXTENDS Naming, TLC

CONSTANTS t1, t2

ConfiguredAs == t1 :> 1 @@ t2 :> 2
=============================================================================
