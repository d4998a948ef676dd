---------------------------- MODULE MCHttpClient ----------------------------
(***************************************************************************)
(* The requests of a storage's process, for TLC: a status report to each   *)
(* of two trackers, an error log sent to both in turn, and a download.     *)
(***************************************************************************)
EXTENDS HttpClient, TLC

CONSTANTS status1, status2, errlog, get

AskedOf    == status1 :> 1 @@ status2 :> 1 @@ errlog :> 5 @@ get :> 0
RequestsOf == status1 :> 1 @@ status2 :> 1 @@ errlog :> 2 @@ get :> 1
=============================================================================
