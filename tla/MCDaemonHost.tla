----------------------------- MODULE MCDaemonHost -----------------------------
(***************************************************************************)
(* Small instances of the daemon's host: two clients of one build, and two *)
(* of different builds that are both newer than the daemon.                *)
(***************************************************************************)
EXTENDS DaemonHost, TLC

CONSTANTS c1, c2

MCOneBuild == (c1 :> 2) @@ (c2 :> 2)
MCTwoBuilds == (c1 :> 2) @@ (c2 :> 3)
===============================================================================
