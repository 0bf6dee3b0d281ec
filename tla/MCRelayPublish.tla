---------------------------- MODULE MCRelayPublish ----------------------------
(***************************************************************************)
(* Instance of RelayPublish for TLC: three calls, two of them for the same *)
(* event, so that one OK can settle several calls.                         *)
(***************************************************************************)
EXTENDS RelayPublish, TLC

CONSTANTS p1, p2, p3, e1, e2

MCEventOf == (p1 :> e1) @@ (p2 :> e1) @@ (p3 :> e2)
===============================================================================
