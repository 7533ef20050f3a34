---------------------------- MODULE MCDocBridge ----------------------------
(***************************************************************************)
(* A small instance of the bridge for TLC.                                 *)
(***************************************************************************)
EXTENDS DocBridge
=============================================================================
