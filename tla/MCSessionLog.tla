---------------------------- MODULE MCSessionLog ----------------------------
(***************************************************************************)
(* Model-checking instance of SessionLog.                                  *)
(***************************************************************************)
EXTENDS SessionLog

Spec == LogInit /\ [][LogNext]_logVars
=============================================================================
