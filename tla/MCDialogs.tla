----------------------------- MODULE MCDialogs ------------------------------
(***************************************************************************)
(* Model-checking instance of Dialogs alone, for what a comment of         *)
(* modals.go says and the code does not do.                                *)
(***************************************************************************)
EXTENDS Dialogs

Spec == DialogsInit /\ [][DialogsNext]_dialogVars
=============================================================================
