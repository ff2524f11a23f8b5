----------------------------- MODULE MCToolTurn -----------------------------
(***************************************************************************)
(* Model-checking instance of ToolTurn.                                    *)
(***************************************************************************)
EXTENDS ToolTurn

=============================================================================
