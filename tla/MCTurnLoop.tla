----------------------------- MODULE MCTurnLoop -----------------------------
(***************************************************************************)
(* Model-checking instance of TurnLoop: two efforts, the higher one with   *)
(* a higher ceiling and a review; two classes, the larger one the last.    *)
(***************************************************************************)
EXTENDS TurnLoop

MCEfforts     == {"low", "max"}
MCEffortTurns == [low |-> 2, max |-> 2]
MCCeiling     == [low |-> 2, max |-> 3]
MCReviewing   == {"max"}
MCClassTurns  == <<2, 3>>

=============================================================================
