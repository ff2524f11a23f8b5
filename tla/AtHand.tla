------------------------------- MODULE AtHand -------------------------------
(***************************************************************************)
(* What a session has at hand: the memory of its project, its to-dos and   *)
(* its skills.  The three share no state.                                  *)
(***************************************************************************)
EXTENDS Memory, Checklist, Skills

\* What a session has at hand is what its files and its conversation hold: its memory,
\* its to-dos and its skills, whoever wrote them and whatever was opened between.
AtHandIsTrue == MemoryIsTrue /\ ChecklistIsTrue /\ SkillsComeOnce
=============================================================================
