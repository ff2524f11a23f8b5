------------------------------- MODULE Screen -------------------------------
(***************************************************************************)
(* The screen of a session: its messages (Terminal) and the prompt being   *)
(* composed under them (Pastes).  The two share no state.                  *)
(***************************************************************************)
EXTENDS Terminal, Pastes

\* What the user sees and what the engine is told are the session's own: the messages on
\* the screen, and the prompt with every pasted block in its place.
ScreenIsTrue == ScreenIsOwn /\ SentAsComposed
=============================================================================
