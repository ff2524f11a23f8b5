-------------------------- MODULE TurnLoop_proofs --------------------------
(***************************************************************************)
(* Proofs about the turn loop, for all efforts, ceilings, budgets and      *)
(* limits of the breakers, and for any number of messages; and about the   *)
(* screen the user follows it on, for any sessions, stores and pages, and  *)
(* for prompts of any length.                                              *)
(*                                                                         *)
(* TerminalInv follows a row from the store, a task or a page to the       *)
(* screen; PastesInv follows a label from the paste to what is sent.       *)
(***************************************************************************)
EXTENDS TurnLoop, Screen, FoldLemmas, SequenceTheorems, TLAPS

USE DEF GoTo

-----------------------------------------------------------------------------
(* The runway never exceeds the ceiling. *)

LEMMA MinBelow ==
    ASSUME NEW a \in Int, NEW b \in Int
    PROVE  /\ Min({a, b}) \in Int /\ Min({a, b}) <= a /\ Min({a, b}) <= b
           /\ Min({a, b}) = a \/ Min({a, b}) = b
<1>1. \E x \in {a, b} : \A y \in {a, b} : x <= y
  OBVIOUS
<1>2. Min({a, b}) \in {a, b} /\ \A y \in {a, b} : Min({a, b}) <= y
  BY <1>1 DEF Min
<1> QED BY <1>2

LEMMA MaxAbove ==
    ASSUME NEW a \in Int, NEW b \in Int
    PROVE  Max({a, b}) \in Int /\ Max({a, b}) >= a /\ Max({a, b}) >= b
<1>1. \E x \in {a, b} : \A y \in {a, b} : x >= y
  OBVIOUS
<1>2. Max({a, b}) \in {a, b} /\ \A y \in {a, b} : Max({a, b}) >= y
  BY <1>1 DEF Max
<1> QED BY <1>2

\* Labels between the start of a turn and its end.
InTurn == {"ask", "wait", "verify"} \cup Replies

\* The types the bound on turns rests on.
RunwayType ==
    /\ pc \in Pcs /\ effort \in Efforts /\ class \in Classes
    /\ turns \in Int /\ turnCap \in Int
    /\ steering \in Seq(Nat) /\ heard \in Seq(Nat) /\ queued \in Nat
    /\ verified \in BOOLEAN

Bound == TopCeiling + Len(heard) + (IF verified THEN 1 ELSE 0)

\* Why turns are bounded.  A turn that another follows was not the final one,
\* or left a message waiting, or was the one whose verification failed; the
\* first stays below the ceiling, the others raise the bound.
RunwayInv ==
    /\ pc \in {"idle", "prologue"} => turns = 0
    /\ pc \in InTurn => turnCap <= TopCeiling /\ turns <= Bound
    /\ pc = "verify" => ~verified
    /\ pc = "top" => turns + 1 <= Bound + (IF steering = <<>> THEN 0 ELSE 1)
    /\ pc = "closing" => turns <= Bound + 1

Inv == RunwayType /\ RunwayInv

LEMMA MaxTurnsIsInt ==
    ASSUME NEW c \in Classes, NEW e \in Efforts
    PROVE  MaxTurns(c, e) \in Int /\ MaxTurns(c, e) >= 2
<1>1. /\ EffortTurns[e] \in Int /\ EffortTurns[e] >= 2
      /\ ClassTurns[c] \in Int /\ ClassTurns[c] >= 2
  <2>1. EffortTurns[e] \in Nat \ {0, 1} /\ ClassTurns[c] \in Nat \ {0, 1}
    BY ConstantsAssumption DEF Classes, Epic
  <2> QED BY <2>1
<1> DEFINE fewest == Min({EffortTurns[e], ClassTurns[c]})
<1>2. fewest = EffortTurns[e] \/ fewest = ClassTurns[c]
  BY <1>1, MinBelow
<1> HIDE DEF fewest
<1>3. fewest \in Int /\ fewest >= 2
  BY <1>1, <1>2
<1> QED BY <1>3 DEF MaxTurns, fewest

LEMMA CeilingOfEffort ==
    ASSUME NEW e \in Efforts
    PROVE  Ceiling[e] \in Nat /\ TopCeiling \in Nat \ {0} /\ Ceiling[e] <= TopCeiling
<1>1. TopCeiling \in Nat \ {0}
  BY ConstantsAssumption DEF Range
<1> QED BY <1>1, ConstantsAssumption

LEMMA RunwayBelowCeiling ==
    ASSUME RunwayType, NEW turn \in Int
    PROVE  Runway(turn) \in Int /\ Runway(turn) <= TopCeiling
<1> DEFINE live == MaxTurns(class, effort)
           kept == Min({Ceiling[effort], Max({turnCap, live})})
<1>1. live \in Int /\ turnCap \in Int
  BY MaxTurnsIsInt DEF RunwayType
<1>2. Ceiling[effort] \in Int /\ Ceiling[effort] <= TopCeiling /\ TopCeiling \in Int
  BY CeilingOfEffort DEF RunwayType
<1> HIDE DEF live
<1>3. kept \in Int /\ kept <= Ceiling[effort]
  BY <1>1, <1>2, MaxAbove, MinBelow
<1> HIDE DEF kept
<1>4. turn - 1 + live \in Int
  BY <1>1
<1>5. Max({kept, turn - 1 + live}) \in Int
  BY <1>3, <1>4, MaxAbove
<1>6. /\ Min({Ceiling[effort], Max({kept, turn - 1 + live})}) \in Int
      /\ Min({Ceiling[effort], Max({kept, turn - 1 + live})}) <= Ceiling[effort]
  BY <1>2, <1>5, MinBelow
<1> QED BY <1>2, <1>3, <1>6 DEF Runway, kept, live

LEMMA ExtendedBelowCeiling ==
    ASSUME RunwayType, NEW turn \in Int, class # Epic
    PROVE  /\ Extended(turn) \in Int /\ Extended(turn) <= TopCeiling
           /\ class + 1 \in Classes
<1>1. class + 1 \in Classes
  BY ConstantsAssumption DEF RunwayType, Classes, Epic
<1>2. MaxTurns(class + 1, effort) \in Int /\ Runway(turn) + Extension \in Int
  <2> DEFINE next == class + 1
  <2>1. next \in Classes /\ effort \in Efforts
    BY <1>1 DEF RunwayType
  <2> HIDE DEF next
  <2>2. MaxTurns(next, effort) \in Int
    BY <2>1, MaxTurnsIsInt
  <2>3. Runway(turn) \in Int /\ Extension \in Int
    BY RunwayBelowCeiling, ConstantsAssumption
  <2> QED BY <2>2, <2>3 DEF next
<1>3. Ceiling[effort] \in Int /\ Ceiling[effort] <= TopCeiling /\ TopCeiling \in Int
  BY CeilingOfEffort DEF RunwayType
<1> DEFINE longer == Max({Runway(turn) + Extension, MaxTurns(class + 1, effort)})
<1>4. longer \in Int
  BY <1>2, MaxAbove
<1> HIDE DEF longer
<1>5. Min({Ceiling[effort], longer}) \in Int /\ Min({Ceiling[effort], longer}) <= Ceiling[effort]
  BY <1>3, <1>4, MinBelow
<1> QED BY <1>1, <1>3, <1>5 DEF Extended, longer

-----------------------------------------------------------------------------
(* The inductive invariant. *)

USE DEF queueVars, runwayVars, workVars, nudgeVars, breakerVars

LEMMA BoundIsInt ==
    ASSUME RunwayType
    PROVE  Bound \in Int /\ TopCeiling \in Int /\ TopCeiling <= Bound
<1>1. TopCeiling \in Int
  BY CeilingOfEffort DEF RunwayType
<1>2. Len(heard) \in Nat
  BY DEF RunwayType
<1> QED BY <1>1, <1>2 DEF Bound

LEMMA InitInv == ASSUME Init PROVE Inv
<1>1. RunwayType
  <2>1. class \in Classes
    BY ConstantsAssumption DEF Init, Locals, Classes, Epic
  <2>2. steering \in Seq(Nat) /\ heard \in Seq(Nat)
    BY DEF Init
  <2>3. pc \in Pcs /\ effort \in Efforts /\ queued \in Nat
    BY DEF Init, Pcs
  <2>4. turns \in Int /\ turnCap \in Int
    BY DEF Init, Locals
  <2>5. verified \in BOOLEAN
    BY DEF Init, Locals
  <2> QED BY <2>1, <2>2, <2>3, <2>4, <2>5 DEF RunwayType
<1>2. RunwayInv
  BY DEF Init, Locals, RunwayInv, InTurn, Replies
<1> QED BY <1>1, <1>2 DEF Inv

\* A turn begins: what waited is heard, the runway is below the ceiling.
LEMMA StartTurnInv ==
    ASSUME Inv, StartTurn
    PROVE  Inv'
<1>1. turns' \in Int /\ turns' = turns + 1
  BY DEF Inv, RunwayType, StartTurn
<1>2. turnCap' \in Int /\ turnCap' <= TopCeiling /\ class' \in Classes
  <2>1. CASE ~Outgrown(turns')
    <3>1. turnCap' = Runway(turns') /\ class' = class
      BY <2>1 DEF StartTurn
    <3> QED BY <1>1, <3>1, RunwayBelowCeiling DEF Inv, RunwayType
  <2>2. CASE Outgrown(turns')
    <3>1. turnCap' = Extended(turns') /\ class' = class + 1 /\ class # Epic
      BY <2>2 DEF StartTurn, Outgrown
    <3> QED BY <1>1, <3>1, ExtendedBelowCeiling DEF Inv
  <2> QED BY <2>1, <2>2
<1>3. heard' = heard \o steering /\ steering' = <<>>
  BY DEF StartTurn
<1>4. heard' \in Seq(Nat) /\ Len(heard') = Len(heard) + Len(steering)
  BY <1>3, ConcatProperties DEF Inv, RunwayType
<1>5. RunwayType'
  <2>1. pc' = "ask" /\ effort' = effort /\ queued' = queued /\ verified' = verified
    BY DEF StartTurn
  <2> QED BY <1>1, <1>2, <1>3, <1>4, <2>1 DEF Inv, RunwayType, Pcs
<1>6. turns' <= Bound'
  <2>1. turns + 1 <= Bound + (IF steering = <<>> THEN 0 ELSE 1)
    BY DEF Inv, RunwayInv, StartTurn
  <2>2. steering # <<>> => Len(steering) >= 1
    BY DEF Inv, RunwayType
  <2>3. Bound' = Bound + Len(steering)
    BY <1>4, CeilingOfEffort DEF Inv, RunwayType, Bound, StartTurn
  <2>4. Bound \in Int /\ Len(steering) \in Nat
    BY BoundIsInt DEF Inv, RunwayType
  <2> QED BY <1>1, <2>1, <2>2, <2>3, <2>4 DEF Inv, RunwayType
<1>7. RunwayInv'
  BY <1>2, <1>6 DEF StartTurn, RunwayInv, InTurn, Replies
<1> QED BY <1>5, <1>7 DEF Inv

\* Steps of the task that only move it, within what RunwayInv says of the label.
LEMMA MoveInv ==
    ASSUME Inv, NEW place \in Pcs, GoTo(place), UNCHANGED <<runwayVars, verified>>,
           \/ place = "top" /\ \/ pc = "prologue"
                               \/ pc \in InTurn /\ (turns < turnCap \/ steering # <<>>)
           \/ place \in InTurn \ {"verify"} /\ pc \in InTurn
           \/ place = "verify" /\ pc \in InTurn /\ ~verified
           \/ place = "closing" /\ pc # "idle"
    PROVE  Inv'
<1>1. RunwayType'
  BY DEF Inv, RunwayType
<1>2. Bound' = Bound /\ Bound \in Int /\ TopCeiling \in Nat \ {0} /\ TopCeiling <= Bound
  BY BoundIsInt, CeilingOfEffort DEF Inv, RunwayType, Bound
<1>3. turns' = turns /\ turnCap' = turnCap /\ steering' = steering /\ pc' = place
  BY DEF Inv
<1>4. turns \in Int /\ turnCap \in Int
  BY DEF Inv, RunwayType
<1>5. RunwayInv'
  BY <1>2, <1>3, <1>4 DEF Inv, RunwayInv, RunwayType, InTurn, Replies, Pcs
<1> QED BY <1>1, <1>5 DEF Inv

LEMMA StepInv ==
    ASSUME Inv, [Next]_vars
    PROVE  Inv'
<1> USE DEF Inv
<1>1. CASE Begin
  <2>1. PICK c \in Classes : class' = c /\ turnCap' = MaxTurns(c, effort)
    BY <1>1 DEF Begin
  <2>2. turnCap' \in Int /\ class' \in Classes
    BY <2>1, MaxTurnsIsInt DEF RunwayType
  <2>3. RunwayType'
    BY <1>1, <2>2 DEF Begin, RunwayType, Pcs
  <2> QED BY <1>1, <2>3 DEF Begin, RunwayInv, InTurn, Replies
<1>2. CASE QueueUserMessage
  <2>1. /\ steering' \in Seq(Nat) /\ steering' # <<>> /\ queued' \in Nat
        /\ UNCHANGED <<pc, effort, heard, runwayVars, verified>>
    BY <1>2, AppendProperties DEF QueueUserMessage, RunwayType
  <2>2. RunwayType'
    BY <2>1 DEF RunwayType
  <2>3. Bound' = Bound /\ Bound \in Int
    BY <2>1, BoundIsInt DEF Bound
  <2> QED BY <2>1, <2>2, <2>3 DEF RunwayInv, RunwayType
<1>3. CASE Cancel \/ UNCHANGED vars
  <2>1. UNCHANGED <<pc, effort, queueVars, runwayVars, verified>>
    BY <1>3 DEF Cancel, vars
  <2> QED BY <2>1 DEF RunwayType, RunwayInv, Bound
<1>4. CASE SetEffort
  <2>1. effort' \in Efforts /\ UNCHANGED <<pc, queueVars, runwayVars, verified>>
    BY <1>4 DEF SetEffort
  <2> QED BY <2>1 DEF RunwayType, RunwayInv, Bound
<1>5. CASE Prepare
  BY <1>5, MoveInv DEF Prepare, Pcs
<1>6. CASE Fail
  BY <1>6, MoveInv DEF Fail, Pcs
<1>7. CASE StopAtBudget
  BY <1>7, MoveInv DEF StopAtBudget, Pcs
<1>8. CASE Stop
  <2>1. RunwayType'
    BY <1>8 DEF Stop, RunwayType, Pcs
  <2>2. Bound' = Bound /\ Bound \in Int
    BY <1>8, BoundIsInt DEF Stop, Bound
  <2> QED BY <1>8, <2>1, <2>2 DEF Stop, RunwayInv, RunwayType, InTurn, Replies
<1>9. CASE StartTurn
  BY <1>9, StartTurnInv
<1>10. CASE Respond
  <2>1. PICK place \in Replies : GoTo(place)
    BY <1>10 DEF Respond
  <2>2. pc = "ask" /\ UNCHANGED <<runwayVars, verified>>
    BY <1>10 DEF Respond
  <2>3. place \in Pcs /\ place \in InTurn \ {"verify"} /\ pc \in InTurn
    BY <2>1, <2>2 DEF Pcs, InTurn, Replies
  <2> QED BY <2>1, <2>2, <2>3, MoveInv
<1>11. CASE RateLimited
  BY <1>11, MoveInv DEF RateLimited, Pcs
<1>12. CASE Recover
  <2> DEFINE place == IF Len(Recent(chatFails', turns - Window)) > ChatFailures
                      THEN "closing" ELSE "wait"
  <2>1. GoTo(place) /\ pc = "ask" /\ UNCHANGED <<runwayVars, verified>>
    BY <1>12 DEF Recover
  <2>2. place \in {"closing", "wait"}
    OBVIOUS
  <2> HIDE DEF place
  <2> QED BY <2>1, <2>2, MoveInv DEF Pcs, InTurn
<1>13. CASE Retry
  <2>1. RunwayType'
    BY <1>13 DEF Retry, RunwayType, Pcs
  <2>2. Bound' = Bound /\ Bound \in Int
    BY <1>13, BoundIsInt DEF Retry, Bound
  <2> QED BY <1>13, <2>1, <2>2 DEF Retry, RunwayInv, RunwayType, InTurn, Replies
<1>14. CASE HearFirst
  <2>1. pc \in InTurn /\ steering # <<>>
    BY <1>14 DEF HearFirst, Replied, InTurn
  <2> QED BY <1>14, <2>1, MoveInv DEF HearFirst, Pcs
<1>15. CASE EmptyReply \/ IntentReply \/ ReviewReply
  <2>1. pc \in InTurn /\ turns < turnCap /\ GoTo("top") /\ UNCHANGED <<runwayVars, verified>>
    BY <1>15 DEF EmptyReply, IntentReply, ReviewReply, AskAgain, Announces, Settled,
                 Replied, InTurn, Final, RunwayType
  <2> QED BY <2>1, MoveInv DEF Pcs
<1>16. CASE Answer
  <2>1. pc # "idle" /\ GoTo("closing") /\ UNCHANGED <<runwayVars, verified>>
    BY <1>16 DEF Answer, Settled, Replied, Replies
  <2> QED BY <2>1, MoveInv DEF Pcs
<1>17. CASE RunTools
  <2> DEFINE place == IF Broken THEN "closing"
                      ELSE IF ~Final THEN "top"
                      ELSE IF NeedsVerification THEN "verify" ELSE "closing"
  <2>1. GoTo(place) /\ pc = "calls" /\ UNCHANGED <<runwayVars, verified>>
    BY <1>17 DEF RunTools
  <2>2. /\ place \in {"closing", "top", "verify"}
        /\ place = "top" => ~Final
        /\ place = "verify" => ~verified
    BY DEF NeedsVerification
  <2>3. ~Final => turns < turnCap
    BY DEF Final, RunwayType
  <2> HIDE DEF place
  <2> QED BY <2>1, <2>2, <2>3, MoveInv DEF Pcs, InTurn, Replies
<1>18. CASE Verify
  <2>1. /\ pc = "verify" /\ verified' = TRUE /\ ~verified
        /\ pc' \in {"top", "closing"} /\ UNCHANGED <<effort, queueVars, runwayVars>>
    BY <1>18 DEF Verify, RunwayInv
  <2>2. RunwayType'
    BY <2>1 DEF RunwayType, Pcs
  <2>3. Bound' = Bound + 1 /\ Bound \in Int
    BY <2>1, BoundIsInt, CeilingOfEffort DEF Bound, RunwayType
  <2> QED BY <2>1, <2>2, <2>3 DEF RunwayInv, RunwayType, InTurn, Replies
<1>19. CASE Release
  <2>1. RunwayType'
    <3>1. class' \in Classes
      BY <1>19, ConstantsAssumption DEF Release, LocalsEnd, Classes, Epic
    <3>2. steering' = <<>> /\ heard' = heard /\ queued' = queued /\ effort' = effort
      BY <1>19 DEF Release
    <3>3. pc' \in Pcs /\ turns' \in Int /\ turnCap' \in Int
      BY <1>19 DEF Release, LocalsEnd, Pcs
    <3>4. verified' \in BOOLEAN
      BY <1>19 DEF Release, LocalsEnd
    <3> QED BY <3>1, <3>2, <3>3, <3>4 DEF RunwayType
  <2> QED BY <1>19, <2>1 DEF Release, LocalsEnd, RunwayInv, InTurn, Replies
<1> QED BY <1>1, <1>2, <1>3, <1>4, <1>5, <1>6, <1>7, <1>8, <1>9, <1>10, <1>11, <1>12,
          <1>13, <1>14, <1>15, <1>16, <1>17, <1>18, <1>19 DEF Next, TaskStep

LEMMA InvBoundsTurns == ASSUME Inv PROVE TurnsBounded
<1>1. Bound \in Int /\ TopCeiling \in Nat \ {0} /\ TopCeiling <= Bound /\ turns \in Int
  BY BoundIsInt, CeilingOfEffort DEF Inv, RunwayType
<1>2. turns <= Bound + (IF pc = "closing" THEN 1 ELSE 0)
  BY <1>1 DEF Inv, RunwayInv, RunwayType, Pcs, InTurn
<1> QED BY <1>1, <1>2 DEF TurnsBounded, Bound

\* However efforts, classes, retries, reviews and messages move its runway, a
\* task takes at most the highest ceiling, one turn for each message it heard
\* and one for a failed verification.
THEOREM TurnsAreBounded == Spec => []TurnsBounded
<1>1. Init => Inv
  BY InitInv
<1>2. Inv /\ [Next]_vars => Inv'
  BY StepInv
<1>3. Inv => TurnsBounded
  BY InvBoundsTurns
<1> QED BY <1>1, <1>2, <1>3, PTL DEF Spec

-----------------------------------------------------------------------------
(* The queue. *)

\* The numbers of the messages queued for a task, in their order.
FirstMessages(n) == [m \in 1 .. n |-> m]

LEMMA UpToIsSeq == ASSUME NEW n \in Nat PROVE FirstMessages(n) \in Seq(Nat) /\ Len(FirstMessages(n)) = n
BY DEF FirstMessages

LEMMA AppendNext ==
    ASSUME NEW n \in Nat
    PROVE  Append(FirstMessages(n), n + 1) = FirstMessages(n + 1)
BY DEF FirstMessages

QueueInv == RunwayType /\ HeardOnceByItsTask

LEMMA StepQueueInv ==
    ASSUME Inv, QueueInv, [Next]_vars
    PROVE  HeardOnceByItsTask'
<1>1. CASE UNCHANGED <<queueVars>> /\ (pc = "idle" <=> pc' = "idle")
  BY <1>1 DEF QueueInv, HeardOnceByItsTask
<1>2. CASE Begin
  <2>1. heard' = <<>> /\ steering' = <<>> /\ queued' = 0 /\ pc' # "idle"
    BY <1>2 DEF Begin, QueueInv, HeardOnceByItsTask
  <2>2. <<>> \o <<>> = [n \in 1 .. 0 |-> n]
    OBVIOUS
  <2> QED BY <2>1, <2>2 DEF HeardOnceByItsTask
<1>3. CASE QueueUserMessage
  <2>1. /\ pc' # "idle" /\ queued' = queued + 1 /\ heard' = heard
        /\ steering' = Append(steering, queued + 1)
    BY <1>3 DEF QueueUserMessage
  <2>2. heard \o steering = FirstMessages(queued)
    BY <1>3 DEF QueueUserMessage, QueueInv, HeardOnceByItsTask, FirstMessages
  <2>3. heard \o Append(steering, queued + 1) = Append(heard \o steering, queued + 1)
    BY DEF QueueInv, RunwayType
  <2>4. heard' \o steering' = FirstMessages(queued')
    BY <2>1, <2>2, <2>3, AppendNext DEF QueueInv, RunwayType
  <2> QED BY <2>1, <2>4 DEF HeardOnceByItsTask, FirstMessages
<1>4. CASE StartTurn
  <2>1. /\ pc # "idle" /\ pc' # "idle" /\ queued' = queued
        /\ heard' = heard \o steering /\ steering' = <<>>
    BY <1>4 DEF StartTurn
  <2>2. heard \o steering \in Seq(Nat)
    BY ConcatProperties DEF QueueInv, RunwayType
  <2>3. heard' \o steering' = heard \o steering
    BY <2>1, <2>2, ConcatEmptySeq
  <2> QED BY <2>1, <2>3 DEF HeardOnceByItsTask, QueueInv
<1>5. CASE Release
  BY <1>5 DEF Release, HeardOnceByItsTask
<1>6. CASE Cancel \/ SetEffort \/ UNCHANGED vars
  BY <1>1, <1>6 DEF Cancel, SetEffort, vars
<1>7. CASE Prepare \/ Fail \/ StopAtBudget \/ Stop \/ RateLimited \/ Retry
  BY <1>1, <1>7 DEF Prepare, Fail, StopAtBudget, Stop, RateLimited, Retry
<1>8. CASE Respond \/ Recover
  BY <1>1, <1>8 DEF Respond, Recover, Replies
<1>9. CASE HearFirst \/ EmptyReply \/ IntentReply \/ ReviewReply \/ Answer
  <2>1. Replied
    BY <1>9 DEF HearFirst, EmptyReply, IntentReply, ReviewReply, Answer, AskAgain,
                Announces, Settled
  <2> QED BY <1>1, <1>9, <2>1 DEF HearFirst, EmptyReply, IntentReply, ReviewReply,
                                  Answer, Replied, Replies
<1>10. CASE RunTools \/ Verify
  BY <1>1, <1>10 DEF RunTools, Verify
<1> QED BY <1>2, <1>3, <1>4, <1>5, <1>6, <1>7, <1>8, <1>9, <1>10 DEF Next, TaskStep

\* What a task has heard and what waits for it are its own messages, once each
\* and in their order; a message never reaches a task it was not queued for.
THEOREM MessagesHeardOnce == Spec => []HeardOnceByItsTask
<1>1. Init => Inv /\ HeardOnceByItsTask
  BY InitInv DEF Init, HeardOnceByItsTask
<1>2. Inv /\ HeardOnceByItsTask /\ [Next]_vars => Inv' /\ HeardOnceByItsTask'
  BY StepInv, StepQueueInv DEF Inv, QueueInv
<1> QED BY <1>1, <1>2, PTL DEF Spec

-----------------------------------------------------------------------------
(* What a message is worth. *)

\* A waiting message leaves room for the turn that hears it and one more.
LEMMA MessageExtendsRunway ==
    ASSUME RunwayType, NEW turn \in Int, steering # <<>>, turn < Ceiling[effort]
    PROVE  turn < Runway(turn)
<1> DEFINE live  == MaxTurns(class, effort)
           kept  == Min({Ceiling[effort], Max({turnCap, live})})
           whole == Max({kept, turn - 1 + live})
<1>1. live \in Int /\ live >= 2 /\ turnCap \in Int /\ Ceiling[effort] \in Int
  BY MaxTurnsIsInt, CeilingOfEffort DEF RunwayType
<1> HIDE DEF live
<1>2. kept \in Int
  BY <1>1, MaxAbove, MinBelow
<1> HIDE DEF kept
<1>3. turn - 1 + live \in Int /\ turn - 1 + live > turn
  BY <1>1
<1>4. whole \in Int /\ whole >= turn - 1 + live
  BY <1>2, <1>3, MaxAbove
<1> HIDE DEF whole
<1>5. Min({Ceiling[effort], whole}) = Ceiling[effort] \/ Min({Ceiling[effort], whole}) = whole
  BY <1>1, <1>4, MinBelow
<1>6. turn < Min({Ceiling[effort], whole})
  BY <1>1, <1>3, <1>4, <1>5
<1> QED BY <1>6 DEF Runway, kept, live, whole

\* The turn that hears a message is final only at the ceiling.
THEOREM MessagesHeardBeforeTheEnd == Spec => HeardBeforeTheEnd
<1>1. Init => Inv
  BY InitInv
<1>2. Inv /\ [Next]_vars => Inv'
  BY StepInv
<1>3. Inv => [StartTurn /\ steering # <<>> /\ Final' => turns' >= Ceiling[effort]]_vars
  <2> SUFFICES ASSUME Inv, StartTurn, steering # <<>>, Final'
               PROVE  turns' >= Ceiling[effort]
    OBVIOUS
  <2>1. turns' \in Int /\ Ceiling[effort] \in Int
    BY CeilingOfEffort DEF StartTurn, Inv, RunwayType
  <2>2. CASE turns' < Ceiling[effort]
    <3>1. turns' < Runway(turns')
      BY <2>1, <2>2, MessageExtendsRunway DEF Inv
    <3>2. Runway(turns') \in Int
      BY <2>1, RunwayBelowCeiling DEF Inv
    <3>3. ~Outgrown(turns')
      BY <2>1, <3>1, <3>2 DEF Outgrown
    <3>4. turnCap' = Runway(turns')
      BY <3>3 DEF StartTurn
    <3> QED BY <2>1, <3>1, <3>2, <3>4 DEF Final
  <2> QED BY <2>1, <2>2
<1> QED BY <1>1, <1>2, <1>3, PTL DEF Spec, HeardBeforeTheEnd

-----------------------------------------------------------------------------
(* The session on the screen. *)

Rows == Sessions \X Nat
PageResults == [rows : Seq(Rows), oldest : Nat, hasOlder : BOOLEAN]
PageRequests == [gen : Nat, initial : BOOLEAN, cursor : Nat, read : BOOLEAN, page : PageResults]

\* A row of the transcript a session had at the start is that session's own.
RowsOf(rows, s) == \A i \in DOMAIN rows : rows[i][1] = s \/ rows[i][2] > Stored[rows[i][1]]

Unbuilt == \A c \in switches : ~c.built

SessionShape ==
    /\ session \in Sessions \union {NoSession} /\ activated \in Sessions /\ loading \in BOOLEAN
    /\ ~loading => session \in Sessions
    /\ stored \in [Sessions -> Nat] /\ \A s \in Sessions : Stored[s] <= stored[s]

Runs == [of : Sessions \union {NoSession}, at : {"none", "starting", "running", "returned"},
         answers : Nat, unsaved : {0, 1}]

RunShape ==
    /\ run \in Runs
    /\ run.at = "running" => run.of \in Sessions

Pagings == [gen : Nat, oldest : Nat, hasOlder : BOOLEAN, loading : BOOLEAN, initial : BOOLEAN]

PageShape ==
    /\ paging \in Pagings
    /\ pages \subseteq PageRequests /\ \A r \in pages : r.gen <= paging.gen

\* What is on its way from a task is newer than what was stored at the start.
RowShape ==
    /\ shown \in Seq(Rows) /\ wire \in Seq(Rows)
    /\ \A i \in DOMAIN wire : wire[i][2] > Stored[wire[i][1]]

\* The result of a switch carries rows of the session it leads to.
SwitchShape ==
    /\ \A c \in switches : c.to \in Sessions /\ c.built \in BOOLEAN
                           /\ c.recent \in Seq(Rows) /\ \A i \in DOMAIN c.recent : c.recent[i][1] = c.to
    /\ switched \in Nat /\ (switched = 0 => switches = {})

\* Nothing happens before the workspace is there.
LoadingInv ==
    loading => /\ session = NoSession /\ activated = First /\ switches = {} /\ pages = {}
               /\ entered = stash

\* While the application and the model agree on the session, the screen and the pages
\* that will be shown are the session's own.
OwnInv ==
    (Unbuilt /\ activated = session) =>
        /\ RowsOf(shown, session)
        /\ \A r \in pages : r.read /\ r.gen = paging.gen => RowsOf(r.page.rows, session)

TerminalInv ==
    SessionShape /\ RunShape /\ PageShape /\ RowShape /\ SwitchShape /\ LoadingInv /\ OwnInv /\ PromptKept

LEMMA RecentRows ==
    ASSUME SessionShape, NEW s \in Sessions
    PROVE  /\ RecentEvents(s, RecentLimit) \in Seq(Rows)
           /\ \A i \in DOMAIN RecentEvents(s, RecentLimit) : RecentEvents(s, RecentLimit)[i][1] = s
<1> DEFINE n == IF stored[s] < RecentLimit THEN stored[s] ELSE RecentLimit
           e == RecentEvents(s, RecentLimit)
<1>1. n \in Nat /\ n <= stored[s] /\ stored[s] \in Nat
  BY TerminalAssumption DEF SessionShape
<1>2. e = [i \in 1 .. n |-> <<s, stored[s] - n + i>>]
  BY DEF RecentEvents
<1> HIDE DEF n, e
<1>3. \A i \in 1 .. n : <<s, stored[s] - n + i>> \in Rows
  BY <1>1 DEF Rows
<1>4. e \in Seq(Rows) /\ DOMAIN e = 1 .. n
  BY <1>1, <1>2, <1>3
<1> QED BY <1>2, <1>4 DEF e

LEMMA PageRows ==
    ASSUME SessionShape, NEW s \in Sessions, NEW initial \in BOOLEAN, NEW cursor \in Nat
    PROVE  /\ TranscriptPage(s, initial, cursor) \in PageResults
           /\ RowsOf(TranscriptPage(s, initial, cursor).rows, s)
<1> DEFINE top == IF initial THEN stored[s] ELSE IF cursor - 1 < stored[s] THEN cursor - 1 ELSE stored[s]
           low == IF top > PageLimit THEN top - PageLimit + 1 ELSE 1
           rows == [i \in 1..(top - low + 1) |-> <<s, low + i - 1>>]
           page == [rows |-> rows, oldest |-> IF top = 0 THEN 0 ELSE low, hasOlder |-> low > 1]
<1>1. top \in Int /\ low \in Nat \ {0} /\ top - low + 1 \in Int
  BY TerminalAssumption DEF SessionShape
<1>2. TranscriptPage(s, initial, cursor) = page
  BY DEF TranscriptPage
<1> HIDE DEF top, low
<1>3. \A i \in 1 .. (top - low + 1) : <<s, low + i - 1>> \in Rows
  BY <1>1 DEF Rows
<1>4. rows \in Seq(Rows) /\ \A i \in DOMAIN rows : rows[i][1] = s
  <2>1. PICK n \in Nat : 1 .. (top - low + 1) = 1 .. n
    <3>1. CASE top - low + 1 \in Nat
      BY <3>1
    <3>2. CASE top - low + 1 \notin Nat
      <4>1. 1 .. (top - low + 1) = 1 .. 0
        BY <1>1, <3>2
      <4> QED BY <4>1
    <3> QED BY <3>1, <3>2
  <2>2. \A i \in 1 .. n : rows[i] = <<s, low + i - 1>> /\ <<s, low + i - 1>> \in Rows
    BY <1>3, <2>1
  <2>3. rows = [i \in 1 .. n |-> <<s, low + i - 1>>]
    BY <2>1
  <2> HIDE DEF rows
  <2>4. rows \in [1 .. n -> Rows]
    BY <2>2, <2>3
  <2> HIDE DEF top, low
  <2>5. rows \in Seq(Rows) /\ DOMAIN rows = 1 .. n
    BY <2>4
  <2>6. ASSUME NEW i \in 1 .. n PROVE rows[i][1] = s
    <3>1. rows[i] = <<s, low + i - 1>>
      BY <2>2
    <3> QED BY <3>1
  <2> QED BY <2>5, <2>6
<1> HIDE DEF rows
<1>5. page \in PageResults
  <2>1. (IF top = 0 THEN 0 ELSE low) \in Nat /\ (low > 1) \in BOOLEAN
    BY <1>1
  <2> QED BY <1>4, <2>1 DEF PageResults
<1> QED BY <1>2, <1>4, <1>5 DEF RowsOf

LEMMA RowAppendedIs ==
    ASSUME NEW rows \in Seq(Rows), NEW row \in Rows, NEW s, RowsOf(rows, s),
           row[1] = s \/ row[2] > Stored[row[1]]
    PROVE  Append(rows, row) \in Seq(Rows) /\ RowsOf(Append(rows, row), s)
<1>1. Append(rows, row) \in Seq(Rows) /\ DOMAIN Append(rows, row) = 1 .. Len(rows) + 1 /\ DOMAIN rows = 1 .. Len(rows)
      /\ Len(rows) \in Nat
  OBVIOUS
<1>2. \A i \in 1 .. Len(rows) + 1 : Append(rows, row)[i] = IF i = Len(rows) + 1 THEN row ELSE rows[i]
  OBVIOUS
<1>3. \A i \in 1 .. Len(rows) + 1 : i = Len(rows) + 1 \/ i \in 1 .. Len(rows)
  BY <1>1
<1> QED BY <1>1, <1>2, <1>3 DEF RowsOf

LEMMA RowsJoined ==
    ASSUME NEW a \in Seq(Rows), NEW b \in Seq(Rows), NEW s, RowsOf(a, s), RowsOf(b, s)
    PROVE  RowsOf(a \o b, s)
<1>1. DOMAIN a = 1 .. Len(a) /\ DOMAIN b = 1 .. Len(b) /\ DOMAIN (a \o b) = 1 .. Len(a) + Len(b)
      /\ Len(a) \in Nat /\ Len(b) \in Nat
  OBVIOUS
<1>2. \A i \in 1 .. Len(a) + Len(b) : (a \o b)[i] = IF i <= Len(a) THEN a[i] ELSE b[i - Len(a)]
  OBVIOUS
<1>3. ASSUME NEW i \in 1 .. Len(a) + Len(b)
      PROVE  (a \o b)[i][1] = s \/ (a \o b)[i][2] > Stored[(a \o b)[i][1]]
  <2>1. CASE i <= Len(a)
    <3>1. i \in DOMAIN a /\ (a \o b)[i] = a[i]
      BY <1>1, <1>2, <2>1
    <3> QED BY <3>1 DEF RowsOf
  <2>2. CASE ~(i <= Len(a))
    <3>1. i - Len(a) \in DOMAIN b /\ (a \o b)[i] = b[i - Len(a)]
      BY <1>1, <1>2, <2>2
    <3> QED BY <3>1 DEF RowsOf
  <2> QED BY <2>1, <2>2
<1> QED BY <1>1, <1>3 DEF RowsOf

LEMMA RunFields ==
    ASSUME NEW r \in Runs, NEW a \in {"none", "starting", "running", "returned"}
    PROVE  /\ [r EXCEPT !.at = a] \in Runs /\ [r EXCEPT !.at = a].at = a /\ [r EXCEPT !.at = a].of = r.of
           /\ [r EXCEPT !.answers = @ + 1, !.unsaved = 1] \in Runs
           /\ [r EXCEPT !.answers = @ + 1, !.unsaved = 1].of = r.of
           /\ [r EXCEPT !.unsaved = 0] \in Runs /\ [r EXCEPT !.unsaved = 0].of = r.of
           /\ NoRun \in Runs /\ NoRun.at = "none"
<1>1. [r EXCEPT !.at = a] \in Runs /\ [r EXCEPT !.at = a].at = a /\ [r EXCEPT !.at = a].of = r.of
  BY DEF Runs
<1>2. /\ [r EXCEPT !.answers = @ + 1, !.unsaved = 1] \in Runs
      /\ [r EXCEPT !.answers = @ + 1, !.unsaved = 1].of = r.of
  <2>1. r.answers + 1 \in Nat /\ 1 \in {0, 1}
    BY DEF Runs
  <2> QED BY <2>1 DEF Runs
<1>3. [r EXCEPT !.unsaved = 0] \in Runs /\ [r EXCEPT !.unsaved = 0].of = r.of
  BY DEF Runs
<1>4. NoRun \in Runs /\ NoRun.at = "none"
  BY DEF Runs, NoRun
<1> QED BY <1>1, <1>2, <1>3, <1>4

LEMMA TerminalStarts == ASSUME TerminalInit PROVE TerminalInv
<1>1. SessionShape /\ RunShape
  <2>1. NoRun \in Runs /\ NoRun.at = "none"
    BY DEF Runs, NoRun
  <2> QED BY <2>1, TerminalAssumption DEF TerminalInit, SessionShape, RunShape
<1>2. PageShape /\ RowShape /\ SwitchShape
  BY TerminalAssumption DEF TerminalInit, PageShape, Pagings, RowShape, SwitchShape, NewPaging
<1>3. LoadingInv /\ OwnInv /\ PromptKept
  BY TerminalAssumption DEF TerminalInit, LoadingInv, OwnInv, PromptKept, RowsOf
<1> QED BY <1>1, <1>2, <1>3 DEF TerminalInv

\* What a task and the user's keys leave alone.
LEMMA RunOnly ==
    ASSUME TerminalInv, UNCHANGED <<loading, session, switchVars, paging, pages, promptVars>>,
           SessionShape', RunShape', RowShape', shown' = shown
    PROVE  TerminalInv'
<1> USE DEF TerminalInv, switchVars, promptVars
<1>1. PageShape' /\ SwitchShape' /\ LoadingInv' /\ PromptKept'
  BY DEF PageShape, SwitchShape, LoadingInv, PromptKept
<1>2. OwnInv'
  BY DEF OwnInv, Unbuilt, RowsOf
<1> QED BY <1>1, <1>2

LEMMA RunSteps == ASSUME TerminalInv, RunStarts \/ Send \/ Save \/ RunReturns \/ TaskResult PROVE TerminalInv'
<1> USE DEF switchVars, promptVars
<1>0. run \in Runs /\ SessionShape /\ RunShape /\ RowShape
  BY DEF TerminalInv, RunShape
<1>1. CASE RunStarts
  <2>1. RunShape'
    <3>1. CASE run.of = NoSession
      <4>1. run' = [run EXCEPT !.at = "returned"]
        BY <1>1, <3>1 DEF RunStarts
      <4>2. run' \in Runs /\ run'.at = "returned"
        BY <1>0, <4>1, RunFields
      <4> QED BY <4>2 DEF RunShape
    <3>2. CASE run.of # NoSession
      <4>1. run' = [run EXCEPT !.at = "running"]
        BY <1>1, <3>2 DEF RunStarts
      <4>2. run' \in Runs /\ run'.of = run.of
        BY <1>0, <4>1, RunFields
      <4>3. run.of \in Sessions \union {NoSession}
        BY <1>0 DEF Runs
      <4> QED BY <3>2, <4>2, <4>3 DEF RunShape
    <3> QED BY <3>1, <3>2
  <2>2. SessionShape'
    BY <1>0, <1>1, TerminalAssumption DEF RunStarts, SessionShape, RunShape, Runs
  <2>3. RowShape'
    BY <1>0, <1>1 DEF RunStarts, RowShape
  <2>4. UNCHANGED <<loading, session, switchVars, paging, pages, promptVars, shown>>
    BY <1>1 DEF RunStarts
  <2> QED BY <2>1, <2>2, <2>3, <2>4, RunOnly
<1>2. CASE Send
  <2>1. SessionShape' /\ RunShape'
    <3>1. RunShape'
      BY <1>0, <1>2, RunFields DEF Send, RunShape
    <3>2. UNCHANGED <<session, activated, loading, stored>>
      BY <1>2 DEF Send
    <3> QED BY <1>0, <3>1, <3>2 DEF SessionShape
  <2>2. RowShape'
    <3> DEFINE row == <<run.of, stored[run.of] + 1>>
    <3>1. run.of \in Sessions /\ stored[run.of] \in Nat /\ Stored[run.of] <= stored[run.of] /\ Stored[run.of] \in Nat
      BY <1>0, <1>2, TerminalAssumption DEF Send, SessionShape, RunShape
    <3>2. row \in Rows /\ row[2] > Stored[row[1]]
      BY <3>1 DEF Rows
    <3>3. wire' = Append(wire, row) /\ shown' = shown
      BY <1>2 DEF Send
    <3> HIDE DEF row
    <3>4. wire \in Seq(Rows) /\ shown \in Seq(Rows)
      BY <1>0 DEF RowShape
    <3>5. wire' \in Seq(Rows) /\ \A i \in DOMAIN wire' : wire'[i] = row \/ (i \in DOMAIN wire /\ wire'[i] = wire[i])
      BY <3>2, <3>3, <3>4
    <3> QED BY <1>0, <3>2, <3>3, <3>4, <3>5 DEF RowShape
  <2>3. UNCHANGED <<loading, session, switchVars, paging, pages, promptVars, shown>>
    BY <1>2 DEF Send
  <2> QED BY <2>1, <2>2, <2>3, RunOnly
<1>3. CASE Save
  <2>1. RunShape'
    BY <1>0, <1>3, RunFields DEF Save, RunShape
  <2>2. SessionShape'
    <3>1. run.of \in Sessions /\ stored' = [stored EXCEPT ![run.of] = @ + 1]
          /\ UNCHANGED <<session, activated, loading>>
      BY <1>0, <1>3 DEF Save, RunShape
    <3>2. stored' \in [Sessions -> Nat] /\ \A s \in Sessions : stored[s] \in Nat /\ stored'[s] >= stored[s]
      BY <1>0, <3>1 DEF SessionShape
    <3>3. \A s \in Sessions : Stored[s] \in Nat /\ Stored[s] <= stored[s]
      BY <1>0, TerminalAssumption DEF SessionShape
    <3>4. \A s \in Sessions : Stored[s] <= stored'[s]
      BY <3>2, <3>3
    <3> QED BY <1>0, <3>1, <3>2, <3>4 DEF SessionShape
  <2>3. RowShape'
    BY <1>0, <1>3 DEF Save, RowShape
  <2>4. UNCHANGED <<loading, session, switchVars, paging, pages, promptVars, shown>>
    BY <1>3 DEF Save
  <2> QED BY <2>1, <2>2, <2>3, <2>4, RunOnly
<1>4. CASE RunReturns \/ TaskResult
  <2>1. RunShape'
    BY <1>0, <1>4, RunFields DEF RunReturns, TaskResult, RunShape
  <2>2. UNCHANGED <<loading, session, switchVars, stored, paging, pages, promptVars, shown, wire>>
    BY <1>4 DEF RunReturns, TaskResult
  <2>3. SessionShape' /\ RowShape'
    BY <1>0, <2>2 DEF SessionShape, RowShape
  <2> QED BY <2>1, <2>2, <2>3, RunOnly
<1> QED BY <1>1, <1>2, <1>3, <1>4

\* A prompt and the messages of a task are shown; nothing else of the screen moves.
LEMMA ShowSteps == ASSUME TerminalInv, Show PROVE TerminalInv'
<1> USE DEF switchVars, promptVars
<1>1. UNCHANGED <<loading, session, switchVars, stored, run, inTask, paging, pages, promptVars>>
  BY DEF Show
<1>2. shown \in Seq(Rows) /\ wire \in Seq(Rows) /\ wire # <<>> /\ \A i \in DOMAIN wire : wire[i][2] > Stored[wire[i][1]]
  BY DEF TerminalInv, RowShape, Show
<1>3. Head(wire) \in Rows /\ Tail(wire) \in Seq(Rows) /\ Head(wire) = wire[1] /\ 1 \in DOMAIN wire
      /\ \A i \in DOMAIN Tail(wire) : i + 1 \in DOMAIN wire /\ Tail(wire)[i] = wire[i + 1]
  BY <1>2
<1>4. Head(wire)[2] > Stored[Head(wire)[1]]
  BY <1>2, <1>3
<1>5. shown' = Append(shown, Head(wire)) /\ wire' = Tail(wire)
  BY DEF Show
<1>6. RowShape'
  BY <1>2, <1>3, <1>5 DEF RowShape
<1>7. SessionShape' /\ RunShape' /\ PageShape' /\ SwitchShape' /\ LoadingInv' /\ PromptKept'
  BY <1>1 DEF TerminalInv, SessionShape, RunShape, PageShape, SwitchShape, LoadingInv, PromptKept
<1>8. OwnInv'
  <2>1. ASSUME Unbuilt, activated = session PROVE RowsOf(shown', session)
    <3>1. RowsOf(shown, session)
      BY <2>1 DEF TerminalInv, OwnInv
    <3> QED BY <1>2, <1>3, <1>4, <1>5, <3>1, RowAppendedIs
  <2>2. (Unbuilt' <=> Unbuilt) /\ activated' = activated /\ session' = session /\ pages' = pages /\ paging' = paging
    BY <1>1 DEF Unbuilt
  <2> QED BY <2>1, <2>2 DEF TerminalInv, OwnInv, RowsOf
<1> QED BY <1>6, <1>7, <1>8 DEF TerminalInv

-----------------------------------------------------------------------------
(* Prompts and keys.                                                       *)

\* A key moves only what is being composed.
LEMMA KeySteps == ASSUME TerminalInv, Type \/ StashPrompt PROVE TerminalInv'
<1> USE DEF switchVars
<1>1. UNCHANGED <<loading, session, switchVars, stored, run, inTask, wire, shown, paging, pages, taken>>
  BY DEF Type, StashPrompt
<1>2. SessionShape' /\ RunShape' /\ PageShape' /\ RowShape' /\ SwitchShape' /\ OwnInv'
  BY <1>1 DEF TerminalInv, SessionShape, RunShape, PageShape, RowShape, SwitchShape, OwnInv, Unbuilt, RowsOf
<1>3. CASE Type
  BY <1>1, <1>2, <1>3 DEF TerminalInv, Type, LoadingInv, PromptKept
<1>4. CASE StashPrompt
  BY <1>1, <1>2, <1>4 DEF TerminalInv, StashPrompt, LoadingInv, PromptKept
<1> QED BY <1>3, <1>4

\* A task that starts, or the row of its prompt, is the session's own.
LEMMA TaskStarted ==
    ASSUME SessionShape, SessionShape', stored' = stored, session' \in Sessions,
           NEW items \in Seq(Rows), NEW p, StartTask(p, items)
    PROVE  /\ RunShape' /\ shown' \in Seq(Rows) /\ taken' = taken \union {p}
           /\ RowsOf(items, session') => RowsOf(shown', session')
<1> DEFINE row == <<session', stored'[session'] + 1>>
<1>1. run' = [NoRun EXCEPT !.of = session', !.at = "starting"]
  BY DEF StartTask
<1>2. RunShape'
  BY <1>1 DEF RunShape, Runs, NoRun
<1>3. row \in Rows /\ row[1] = session'
  BY DEF SessionShape, Rows
<1>4. session' # NoSession
  BY TerminalAssumption
<1>5. shown' = Append(items, row) /\ taken' = taken \union {p}
  BY <1>4 DEF StartTask
<1> HIDE DEF row
<1> QED BY <1>2, <1>3, <1>5, RowAppendedIs

LEMMA EnterSteps == ASSUME TerminalInv, Enter PROVE TerminalInv'
<1> USE DEF switchVars
<1>1. UNCHANGED <<loading, session, switchVars, stored, wire, paging, pages, stash, typed>> /\ ~loading
      /\ entered' = composer /\ composer # 0 /\ Submit(composer)
  BY DEF Enter
<1>2. SessionShape /\ SessionShape' /\ session' \in Sessions /\ PageShape' /\ SwitchShape' /\ LoadingInv'
  BY <1>1 DEF TerminalInv, SessionShape, PageShape, SwitchShape, LoadingInv
<1>3. shown \in Seq(Rows) /\ RunShape
  BY DEF TerminalInv, RowShape
<1>4. /\ RunShape' /\ shown' \in Seq(Rows) /\ entered' \in {composer'} \union taken'
      /\ RowsOf(shown, session) => RowsOf(shown', session)
  <2>1. CASE inTask
    BY <1>1, <1>3, <2>1 DEF Submit, SteerTask, RunShape
  <2>2. CASE ~inTask
    <3>1. StartTask(composer, shown)
      BY <1>1, <2>2 DEF Submit
    <3> QED BY <1>1, <1>2, <1>3, <3>1, TaskStarted
  <2> QED BY <2>1, <2>2
<1>5. RowShape' /\ PromptKept'
  BY <1>1, <1>4 DEF TerminalInv, RowShape, PromptKept
<1>6. (Unbuilt' <=> Unbuilt) /\ activated' = activated
  BY <1>1 DEF Unbuilt
<1>7. OwnInv'
  BY <1>1, <1>4, <1>6 DEF TerminalInv, OwnInv
<1> QED BY <1>2, <1>4, <1>5, <1>7 DEF TerminalInv

LEMMA HydratedSteps == ASSUME TerminalInv, Hydrated PROVE TerminalInv'
<1> DEFINE recent == RecentEvents(First, RecentLimit)
<1> USE DEF switchVars
<1>1. /\ UNCHANGED <<switchVars, stored, wire, paging, typed, entered>> /\ ~loading' /\ loading /\ session' = First
      /\ pages' = {PageRequest(paging.gen, TRUE, 0)}
  BY DEF Hydrated
<1>2. SessionShape /\ SessionShape' /\ session' \in Sessions /\ SwitchShape' /\ LoadingInv'
  <2>1. SwitchShape' /\ LoadingInv'
    BY <1>1 DEF TerminalInv, SwitchShape, LoadingInv
  <2>2. loading' = FALSE
    BY DEF Hydrated
  <2>3. SessionShape /\ session' \in Sessions /\ UNCHANGED <<activated, stored>>
    BY <1>1, TerminalAssumption DEF TerminalInv
  <2> QED BY <2>1, <2>2, <2>3 DEF SessionShape
<1>3. recent \in Seq(Rows) /\ RowsOf(recent, session')
  BY <1>1, <1>2, RecentRows DEF RowsOf
<1>4. RunShape /\ entered = stash
  BY <1>1 DEF TerminalInv, LoadingInv
<1> HIDE DEF recent
<1>5. /\ RunShape' /\ shown' \in Seq(Rows) /\ RowsOf(shown', session')
      /\ entered' > 0 => entered' \in {composer'} \union taken'
  <2>1. CASE stash = 0 /\ shown' = recent /\ UNCHANGED <<run, inTask, composer, taken>>
    <3>1. ~(entered' > 0)
      BY <1>1, <1>4, <2>1
    <3> QED BY <1>3, <1>4, <2>1, <3>1 DEF RunShape
  <2>2. CASE stash # 0 /\ StartTask(stash, recent)
    BY <1>1, <1>2, <1>3, <1>4, <2>2, TaskStarted
  <2>3. CASE composer' = stash /\ shown' = recent /\ UNCHANGED <<run, inTask, taken>>
    BY <1>1, <1>3, <1>4, <2>3 DEF RunShape
  <2> QED BY <2>1, <2>2, <2>3 DEF Hydrated, recent
<1>6. RowShape' /\ PromptKept'
  BY <1>1, <1>5 DEF TerminalInv, RowShape, PromptKept
<1>7. PageShape' /\ \A r \in pages' : ~r.read
  BY <1>1 DEF TerminalInv, PageShape, Pagings, PageRequest, PageRequests, PageResults
<1>8. OwnInv'
  BY <1>5, <1>7 DEF OwnInv
<1> QED BY <1>2, <1>5, <1>6, <1>7, <1>8 DEF TerminalInv

-----------------------------------------------------------------------------
(* Switches and pages.                                                     *)

\* While only the switches, the screen and the pages move.
LEMMA TaskAlone ==
    ASSUME TerminalInv, UNCHANGED <<loading, stored, run, inTask, wire>>
    PROVE  /\ SessionShape /\ RunShape' /\ stored' = stored
           /\ shown' \in Seq(Rows) => RowShape'
BY DEF TerminalInv, RunShape, RowShape

LEMMA SwitchStarts == ASSUME TerminalInv, NEW s \in Sessions, SwitchTo(s) PROVE TerminalInv'
<1> USE DEF promptVars
<1> DEFINE new == [to |-> s, id |-> switched + 1, built |-> FALSE, recent |-> <<>>]
<1>1. /\ UNCHANGED <<activated, loading, session, stored, run, inTask, wire, shown, paging, pages, promptVars>>
      /\ ~loading /\ switched' = switched + 1 /\ switches' = switches \union {new}
  BY DEF SwitchTo
<1>2. RunShape' /\ SessionShape' /\ RowShape' /\ PageShape' /\ LoadingInv'
  BY <1>1 DEF TerminalInv, RunShape, SessionShape, RowShape, PageShape, LoadingInv
<1>3. new.to = s /\ ~new.built /\ new.built \in BOOLEAN /\ new.recent \in Seq(Rows) /\ DOMAIN new.recent = {}
  OBVIOUS
<1> HIDE DEF new
<1>4. SwitchShape'
  BY <1>1, <1>3 DEF TerminalInv, SwitchShape
<1>5. PromptKept'
  BY <1>1 DEF TerminalInv, SwitchShape, PromptKept
<1>6. OwnInv'
  <2>1. Unbuilt' => Unbuilt
    BY <1>1 DEF Unbuilt
  <2> QED BY <1>1, <2>1 DEF TerminalInv, OwnInv, RowsOf
<1> QED BY <1>2, <1>4, <1>5, <1>6 DEF TerminalInv

LEMMA ActivateSteps == ASSUME TerminalInv, NEW c \in switches, Activate(c) PROVE TerminalInv'
<1> USE DEF promptVars
<1> DEFINE recent == RecentEvents(c.to, RecentLimit)
           d == [c EXCEPT !.built = TRUE, !.recent = recent]
<1>1. /\ UNCHANGED <<switched, loading, session, stored, run, inTask, wire, shown, paging, pages, promptVars>>
      /\ switches' = (switches \ {c}) \union {d} /\ activated' = c.to
  BY DEF Activate
<1>2. c.to \in Sessions /\ SessionShape /\ ~loading /\ switched # 0
  BY DEF TerminalInv, SwitchShape, LoadingInv
<1>3. recent \in Seq(Rows) /\ \A i \in DOMAIN recent : recent[i][1] = c.to
  BY <1>2, RecentRows
<1> HIDE DEF recent
<1>4. d.to = c.to /\ d.built /\ d.built \in BOOLEAN /\ d.recent = recent
  OBVIOUS
<1> HIDE DEF d
<1>5. RunShape' /\ SessionShape' /\ RowShape' /\ PageShape' /\ LoadingInv' /\ PromptKept'
  BY <1>1, <1>2 DEF TerminalInv, RunShape, SessionShape, RowShape, PageShape, LoadingInv, PromptKept
<1>6. SwitchShape'
  BY <1>1, <1>2, <1>3, <1>4 DEF TerminalInv, SwitchShape
<1>7. OwnInv'
  BY <1>1, <1>4 DEF OwnInv, Unbuilt
<1> QED BY <1>5, <1>6, <1>7 DEF TerminalInv

LEMMA SwitchFailsSteps == ASSUME TerminalInv, NEW c \in switches, SwitchFails(c) PROVE TerminalInv'
<1> USE DEF promptVars
<1>1. /\ UNCHANGED <<switched, activated, loading, session, stored, run, inTask, wire, shown, paging, pages, promptVars>>
      /\ switches' = switches \ {c} /\ ~c.built
  BY DEF SwitchFails
<1>2. RunShape' /\ SessionShape' /\ RowShape' /\ PageShape' /\ LoadingInv' /\ PromptKept' /\ SwitchShape'
  BY <1>1 DEF TerminalInv, RunShape, SessionShape, RowShape, PageShape, LoadingInv, PromptKept, SwitchShape
<1>3. Unbuilt' => Unbuilt
  BY <1>1 DEF Unbuilt
<1>4. OwnInv'
  BY <1>1, <1>3 DEF TerminalInv, OwnInv, RowsOf
<1> QED BY <1>2, <1>4 DEF TerminalInv

LEMMA SwitchArrivesSteps == ASSUME TerminalInv, NEW c \in switches, SwitchArrives(c) PROVE TerminalInv'
<1> DEFINE asked == PageRequest(paging.gen + 1, TRUE, 0)
<1>1. /\ UNCHANGED <<switched, activated, loading, stored, run, inTask, wire, stash, typed, entered, taken>>
      /\ switches' = switches \ {c} /\ session' = c.to /\ shown' = c.recent
      /\ paging' = NewPaging(paging.gen + 1) /\ pages' = pages \union {asked}
  BY DEF SwitchArrives
<1>2. /\ c.to \in Sessions /\ SessionShape /\ ~loading /\ switched # 0 /\ paging.gen \in Nat
      /\ c.recent \in Seq(Rows) /\ \A i \in DOMAIN c.recent : c.recent[i][1] = c.to
  BY DEF TerminalInv, SwitchShape, LoadingInv, PageShape, Pagings
<1>3. asked \in PageRequests /\ ~asked.read /\ asked.gen = paging.gen + 1
      /\ paging' \in Pagings /\ paging'.gen = paging.gen + 1
  BY <1>1, <1>2 DEF PageRequest, PageRequests, PageResults, Pagings, NewPaging
<1> HIDE DEF asked
<1>4. RunShape' /\ SessionShape' /\ RowShape' /\ LoadingInv' /\ PromptKept' /\ SwitchShape'
  BY <1>1, <1>2 DEF TerminalInv, RunShape, SessionShape, RowShape, LoadingInv, PromptKept, SwitchShape
<1>5. \A r \in pages : r \in PageRequests /\ r.gen \in Nat /\ r.gen <= paging.gen
  BY DEF TerminalInv, PageShape, PageRequests
<1>6. PageShape' /\ \A r \in pages' : r.read => r.gen # paging'.gen
  BY <1>1, <1>2, <1>3, <1>5 DEF PageShape
<1>7. RowsOf(shown', session')
  BY <1>1, <1>2 DEF RowsOf
<1>8. OwnInv'
  BY <1>6, <1>7 DEF OwnInv
<1> QED BY <1>4, <1>6, <1>8 DEF TerminalInv

\* A page on its way moves only the rows and the place in the transcript.
LEMMA PageOnly ==
    ASSUME TerminalInv, UNCHANGED <<loading, session, switchVars, stored, run, inTask, wire, promptVars>>,
           PageShape', shown' \in Seq(Rows), loading => pages' = {},
           Unbuilt /\ activated = session =>
               RowsOf(shown', session) /\ \A r \in pages' : r.read /\ r.gen = paging'.gen => RowsOf(r.page.rows, session)
    PROVE  TerminalInv'
<1> USE DEF switchVars, promptVars
<1>1. SessionShape' /\ RunShape' /\ RowShape' /\ SwitchShape' /\ LoadingInv' /\ PromptKept'
  BY DEF TerminalInv, SessionShape, RunShape, RowShape, SwitchShape, LoadingInv, PromptKept
<1>2. (Unbuilt' <=> Unbuilt) /\ activated' = activated /\ session' = session
  BY DEF Unbuilt
<1>3. OwnInv'
  BY <1>2 DEF OwnInv
<1> QED BY <1>1, <1>3 DEF TerminalInv

\* The place in the transcript keeps its generation.
LEMMA PagingFields ==
    ASSUME NEW g \in Pagings, NEW b \in BOOLEAN, NEW n \in Nat, NEW h \in BOOLEAN
    PROVE  /\ [g EXCEPT !.loading = b] \in Pagings /\ [g EXCEPT !.loading = b].gen = g.gen
           /\ [g EXCEPT !.initial = b, !.oldest = n, !.hasOlder = h] \in Pagings
           /\ [g EXCEPT !.initial = b, !.oldest = n, !.hasOlder = h].gen = g.gen
           /\ [g EXCEPT !.loading = b, !.hasOlder = h, !.oldest = n] \in Pagings
           /\ [g EXCEPT !.loading = b, !.hasOlder = h, !.oldest = n].gen = g.gen
<1>1. [g EXCEPT !.loading = b] \in Pagings /\ [g EXCEPT !.loading = b].gen = g.gen
  BY DEF Pagings
<1>2. [g EXCEPT !.initial = b, !.oldest = n, !.hasOlder = h] \in Pagings
      /\ [g EXCEPT !.initial = b, !.oldest = n, !.hasOlder = h].gen = g.gen
  BY DEF Pagings
<1>3. [g EXCEPT !.loading = b, !.hasOlder = h, !.oldest = n] \in Pagings
      /\ [g EXCEPT !.loading = b, !.hasOlder = h, !.oldest = n].gen = g.gen
  BY DEF Pagings
<1> QED BY <1>1, <1>2, <1>3

LEMMA ReadSteps == ASSUME TerminalInv, NEW q \in pages, ReadPage(q) PROVE TerminalInv'
<1> DEFINE got == TranscriptPage(activated, q.initial, q.cursor)
           answer == [q EXCEPT !.read = TRUE, !.page = got]
<1>1. /\ UNCHANGED <<loading, session, switchVars, stored, run, inTask, wire, shown, paging, promptVars>>
      /\ pages' = (pages \ {q}) \union {answer}
  BY DEF ReadPage
<1>2. SessionShape /\ activated \in Sessions /\ q \in PageRequests /\ q.initial \in BOOLEAN /\ q.cursor \in Nat
      /\ paging \in Pagings /\ q.gen <= paging.gen /\ shown \in Seq(Rows)
  BY DEF TerminalInv, SessionShape, PageShape, PageRequests, RowShape
<1>3. got \in PageResults /\ RowsOf(got.rows, activated)
  BY <1>2, PageRows
<1> HIDE DEF got
<1>4. answer \in PageRequests /\ answer.gen = q.gen /\ answer.page = got
  BY <1>2, <1>3 DEF PageRequests
<1> HIDE DEF answer
<1>5. PageShape'
  BY <1>1, <1>2, <1>4 DEF TerminalInv, PageShape
<1>6. loading => pages' = {}
  BY DEF TerminalInv, LoadingInv
<1>7. ASSUME Unbuilt, activated = session
      PROVE  RowsOf(shown', session) /\ \A r \in pages' : r.read /\ r.gen = paging'.gen => RowsOf(r.page.rows, session)
  <2>1. shown' = shown /\ paging' = paging
    BY <1>1
  <2> QED BY <1>1, <1>3, <1>4, <1>7, <2>1 DEF TerminalInv, OwnInv
<1>8. shown' \in Seq(Rows)
  BY <1>1, <1>2
<1> QED BY <1>1, <1>5, <1>6, <1>7, <1>8, PageOnly

LEMMA ScrollSteps == ASSUME TerminalInv, ScrollToTop PROVE TerminalInv'
<1> DEFINE asked == PageRequest(paging.gen, FALSE, paging.oldest)
<1>1. /\ UNCHANGED <<loading, session, switchVars, stored, run, inTask, wire, shown, promptVars>> /\ ~loading
      /\ paging' = [paging EXCEPT !.loading = TRUE] /\ pages' = pages \union {asked}
  BY DEF ScrollToTop
<1>2. paging \in Pagings /\ paging.gen \in Nat /\ paging.oldest \in Nat /\ shown' \in Seq(Rows)
  BY <1>1 DEF TerminalInv, PageShape, Pagings, RowShape
<1>3. asked \in PageRequests /\ ~asked.read /\ asked.gen = paging.gen
  BY <1>2 DEF PageRequest, PageRequests, PageResults
<1>4. paging' \in Pagings /\ paging'.gen = paging.gen
  BY <1>1, <1>2, PagingFields
<1> HIDE DEF asked
<1>5. PageShape'
  BY <1>1, <1>2, <1>3, <1>4 DEF TerminalInv, PageShape
<1>6. ASSUME Unbuilt, activated = session
      PROVE  RowsOf(shown', session) /\ \A r \in pages' : r.read /\ r.gen = paging'.gen => RowsOf(r.page.rows, session)
  <2>1. shown' = shown
    BY <1>1
  <2> QED BY <1>1, <1>3, <1>4, <1>6, <2>1 DEF TerminalInv, OwnInv
<1> QED BY <1>1, <1>2, <1>5, <1>6, PageOnly

LEMMA PageGoneSteps == ASSUME TerminalInv, NEW q \in pages, PageFails(q) \/ PageArrives(q) PROVE TerminalInv'
<1>1. UNCHANGED <<loading, session, switchVars, stored, run, inTask, wire, promptVars>> /\ pages' = pages \ {q}
  BY DEF PageFails, PageArrives
<1>2. /\ paging \in Pagings /\ shown \in Seq(Rows) /\ q.page \in PageResults /\ q.page.rows \in Seq(Rows)
      /\ q.page.oldest \in Nat /\ q.page.hasOlder \in BOOLEAN /\ paging.oldest \in Nat
  BY DEF TerminalInv, PageShape, PageRequests, PageResults, RowShape, Pagings
<1>3. /\ paging' \in Pagings /\ paging'.gen = paging.gen
      /\ \/ shown' = shown
         \/ q.read /\ q.gen = paging.gen /\ shown' \in {q.page.rows, q.page.rows \o shown}
  <2>1. CASE PageFails(q) \/ q.gen # paging.gen
    <3>1. paging' = [paging EXCEPT !.loading = FALSE] /\ shown' = shown
      BY <2>1 DEF PageFails, PageArrives, ApplyPage
    <3> QED BY <1>2, <3>1, PagingFields
  <2>2. CASE PageArrives(q) /\ q.gen = paging.gen /\ q.initial
    <3>1. /\ q.read /\ paging' = [paging EXCEPT !.initial = TRUE, !.oldest = q.page.oldest, !.hasOlder = q.page.hasOlder]
          /\ shown' \in {shown, q.page.rows}
      BY <2>2 DEF PageArrives, ApplyPage, ApplyInitialPage
    <3>2. paging' \in Pagings /\ paging'.gen = paging.gen
      BY <1>2, <3>1 DEF Pagings
    <3> QED BY <2>2, <3>1, <3>2
  <2>3. CASE PageArrives(q) /\ q.gen = paging.gen /\ ~q.initial
    <3>1. PICK n \in Nat : paging' = [paging EXCEPT !.loading = FALSE, !.hasOlder = q.page.hasOlder, !.oldest = n]
      BY <1>2, <2>3 DEF PageArrives, ApplyPage, ApplyOlderPage
    <3>2. q.read /\ shown' = q.page.rows \o shown
      BY <2>3 DEF PageArrives, ApplyPage, ApplyOlderPage
    <3>3. paging' \in Pagings /\ paging'.gen = paging.gen
      BY <1>2, <3>1 DEF Pagings
    <3> QED BY <2>3, <3>2, <3>3
  <2> QED BY <2>1, <2>2, <2>3
<1>4. shown' \in Seq(Rows)
  <2>1. q.page.rows \o shown \in Seq(Rows)
    BY <1>2
  <2> QED BY <1>2, <1>3, <2>1
<1>5. PageShape' /\ (loading => pages' = {})
  BY <1>1, <1>3 DEF TerminalInv, PageShape, LoadingInv
<1>6. ASSUME Unbuilt, activated = session
      PROVE  RowsOf(shown', session) /\ \A r \in pages' : r.read /\ r.gen = paging'.gen => RowsOf(r.page.rows, session)
  <2>1. RowsOf(shown, session) /\ (q.read /\ q.gen = paging.gen => RowsOf(q.page.rows, session))
    BY <1>6 DEF TerminalInv, OwnInv
  <2>2. RowsOf(shown', session)
    BY <1>2, <1>3, <2>1, RowsJoined
  <2>3. \A r \in pages' : r.read /\ r.gen = paging'.gen => RowsOf(r.page.rows, session)
    BY <1>1, <1>3, <1>6 DEF TerminalInv, OwnInv
  <2> QED BY <2>2, <2>3
<1> QED BY <1>1, <1>4, <1>5, <1>6, PageOnly

LEMMA TerminalSteps == ASSUME TerminalInv, [TerminalNext]_terminalVars PROVE TerminalInv'
<1>1. CASE UNCHANGED terminalVars
  BY <1>1 DEF terminalVars, TerminalInv, SessionShape, RunShape, PageShape, RowShape, SwitchShape, LoadingInv,
              OwnInv, Unbuilt, RowsOf, PromptKept
<1>2. CASE TerminalNext
  BY <1>2, KeySteps, EnterSteps, HydratedSteps, RunSteps, ShowSteps, SwitchStarts, ActivateSteps,
     SwitchFailsSteps, SwitchArrivesSteps, ReadSteps, ScrollSteps, PageGoneSteps DEF TerminalNext
<1> QED BY <1>1, <1>2

\* However tasks, pages and switches of session overlap, the screen shows its own session.
THEOREM ScreenAlwaysOwn == TerminalSpec => []ScreenIsOwn
<1>1. TerminalInit => TerminalInv
  BY TerminalStarts
<1>2. TerminalInv /\ [TerminalNext]_terminalVars => TerminalInv'
  BY TerminalSteps
<1>3. TerminalInv => ScreenIsOwn
  <2> SUFFICES ASSUME TerminalInv PROVE PagesBelong
    BY DEF TerminalInv, ScreenIsOwn
  <2>1. switches = {} => Unbuilt
    BY DEF Unbuilt
  <2> QED BY <2>1 DEF TerminalInv, OwnInv, RowsOf, PagesBelong
<1> QED BY <1>1, <1>2, <1>3, PTL DEF TerminalSpec

-----------------------------------------------------------------------------
(* The prompt being composed. *)

Texts == Blocks \union {Typed, Cut, Label}
Parts == [id : Nat, text : Texts, meant : Texts]
Prompts == Seq(Parts)

\* A label has its stash; a text is what was meant; a part that was sent has no label.
LabelStands(p) == p.id # 0 => p.id \in DOMAIN pastes /\ pastes[p.id] = p.meant
TextStands(p) == p.id = 0 => p.text = p.meant

PastesShape ==
    /\ draft \in Prompts /\ pendingSubmit \in Prompts /\ delivered \in Prompts
    /\ pasteSeq \in Nat /\ pastes \in [DOMAIN pastes -> Blocks] /\ DOMAIN pastes \subseteq 1 .. pasteSeq
    /\ recall \in [prompts : Seq(Prompts), at : Nat]
    /\ torn \in BOOLEAN /\ shortened \in BOOLEAN /\ starting \in BOOLEAN
    /\ ~starting => pendingSubmit = <<>>

\* Every label in the composer, and in the prompt that waits, has its stash.
LabelsStand == ~torn => \A p \in ToSet(draft) \union ToSet(pendingSubmit) : LabelStands(p)

\* What was sent, and can be recalled, has no label.
RecallBare == ~torn => \A i \in DOMAIN recall.prompts : \A p \in ToSet(recall.prompts[i]) : p.id = 0

\* Text is what was meant, and what was sent too.
TextsStand ==
    ~torn /\ ~shortened =>
        /\ \A p \in ToSet(draft) \union ToSet(pendingSubmit) : TextStands(p)
        /\ \A p \in ToSet(delivered) : p.text = p.meant
        /\ \A i \in DOMAIN recall.prompts : \A p \in ToSet(recall.prompts[i]) : p.text = p.meant

PastesInv == PastesShape /\ LabelsStand /\ RecallBare /\ TextsStand

-----------------------------------------------------------------------------
(* Prompts and their parts. *)

LEMMA NoParts == <<>> \in Prompts /\ ToSet(<<>>) = {}
BY DEF Prompts, ToSet

LEMMA PartsOf == ASSUME NEW s \in Prompts PROVE ToSet(s) \subseteq Parts
BY DEF Prompts, ToSet

LEMMA PartInserted ==
    ASSUME NEW s \in Prompts, NEW i \in 1 .. Len(s) + 1, NEW p \in Parts
    PROVE  InsertAt(s, i, p) \in Prompts /\ ToSet(InsertAt(s, i, p)) \subseteq ToSet(s) \union {p}
<1> DEFINE a == SubSeq(s, 1, i - 1)
           b == SubSeq(s, i, Len(s))
<1>1. s \in Seq(Parts) /\ Len(s) \in Nat /\ i \in Nat
  BY DEF Prompts
<1>2. a \in Seq(Parts) /\ b \in Seq(Parts) /\ ToSet(a) \subseteq ToSet(s) /\ ToSet(b) \subseteq ToSet(s)
  <2>1. a \in Seq(Parts) /\ Len(a) = i - 1 /\ \A k \in 1 .. Len(a) : a[k] = s[k]
    BY <1>1
  <2>2. b \in Seq(Parts) /\ Len(b) = Len(s) - i + 1 /\ \A k \in 1 .. Len(b) : b[k] = s[i + k - 1]
    BY <1>1
  <2> HIDE DEF a, b
  <2>3. DOMAIN a = 1 .. Len(a) /\ DOMAIN b = 1 .. Len(b) /\ DOMAIN s = 1 .. Len(s)
    BY <1>1, <2>1, <2>2
  <2>4. \A k \in 1 .. Len(a) : k \in 1 .. Len(s)
    BY <1>1, <2>1
  <2>5. \A k \in 1 .. Len(b) : i + k - 1 \in 1 .. Len(s)
    BY <1>1, <2>2
  <2>6. ToSet(a) \subseteq ToSet(s)
    BY <2>1, <2>3, <2>4 DEF ToSet
  <2>7. ToSet(b) \subseteq ToSet(s)
    BY <2>2, <2>3, <2>5 DEF ToSet
  <2> QED BY <2>1, <2>2, <2>6, <2>7
<1>3. InsertAt(s, i, p) = a \o <<p>> \o b
  BY DEF InsertAt
<1> HIDE DEF a, b
<1> DEFINE c == a \o <<p>>
           d == c \o b
<1>4. c \in Seq(Parts) /\ Len(c) = Len(a) + 1 /\ \A k \in 1 .. Len(c) : c[k] = IF k <= Len(a) THEN a[k] ELSE p
  BY <1>2
<1> HIDE DEF c
<1>5. d \in Seq(Parts) /\ Len(d) = Len(c) + Len(b) /\ \A k \in 1 .. Len(d) : d[k] = IF k <= Len(c) THEN c[k] ELSE b[k - Len(c)]
  BY <1>2, <1>4
<1> HIDE DEF d
<1>6. ASSUME NEW k \in 1 .. Len(d) PROVE d[k] \in ToSet(s) \union {p}
  <2>0. Len(a) \in Nat /\ Len(b) \in Nat /\ Len(c) \in Nat /\ k \in Nat
    BY <1>2, <1>4
  <2>1. CASE k <= Len(c)
    <3>1. k \in 1 .. Len(c) /\ d[k] = c[k]
      BY <1>5, <2>0, <2>1
    <3>2. CASE k <= Len(a)
      <4>1. k \in DOMAIN a /\ d[k] = a[k]
        BY <1>2, <1>4, <2>0, <3>1, <3>2
      <4> QED BY <1>2, <4>1 DEF ToSet
    <3>3. CASE ~(k <= Len(a))
      BY <1>4, <3>1, <3>3
    <3> QED BY <3>2, <3>3
  <2>2. CASE ~(k <= Len(c))
    <3>1. k - Len(c) \in DOMAIN b /\ d[k] = b[k - Len(c)]
      BY <1>2, <1>5, <2>0, <2>2
    <3> QED BY <1>2, <3>1 DEF ToSet
  <2> QED BY <2>1, <2>2
<1>7. InsertAt(s, i, p) = d /\ DOMAIN d = 1 .. Len(d)
  BY <1>3, <1>5 DEF c, d
<1> QED BY <1>5, <1>6, <1>7 DEF ToSet, Prompts

LEMMA PartRemoved ==
    ASSUME NEW s \in Prompts, NEW i \in DOMAIN s
    PROVE  RemoveAt(s, i) \in Prompts /\ ToSet(RemoveAt(s, i)) \subseteq ToSet(s)
<1> DEFINE a == SubSeq(s, 1, i - 1)
           b == SubSeq(s, i + 1, Len(s))
           d == a \o b
<1>1. s \in Seq(Parts) /\ Len(s) \in Nat /\ i \in 1 .. Len(s)
  BY DEF Prompts
<1>2. a \in Seq(Parts) /\ Len(a) = i - 1 /\ \A k \in 1 .. Len(a) : a[k] = s[k]
  BY <1>1
<1>3. b \in Seq(Parts) /\ Len(b) = Len(s) - i /\ \A k \in 1 .. Len(b) : b[k] = s[i + k]
  BY <1>1
<1>4. RemoveAt(s, i) = d
  BY DEF RemoveAt
<1> HIDE DEF a, b
<1>5. d \in Seq(Parts) /\ Len(d) = Len(a) + Len(b) /\ \A k \in 1 .. Len(d) : d[k] = IF k <= Len(a) THEN a[k] ELSE b[k - Len(a)]
  <2>1. a \in Seq(Parts) /\ b \in Seq(Parts)
    BY <1>2, <1>3
  <2> QED BY <2>1
<1> HIDE DEF d
<1>6. ASSUME NEW k \in 1 .. Len(d) PROVE \E j \in 1 .. Len(s) : d[k] = s[j]
  <2>1. CASE k <= Len(a)
    <3>1. k \in 1 .. Len(a) /\ d[k] = a[k]
      BY <1>1, <1>2, <1>5, <2>1
    <3>2. k \in 1 .. Len(s) /\ a[k] = s[k]
      BY <1>1, <1>2, <3>1
    <3> QED BY <3>1, <3>2
  <2>2. CASE ~(k <= Len(a))
    <3>1. k - Len(a) \in 1 .. Len(b) /\ d[k] = b[k - Len(a)]
      BY <1>2, <1>3, <1>5, <2>2
    <3> DEFINE m == k - Len(a)
    <3>2. m \in 1 .. Len(b) /\ d[k] = b[m]
      BY <3>1
    <3> HIDE DEF m
    <3>3. d[k] = s[i + m]
      BY <1>3, <3>2
    <3>4. i + m \in 1 .. Len(s)
      BY <1>1, <1>3, <3>2
    <3> QED BY <3>3, <3>4
  <2> QED BY <2>1, <2>2
<1>7. DOMAIN d = 1 .. Len(d) /\ DOMAIN s = 1 .. Len(s)
  BY <1>1, <1>5
<1> QED BY <1>4, <1>5, <1>6, <1>7 DEF ToSet, Prompts

\* The parts left by a filter, written as a concatenation.
LEMMA PartsLeft ==
    ASSUME NEW s \in Prompts, NEW id
    PROVE  LET left == FlattenSeq([i \in DOMAIN s |-> IF s[i].id = id THEN <<>> ELSE <<s[i]>>])
           IN  left \in Prompts /\ \A p \in ToSet(left) : p \in ToSet(s) /\ p.id # id
<1> DEFINE W == {p \in ToSet(s) : p.id # id}
           seqs == [i \in DOMAIN s |-> IF s[i].id = id THEN <<>> ELSE <<s[i]>>]
<1>1. s \in Seq(Parts) /\ DOMAIN s = 1 .. Len(s) /\ Len(s) \in Nat
  BY DEF Prompts
<1>2. \A i \in DOMAIN s : s[i] \in ToSet(s)
  BY DEF ToSet
<1>3. \A i \in DOMAIN s : (IF s[i].id = id THEN <<>> ELSE <<s[i]>>) \in Seq(W)
  <2> TAKE i \in DOMAIN s
  <2>1. CASE s[i].id = id
    BY <2>1
  <2>2. CASE s[i].id # id
    <3>1. s[i] \in W
      BY <1>2, <2>2
    <3> HIDE DEF W
    <3> QED BY <2>2, <3>1
  <2> QED BY <2>1, <2>2
<1>4. W \subseteq Parts /\ W \subseteq ToSet(s) /\ \A p \in W : p.id # id
  BY PartsOf
<1> HIDE DEF W
<1> DEFINE X == Seq(W)
<1>5. \A i \in DOMAIN s : (IF s[i].id = id THEN <<>> ELSE <<s[i]>>) \in X
  BY <1>3
<1> HIDE DEF X
<1>6. seqs \in [1 .. Len(s) -> X]
  BY <1>1, <1>5
<1> HIDE DEF seqs
<1>7. seqs \in Seq(X)
  BY <1>1, <1>6
<1>8. FlattenSeq(seqs) \in Seq(W)
  <2>1. seqs \in Seq(Seq(W))
    BY <1>7 DEF X
  <2> QED BY <2>1, FlattenRun
<1>9. FlattenSeq(seqs) \in Seq(W) /\ ToSet(FlattenSeq(seqs)) \subseteq W
  BY <1>8 DEF ToSet
<1> QED BY <1>4, <1>9 DEF seqs, Prompts

-----------------------------------------------------------------------------
(* Composing. *)

LEMMA PastesStart == ASSUME PastesInit PROVE PastesInv
<1> USE NoParts DEF PastesInit
<1>1. <<>> \in Seq(Prompts) /\ DOMAIN <<>> = {}
  OBVIOUS
<1>2. NoPastes \in [DOMAIN NoPastes -> Blocks] /\ DOMAIN NoPastes = {}
  BY DEF NoPastes
<1>3. recall \in [prompts : Seq(Prompts), at : Nat] /\ DOMAIN recall.prompts = {}
  BY <1>1
<1>4. PastesShape
  BY <1>2, <1>3 DEF PastesShape
<1>5. LabelsStand /\ RecallBare /\ TextsStand
  BY <1>3 DEF LabelsStand, RecallBare, TextsStand
<1> QED BY <1>4, <1>5 DEF PastesInv

\* The draft loses parts, or has more text.
LEMMA DraftOnly ==
    ASSUME PastesInv, UNCHANGED <<pendingSubmit, starting, pastes, pasteSeq, torn, recall, delivered, shortened>>,
           draft' \in Prompts, \A p \in ToSet(draft') : p \in ToSet(draft) \/ (p.id = 0 /\ p.text = p.meant)
    PROVE  PastesInv'
<1>1. PastesShape'
  BY DEF PastesInv, PastesShape
<1>2. LabelsStand' /\ RecallBare'
  BY DEF PastesInv, LabelsStand, LabelStands, RecallBare
<1>3. TextsStand'
  BY DEF PastesInv, TextsStand, TextStands
<1> QED BY <1>1, <1>2, <1>3 DEF PastesInv

LEMMA EditSteps ==
    ASSUME PastesInv, ClearDraft \/ (\E i \in DOMAIN draft : Erase(i)) \/ (\E i \in 1 .. Len(draft) + 1 : TypeText(i))
    PROVE  PastesInv'
<1> USE DEF stashVars, sentVars
<1>1. draft \in Prompts
  BY DEF PastesInv, PastesShape
<1>2. CASE ClearDraft
  <2>1. UNCHANGED <<pendingSubmit, starting, pastes, pasteSeq, torn, recall, delivered, shortened>> /\ draft' = <<>>
    BY <1>2 DEF ClearDraft
  <2> QED BY <2>1, NoParts, DraftOnly
<1>3. CASE \E i \in DOMAIN draft : Erase(i)
  <2>1. PICK i \in DOMAIN draft : Erase(i)
    BY <1>3
  <2>2. UNCHANGED <<pendingSubmit, starting, pastes, pasteSeq, torn, recall, delivered, shortened>>
        /\ draft' = RemoveAt(draft, i)
    BY <2>1 DEF Erase
  <2>3. draft' \in Prompts /\ ToSet(draft') \subseteq ToSet(draft)
    BY <1>1, <2>2, PartRemoved
  <2> QED BY <2>2, <2>3, DraftOnly
<1>4. CASE \E i \in 1 .. Len(draft) + 1 : TypeText(i)
  <2>1. PICK i \in 1 .. Len(draft) + 1 : TypeText(i)
    BY <1>4
  <2>2. UNCHANGED <<pendingSubmit, starting, pastes, pasteSeq, torn, recall, delivered, shortened>>
        /\ draft' = InsertAt(draft, i, Text(Typed))
    BY <2>1 DEF TypeText, PutIn
  <2>3. Text(Typed) \in Parts /\ Text(Typed).id = 0 /\ Text(Typed).text = Text(Typed).meant
    BY DEF Text, Parts, Texts
  <2>4. draft' \in Prompts /\ ToSet(draft') \subseteq ToSet(draft) \union {Text(Typed)}
    BY <1>1, <2>2, <2>3, PartInserted
  <2> QED BY <2>2, <2>3, <2>4, DraftOnly
<1> QED BY <1>2, <1>3, <1>4

\* The label of a large paste has its stash, and the others keep theirs.
LEMMA PasteSteps ==
    ASSUME PastesInv, NEW block \in Blocks, NEW i \in 1 .. Len(draft) + 1, PasteBlock(block, i)
    PROVE  PastesInv'
<1> DEFINE id == pasteSeq + 1
           part == [id |-> id, text |-> Label, meant |-> block]
<1>1. /\ UNCHANGED <<pendingSubmit, starting, recall, delivered, torn, shortened>>
      /\ pasteSeq' = id /\ draft' = InsertAt(draft, i, part)
      /\ pastes' = [n \in DOMAIN pastes \union {id} |-> IF n = id THEN block ELSE pastes[n]]
  BY DEF PasteBlock, PutIn
<1>2. /\ draft \in Prompts /\ pasteSeq \in Nat /\ pastes \in [DOMAIN pastes -> Blocks] /\ DOMAIN pastes \subseteq 1 .. pasteSeq
  BY DEF PastesInv, PastesShape
<1>3. id \in Nat /\ id # 0 /\ id \notin DOMAIN pastes /\ DOMAIN pastes \union {id} \subseteq 1 .. id
  BY <1>2
<1>4. part \in Parts /\ part.id = id /\ part.meant = block
  BY <1>3 DEF Parts, Texts
<1>5. /\ pastes' \in [DOMAIN pastes' -> Blocks] /\ DOMAIN pastes' = DOMAIN pastes \union {id} /\ pastes'[id] = block
      /\ \A n \in DOMAIN pastes : pastes'[n] = pastes[n]
  BY <1>1, <1>2, <1>3
<1> HIDE DEF id, part
<1>6. draft' \in Prompts /\ ToSet(draft') \subseteq ToSet(draft) \union {part}
  BY <1>1, <1>2, <1>4, PartInserted
<1>7. PastesShape'
  BY <1>1, <1>3, <1>5, <1>6 DEF PastesInv, PastesShape
<1>8. \A p : LabelStands(p) => LabelStands(p)'
  BY <1>5 DEF LabelStands
<1>9. \A p : p = part => LabelStands(p)'
  BY <1>4, <1>5 DEF LabelStands
<1>10. LabelsStand' /\ RecallBare'
  BY <1>1, <1>6, <1>8, <1>9 DEF PastesInv, LabelsStand, RecallBare
<1>11. TextsStand'
  BY <1>1, <1>3, <1>4, <1>6 DEF PastesInv, TextsStand, TextStands
<1> QED BY <1>7, <1>10, <1>11 DEF PastesInv

\* A block that is taken out goes with its labels.
LEMMA RemoveSteps == ASSUME PastesInv, NEW id, RemovePaste(id) PROVE PastesInv'
<1> DEFINE left == DOMAIN pastes \ {id}
<1>1. /\ UNCHANGED <<pendingSubmit, starting, recall, delivered, shortened>>
      /\ draft' = FlattenSeq([i \in DOMAIN draft |-> IF draft[i].id = id THEN <<>> ELSE <<draft[i]>>])
      /\ pastes' = [n \in left |-> pastes[n]] /\ pasteSeq' = NextNumber(left)
      /\ torn' = (torn \/ id \in Labelled(pendingSubmit)) /\ id # 0
  BY DEF RemovePaste, Labelled
<1>2. /\ draft \in Prompts /\ pendingSubmit \in Prompts /\ pasteSeq \in Nat /\ torn \in BOOLEAN
      /\ pastes \in [DOMAIN pastes -> Blocks] /\ DOMAIN pastes \subseteq 1 .. pasteSeq
  BY DEF PastesInv, PastesShape
<1>3. draft' \in Prompts /\ \A p \in ToSet(draft') : p \in ToSet(draft) /\ p.id # id
  BY <1>1, <1>2, PartsLeft
<1>4. pasteSeq' \in Nat /\ left \subseteq 1 .. pasteSeq'
  BY <1>1, <1>2 DEF NextNumber
<1>5. DOMAIN pastes' = left /\ pastes' \in [DOMAIN pastes' -> Blocks] /\ \A n \in left : pastes'[n] = pastes[n]
  BY <1>1, <1>2
<1>6. \A p : LabelStands(p) /\ p.id # id => LabelStands(p)'
  BY <1>5 DEF LabelStands
<1>7. ASSUME ~torn', NEW p \in ToSet(pendingSubmit) PROVE p.id # id
  BY <1>1, <1>7 DEF Labelled, ToSet
<1> HIDE DEF left
<1>8. PastesShape'
  BY <1>1, <1>2, <1>3, <1>4, <1>5 DEF PastesInv, PastesShape
<1>9. LabelsStand' /\ RecallBare' /\ TextsStand'
  <2>1. ~torn' => ~torn
    BY <1>1
  <2>2. LabelsStand'
    BY <1>1, <1>3, <1>6, <1>7, <2>1 DEF PastesInv, LabelsStand
  <2>3. RecallBare' /\ TextsStand'
    BY <1>1, <1>3, <2>1 DEF PastesInv, RecallBare, TextsStand, TextStands
  <2> QED BY <2>2, <2>3
<1> QED BY <1>8, <1>9 DEF PastesInv

-----------------------------------------------------------------------------
(* Sending. *)

\* What comes back has the same parts, of which some are cut.
LEMMA RecalledIs ==
    ASSUME NEW s \in Prompts
    PROVE  Recalled(s) \in Prompts /\ \A i \in DOMAIN Recalled(s) : i \in DOMAIN s /\ Recalled(s)[i].id = s[i].id
<1> DEFINE R(p) == IF p.text \in Oversized THEN [p EXCEPT !.text = Cut] ELSE p
<1>1. \A p \in Parts : R(p) \in Parts /\ R(p).id = p.id
  BY DEF Parts, Texts
<1>2. Recalled(s) = [i \in DOMAIN s |-> R(s[i])]
  BY DEF Recalled
<1>3. s \in Seq(Parts) /\ DOMAIN s = 1 .. Len(s) /\ Len(s) \in Nat /\ \A i \in DOMAIN s : s[i] \in Parts
  BY DEF Prompts
<1> HIDE DEF R
<1>4. Recalled(s) \in [1 .. Len(s) -> Parts] /\ \A i \in DOMAIN s : Recalled(s)[i] = R(s[i])
  BY <1>1, <1>2, <1>3
<1>5. Recalled(s) \in Seq(Parts) /\ DOMAIN Recalled(s) = DOMAIN s
  BY <1>3, <1>4
<1> QED BY <1>1, <1>3, <1>4, <1>5 DEF Prompts

\* The labels of a prompt are replaced by what they stand for.
LEMMA ExpandedIs ==
    ASSUME PastesShape, NEW s \in Prompts
    PROVE  /\ ExpandPastes(s) \in Prompts
           /\ (\A p \in ToSet(s) : LabelStands(p)) => \A p \in ToSet(ExpandPastes(s)) : p.id = 0
           /\ (\A p \in ToSet(s) : LabelStands(p) /\ TextStands(p)) => \A p \in ToSet(ExpandPastes(s)) : p.text = p.meant
<1> DEFINE E(p) == IF p.id \in DOMAIN pastes THEN [p EXCEPT !.id = 0, !.text = pastes[p.id]] ELSE p
<1>1. pastes \in [DOMAIN pastes -> Blocks] /\ DOMAIN pastes \subseteq 1 .. pasteSeq /\ pasteSeq \in Nat
  BY DEF PastesShape
<1>2. ASSUME NEW p \in Parts
      PROVE  /\ E(p) \in Parts /\ E(p).meant = p.meant
             /\ LabelStands(p) => E(p).id = 0
             /\ LabelStands(p) /\ TextStands(p) => E(p).text = p.meant
  <2>1. CASE p.id \in DOMAIN pastes
    <3>1. pastes[p.id] \in Texts /\ p.id # 0
      BY <1>1, <2>1 DEF Texts
    <3>2. E(p) = [p EXCEPT !.id = 0, !.text = pastes[p.id]]
      BY <2>1
    <3>3. E(p) \in Parts /\ E(p).meant = p.meant /\ E(p).id = 0 /\ E(p).text = pastes[p.id]
      BY <3>1, <3>2 DEF Parts
    <3> HIDE DEF E
    <3> QED BY <3>1, <3>3 DEF LabelStands
  <2>2. CASE p.id \notin DOMAIN pastes
    <3>1. E(p) = p
      BY <2>2
    <3> HIDE DEF E
    <3> QED BY <2>2, <3>1 DEF LabelStands, TextStands
  <2> QED BY <2>1, <2>2
<1>3. ExpandPastes(s) = [i \in DOMAIN s |-> E(s[i])]
  BY DEF ExpandPastes
<1>4. s \in Seq(Parts) /\ DOMAIN s = 1 .. Len(s) /\ Len(s) \in Nat /\ \A i \in DOMAIN s : s[i] \in Parts /\ s[i] \in ToSet(s)
  BY DEF Prompts, ToSet
<1> HIDE DEF E
<1>5. ExpandPastes(s) \in [1 .. Len(s) -> Parts] /\ \A i \in DOMAIN s : ExpandPastes(s)[i] = E(s[i])
  BY <1>2, <1>3, <1>4
<1>6. ExpandPastes(s) \in Seq(Parts) /\ DOMAIN ExpandPastes(s) = DOMAIN s
  BY <1>4, <1>5
<1>7. \A p \in ToSet(ExpandPastes(s)) : \E q \in ToSet(s) : q \in Parts /\ p = E(q)
  BY <1>4, <1>5, <1>6 DEF ToSet
<1>8. (\A p \in ToSet(s) : LabelStands(p)) => \A p \in ToSet(ExpandPastes(s)) : p.id = 0
  BY <1>2, <1>7
<1>9. (\A p \in ToSet(s) : LabelStands(p) /\ TextStands(p)) => \A p \in ToSet(ExpandPastes(s)) : p.text = p.meant
  BY <1>2, <1>7
<1> QED BY <1>6, <1>8, <1>9 DEF Prompts

\* A prompt sent before comes back without labels, as it was unless it did not fit.
LEMMA RecallSteps == ASSUME PastesInv, NEW at \in 1 .. Len(recall.prompts) + 1, RecallPrompt(at) PROVE PastesInv'
<1>1. UNCHANGED <<pendingSubmit, pastes, pasteSeq, starting, delivered, torn>>
  BY DEF RecallPrompt
<1>2. /\ recall \in [prompts : Seq(Prompts), at : Nat] /\ recall.prompts \in Seq(Prompts) /\ shortened \in BOOLEAN
      /\ at \in Nat
  BY DEF PastesInv, PastesShape
<1>3. recall' \in [prompts : Seq(Prompts), at : Nat] /\ recall'.prompts = recall.prompts
  <2>1. recall' = [recall EXCEPT !.at = 0] \/ recall' = [recall EXCEPT !.at = at]
    BY DEF RecallPrompt
  <2> QED BY <1>2, <2>1
<1>4. /\ draft' \in Prompts /\ shortened' \in BOOLEAN /\ (shortened => shortened')
      /\ ~torn => \A p \in ToSet(draft') : p.id = 0
      /\ ~torn /\ ~shortened' => \A p \in ToSet(draft') : p.text = p.meant
  <2>1. CASE at > Len(recall.prompts)
    BY <1>2, <2>1, NoParts DEF RecallPrompt
  <2>2. CASE ~(at > Len(recall.prompts))
    <3> DEFINE sent == recall.prompts[at]
    <3>1. at \in DOMAIN recall.prompts /\ sent \in Prompts
      BY <1>2, <2>2
    <3>2. draft' = Recalled(sent) /\ shortened' = (shortened \/ draft' # sent)
      BY <2>2 DEF RecallPrompt
    <3>3. ~torn => \A p \in ToSet(sent) : p.id = 0
      BY <3>1 DEF PastesInv, RecallBare
    <3>4. ~torn /\ ~shortened => \A p \in ToSet(sent) : p.text = p.meant
      BY <3>1 DEF PastesInv, TextsStand
    <3> HIDE DEF sent
    <3>5. Recalled(sent) \in Prompts /\ \A i \in DOMAIN Recalled(sent) : i \in DOMAIN sent /\ Recalled(sent)[i].id = sent[i].id
      BY <3>1, RecalledIs
    <3>6. ~torn => \A p \in ToSet(draft') : p.id = 0
      BY <3>2, <3>3, <3>5 DEF ToSet
    <3>7. ~torn /\ ~shortened' => \A p \in ToSet(draft') : p.text = p.meant
      BY <1>2, <3>2, <3>4
    <3> QED BY <1>2, <3>2, <3>5, <3>6, <3>7
  <2> QED BY <2>1, <2>2
<1>5. PastesShape'
  BY <1>1, <1>3, <1>4 DEF PastesInv, PastesShape
<1>6. LabelsStand' /\ RecallBare'
  BY <1>1, <1>3, <1>4 DEF PastesInv, LabelsStand, LabelStands, RecallBare
<1>7. TextsStand'
  BY <1>1, <1>3, <1>4 DEF PastesInv, TextsStand, TextStands
<1> QED BY <1>5, <1>6, <1>7 DEF PastesInv

\* What is taken for the engine has no label, and is what was meant.
LEMMA Taken ==
    ASSUME PastesInv, NEW s \in {draft, pendingSubmit}, Deliver(s)
    PROVE  /\ delivered' \in Prompts
           /\ ~torn => \A p \in ToSet(delivered') : p.id = 0
           /\ ~torn /\ ~shortened => \A p \in ToSet(delivered') : p.text = p.meant
<1>1. delivered' = ExpandPastes(s) /\ PastesShape /\ s \in Prompts
  BY DEF Deliver, PastesInv, PastesShape
<1>2. ~torn => \A p \in ToSet(s) : LabelStands(p)
  BY DEF PastesInv, LabelsStand
<1>3. ~torn /\ ~shortened => \A p \in ToSet(s) : LabelStands(p) /\ TextStands(p)
  BY <1>2 DEF PastesInv, TextsStand
<1> QED BY <1>1, <1>2, <1>3, ExpandedIs

\* The prompt that starts a task can be recalled.
LEMMA Started ==
    ASSUME PastesInv, NEW s \in {draft, pendingSubmit}, StartWith(s), torn => torn', shortened' = shortened
    PROVE  /\ delivered' \in Prompts /\ recall' \in [prompts : Seq(Prompts), at : Nat] /\ RecallBare'
           /\ ~torn' /\ ~shortened' => /\ \A p \in ToSet(delivered') : p.text = p.meant
                                       /\ \A i \in DOMAIN recall'.prompts : \A p \in ToSet(recall'.prompts[i]) : p.text = p.meant
<1>1. /\ delivered' \in Prompts
      /\ ~torn => \A p \in ToSet(delivered') : p.id = 0
      /\ ~torn /\ ~shortened => \A p \in ToSet(delivered') : p.text = p.meant
  BY Taken DEF StartWith
<1> DEFINE past == recall.prompts
           now == recall'.prompts
           new == delivered'
           X == Prompts
<1>2. past \in Seq(X) /\ new \in X /\ now = Append(past, new)
  BY <1>1 DEF PastesInv, PastesShape, StartWith
<1>3. recall' = [prompts |-> now, at |-> 0]
  BY DEF StartWith
<1> HIDE DEF X, past, now, new
<1>4. now \in Seq(X) /\ \A i \in DOMAIN now : now[i] = new \/ (i \in DOMAIN past /\ now[i] = past[i])
  BY <1>2
<1>5. ~torn' => \A i \in DOMAIN now : \A p \in ToSet(now[i]) : p.id = 0
  BY <1>1, <1>4 DEF PastesInv, RecallBare, past, new
<1>6. ~torn' /\ ~shortened' => \A i \in DOMAIN now : \A p \in ToSet(now[i]) : p.text = p.meant
  BY <1>1, <1>4 DEF PastesInv, TextsStand, past, new
<1>7. recall' \in [prompts : Seq(Prompts), at : Nat]
  BY <1>3, <1>4 DEF X
<1>8. RecallBare'
  BY <1>5 DEF RecallBare, now
<1> QED BY <1>1, <1>6, <1>7, <1>8 DEF now, new

\* A prompt whose stash is released had no label, unless it is torn.
LEMMA Released ==
    ASSUME PastesInv, NEW s \in {draft, pendingSubmit, <<>>}, ReleasePastes(s)
    PROVE  /\ pasteSeq' = 0 /\ DOMAIN pastes' = {} /\ pastes' \in [DOMAIN pastes' -> Blocks] /\ torn' \in BOOLEAN
           /\ torn => torn'
           /\ ~torn' => \A p \in ToSet(s) : p.id = 0
<1>1. pasteSeq' = 0 /\ pastes' = NoPastes /\ torn' = (torn \/ Labelled(s) \cap DOMAIN pastes # {})
  BY DEF ReleasePastes
<1>2. torn \in BOOLEAN
  BY DEF PastesInv, PastesShape
<1>3. NoPastes \in [DOMAIN NoPastes -> Blocks] /\ DOMAIN NoPastes = {}
  BY DEF NoPastes
<1>4. ASSUME ~torn', NEW p \in ToSet(s), p.id # 0 PROVE FALSE
  <2>1. p \in ToSet(draft) \union ToSet(pendingSubmit)
    BY <1>4, NoParts
  <2>2. p.id \in DOMAIN pastes
    BY <1>1, <1>4, <2>1 DEF PastesInv, LabelsStand, LabelStands
  <2>3. p.id \in Labelled(s)
    BY <1>4 DEF Labelled, ToSet
  <2> QED BY <1>1, <1>4, <2>2, <2>3
<1> QED BY <1>1, <1>2, <1>3, <1>4

\* A step that releases the stash, and sends a prompt or gives it back.
LEMMA ReleaseSteps ==
    ASSUME PastesInv, draft' \in {draft, <<>>}, ReleasePastes(draft'), pendingSubmit' = <<>>, starting' = FALSE,
           shortened' = shortened,
           \/ UNCHANGED <<recall, delivered>>
           \/ StartWith(draft)
           \/ StartWith(pendingSubmit)
           \/ Deliver(draft) /\ UNCHANGED recall
    PROVE  PastesInv'
<1>1. /\ pasteSeq' = 0 /\ DOMAIN pastes' = {} /\ pastes' \in [DOMAIN pastes' -> Blocks] /\ torn' \in BOOLEAN
      /\ torn => torn'
      /\ ~torn' => \A p \in ToSet(draft') : p.id = 0
  BY Released
<1>2. draft' \in Prompts /\ \A p \in ToSet(draft') : p \in ToSet(draft)
  BY NoParts DEF PastesInv, PastesShape
<1>3. /\ delivered' \in Prompts /\ recall' \in [prompts : Seq(Prompts), at : Nat] /\ RecallBare'
      /\ ~torn' /\ ~shortened' => /\ \A p \in ToSet(delivered') : p.text = p.meant
                                  /\ \A i \in DOMAIN recall'.prompts : \A p \in ToSet(recall'.prompts[i]) : p.text = p.meant
  <2>1. CASE UNCHANGED <<recall, delivered>>
    BY <1>1, <2>1 DEF PastesInv, PastesShape, RecallBare, TextsStand
  <2>2. CASE StartWith(draft) \/ StartWith(pendingSubmit)
    BY <1>1, <2>2, Started
  <2>3. CASE Deliver(draft) /\ UNCHANGED recall
    BY <1>1, <2>3, Taken DEF PastesInv, PastesShape, RecallBare, TextsStand
  <2> QED BY <2>1, <2>2, <2>3
<1>4. PastesShape'
  BY <1>1, <1>2, <1>3, NoParts DEF PastesInv, PastesShape
<1>5. LabelsStand'
  BY <1>1, NoParts DEF LabelsStand, LabelStands
<1>6. TextsStand'
  BY <1>1, <1>2, <1>3, NoParts DEF PastesInv, TextsStand, TextStands
<1> QED BY <1>3, <1>4, <1>5, <1>6 DEF PastesInv

LEMMA SendSteps == ASSUME PastesInv, NEW accepted, SendPrompt(accepted) \/ SessionOpened PROVE PastesInv'
<1>1. starting = FALSE /\ pendingSubmit = <<>>
  BY DEF SendPrompt, SessionOpened, PastesInv, PastesShape
<1>2. /\ draft' \in {draft, <<>>} /\ ReleasePastes(draft') /\ pendingSubmit' = <<>> /\ starting' = FALSE
      /\ shortened' = shortened
  BY <1>1 DEF SendPrompt, SessionOpened, Steer
<1>3. \/ UNCHANGED <<recall, delivered>>
      \/ StartWith(draft)
      \/ Deliver(draft) /\ UNCHANGED recall
  BY DEF SendPrompt, SessionOpened, Steer
<1> QED BY <1>2, <1>3, ReleaseSteps

LEMMA LaterSteps == ASSUME PastesInv, SendLater PROVE PastesInv'
<1>1. /\ UNCHANGED <<starting, pastes, pasteSeq, torn, recall, delivered, shortened>>
      /\ pendingSubmit' = draft /\ draft' = <<>> /\ starting
  BY DEF SendLater, stashVars, sentVars
<1>2. PastesShape'
  BY <1>1, NoParts DEF PastesInv, PastesShape
<1>3. LabelsStand' /\ RecallBare' /\ TextsStand'
  BY <1>1, NoParts DEF PastesInv, LabelsStand, LabelStands, RecallBare, TextsStand, TextStands
<1> QED BY <1>2, <1>3 DEF PastesInv

LEMMA ReadySteps == ASSUME PastesInv, NEW welcome, Ready(welcome) PROVE PastesInv'
<1>1. starting' = FALSE /\ pendingSubmit' = <<>> /\ shortened' = shortened
  BY DEF Ready
<1>2. CASE pendingSubmit = <<>> \/ ~welcome
  <2>1. draft' \in {draft, pendingSubmit} /\ UNCHANGED <<pastes, pasteSeq, recall, delivered, torn>>
    BY <1>2 DEF Ready
  <2>2. PastesShape'
    BY <1>1, <2>1, NoParts DEF PastesInv, PastesShape
  <2>3. LabelsStand' /\ RecallBare' /\ TextsStand'
    BY <1>1, <2>1, NoParts DEF PastesInv, LabelsStand, LabelStands, RecallBare, TextsStand, TextStands
  <2> QED BY <2>2, <2>3 DEF PastesInv
<1>3. CASE ~(pendingSubmit = <<>> \/ ~welcome)
  <2>1. StartWith(pendingSubmit) /\ ReleasePastes(draft) /\ draft' = draft
    BY <1>3 DEF Ready
  <2> QED BY <1>1, <2>1, ReleaseSteps
<1> QED BY <1>2, <1>3

LEMMA PastesSteps == ASSUME PastesInv, [PastesNext]_pasteVars PROVE PastesInv'
<1>1. CASE UNCHANGED pasteVars \/ TaskOver
  <2>1. UNCHANGED <<draft, pendingSubmit, starting, pastes, pasteSeq, torn, recall, delivered, shortened>>
    BY <1>1 DEF pasteVars, stashVars, sentVars, TaskOver
  <2> QED BY <2>1 DEF PastesInv, PastesShape, LabelsStand, LabelStands, RecallBare, TextsStand, TextStands
<1>2. CASE PastesNext /\ ~TaskOver
  BY <1>2, EditSteps, PasteSteps, RemoveSteps, RecallSteps, SendSteps, LaterSteps, ReadySteps DEF PastesNext
<1> QED BY <1>1, <1>2

\* Every label stands for the block that was pasted there, and what the engine takes is
\* what was composed.
THEOREM PromptsAlwaysWhole == PastesSpec => []SentAsComposed
<1>1. PastesInit => PastesInv
  BY PastesStart
<1>2. PastesInv /\ [PastesNext]_pasteVars => PastesInv'
  BY PastesSteps
<1>3. PastesInv => SentAsComposed
  BY DEF PastesInv, LabelsStand, LabelStands, TextsStand, SentAsComposed, ToSet
<1> QED BY <1>1, <1>2, <1>3, PTL DEF PastesSpec

\* What the user sees and what the engine is told are the session's own, whatever page, answer,
\* switch or paste comes between.
THEOREM ScreenAlwaysTrue == TerminalSpec /\ PastesSpec => []ScreenIsTrue
<1>1. ScreenIsOwn /\ SentAsComposed => ScreenIsTrue
  BY DEF ScreenIsTrue
<1> QED BY <1>1, ScreenAlwaysOwn, PromptsAlwaysWhole, PTL
=============================================================================
