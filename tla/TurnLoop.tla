------------------------------ MODULE TurnLoop ------------------------------
(***************************************************************************)
(* The turn loop: one task at a time, its turns, what extends them and     *)
(* what ends them, and the messages the user queues meanwhile.             *)
(*                                                                         *)
(* Source: internal/orchestrator (turnloop.go, turnhelpers.go,             *)
(* taskledger.go, classify.go, verification.go, engine.go).                *)
(*                                                                         *)
(* The goroutine inside Engine.Run is the task.  The TUI's goroutine       *)
(* queues messages, cancels and changes the effort between any two of its  *)
(* steps.                                                                  *)
(*                                                                         *)
(* Abstractions.  What the model answers, whether a request or a tool      *)
(* fails and whether the budget is used up are choices.  Of a batch the    *)
(* number of failures that count and of successes per kind of tool is      *)
(* kept: "edit" stands for the tools that name the files they change,      *)
(* "check" for checks, "read" for all else.  A refused call is in neither. *)
(* Whether an output counts as changed lines is a choice.  Of the changed  *)
(* files the loop asks whether there is one and whether there are two.     *)
(* Notices to the model are left out, and so are the conversation          *)
(* (ToolTurn) and its maintenance (PrefixGuard): an error of theirs is     *)
(* Fail.  A turn reads the effort once.                                    *)
(***************************************************************************)
EXTENDS Integers, Sequences, FiniteSetsExt, SequencesExt, Functions

CONSTANTS
    Efforts,          \* effort levels
    EffortTurns,      \* EffortProfile.MaxTurns per effort
    Ceiling,          \* hardTurnCeiling per effort
    TopCeiling,       \* the highest of them
    Reviewing,        \* efforts with AutoReview
    ClassTurns,       \* classTurns, from the smallest class to ClassEpic
    Extension,        \* turns an outgrown runway grows by, at least (6)
    Window,           \* turns the provider, stall and repeat breakers look at (15)
    ChatFailures,     \* provider failures a window may hold (3)
    FailureWindow,    \* taskFailureWindow (6)
    TaskFailures,     \* maxTaskFailures (8)
    MaxBatch,         \* tool calls of one response
    MaxMessages       \* no message is queued for a task past this many

Epic    == Len(ClassTurns)
Classes == 1 .. Epic

ASSUME ConstantsAssumption ==
    /\ Efforts # {} /\ Reviewing \subseteq Efforts
    /\ EffortTurns \in [Efforts -> Nat \ {0, 1}] /\ Ceiling \in [Efforts -> Nat \ {0}]
    /\ TopCeiling \in Range(Ceiling) /\ \A e \in Efforts : Ceiling[e] <= TopCeiling
    /\ ClassTurns \in Seq(Nat \ {0, 1}) /\ ClassTurns # <<>>
    /\ {Extension, Window, ChatFailures, FailureWindow, TaskFailures,
        MaxBatch, MaxMessages} \subseteq Nat

VARIABLES
    pc,            \* where Run is; "idle": e.cancel = nil
    effort,        \* settings.Effort
    cancelled,     \* ctx.Err() # nil
    queued,        \* messages queued for this task (history); they are numbered
    steering,      \* e.steering
    heard,         \* messages this task passed on to the model (history)
    turns, turnCap, class, explorations,   \* the runway, as in Run
    sawTool, files, checked, verified,     \* sawToolCall, filesChanged, checksRun, verificationRan
    empties, intents, reviews, reviewed,   \* the retries of a reply without calls
    chatFails, toolFails, successes, stalled   \* what the breakers count

queueVars   == <<queued, steering, heard>>
runwayVars  == <<turns, turnCap, class, explorations>>
workVars    == <<sawTool, files, checked, verified>>
nudgeVars   == <<empties, intents, reviews, reviewed>>
breakerVars == <<chatFails, toolFails, successes, stalled>>
vars == <<pc, effort, cancelled, queueVars, runwayVars, workVars, nudgeVars, breakerVars>>

Tools   == {"read", "edit", "check"}
Replies == {"empty", "intent", "text", "calls"}
Pcs     == {"idle", "prologue", "top", "ask", "wait", "verify", "closing"} \cup Replies

\* BudgetFor: the turns of a class at an effort.
MaxTurns(c, e) == Min({EffortTurns[e], ClassTurns[c]})

\* The occurrences of a sequence of turns after the cutoff.
Recent(turnsSeen, cutoff) == SelectSeq(turnsSeen, LAMBDA t : t > cutoff)

Locals ==
    /\ turns = 0 /\ turnCap = 0 /\ class = 1 /\ explorations = 0
    /\ sawTool = FALSE /\ files = 0 /\ checked = FALSE /\ verified = FALSE
    /\ empties = 0 /\ intents = 0 /\ reviews = FALSE /\ reviewed = FALSE
    /\ chatFails = <<>> /\ toolFails = <<>>
    /\ successes = [t \in Tools |-> <<>>] /\ stalled = 0

LocalsEnd ==
    /\ turns' = 0 /\ turnCap' = 0 /\ class' = 1 /\ explorations' = 0
    /\ sawTool' = FALSE /\ files' = 0 /\ checked' = FALSE /\ verified' = FALSE
    /\ empties' = 0 /\ intents' = 0 /\ reviews' = FALSE /\ reviewed' = FALSE
    /\ chatFails' = <<>> /\ toolFails' = <<>>
    /\ successes' = [t \in Tools |-> <<>>] /\ stalled' = 0

Init ==
    /\ pc = "idle" /\ effort \in Efforts /\ cancelled = FALSE
    /\ queued = 0 /\ steering = <<>> /\ heard = <<>>
    /\ Locals

-----------------------------------------------------------------------------
(* The TUI's goroutine.  Run holds the task slot whenever it is not idle. *)

\* Run claims the slot; one that finds it taken returns at once.
Begin ==
    /\ pc = "idle"
    /\ pc' = "prologue" /\ queued' = 0 /\ heard' = <<>>
    /\ \E c \in Classes : class' = c /\ turnCap' = MaxTurns(c, effort)
    /\ reviews' = (effort \in Reviewing)
    /\ UNCHANGED <<effort, cancelled, steering, turns, explorations, workVars, empties, intents, reviewed, breakerVars>>

QueueUserMessage ==
    /\ pc # "idle" /\ queued < MaxMessages
    /\ queued' = queued + 1
    /\ steering' = Append(steering, queued')
    /\ UNCHANGED <<pc, effort, cancelled, heard, runwayVars, workVars,
                   nudgeVars, breakerVars>>

Cancel ==
    /\ pc # "idle" /\ ~cancelled
    /\ cancelled' = TRUE
    /\ UNCHANGED <<pc, effort, queueVars, runwayVars, workVars,
                   nudgeVars, breakerVars>>

SetEffort ==
    /\ effort' \in Efforts \ {effort}
    /\ UNCHANGED <<pc, cancelled, queueVars, runwayVars, workVars,
                   nudgeVars, breakerVars>>

-----------------------------------------------------------------------------
(* The task. *)

GoTo(place) ==
    /\ pc' = place
    /\ UNCHANGED <<effort, cancelled, queueVars>>

\* The advisor, onboarding, maintenance and the prompt.
Prepare ==
    /\ pc = "prologue"
    /\ GoTo("top")
    /\ UNCHANGED <<runwayVars, workVars, nudgeVars, breakerVars>>

\* An error of the prologue, of maintenance, of the request or of persistence.
Fail ==
    /\ \/ pc \in {"prologue", "ask", "calls"}
       \/ pc = "wait" /\ cancelled
    /\ GoTo("closing")
    /\ UNCHANGED <<runwayVars, workVars, nudgeVars, breakerVars>>

\* BudgetExceeded, before the turn is counted.
StopAtBudget ==
    /\ pc = "top"
    /\ GoTo("closing")
    /\ UNCHANGED <<runwayVars, workVars, nudgeVars, breakerVars>>

Stop ==
    /\ pc = "top" /\ cancelled
    /\ GoTo("closing")
    /\ turns' = turns + 1
    /\ UNCHANGED <<turnCap, class, explorations, workVars, nudgeVars,
                   breakerVars>>

\* A mutated form: a message does not extend the runway.
RunwayUnextended(turn) == Min({Ceiling[effort], Max({turnCap, MaxTurns(class, effort)})})

\* The runway of a turn before the ladder: the live effort may extend or shorten
\* it, and a message of the user gives it a whole budget more.
Runway(turn) ==
    LET live == MaxTurns(class, effort)
        kept == Min({Ceiling[effort], Max({turnCap, live})})
    IN  IF steering = <<>> THEN kept
                           ELSE Min({Ceiling[effort], Max({kept, turn - 1 + live})})

\* The ladder: a task that reaches its runway outgrows its class.
Outgrown(turn) ==
    /\ turn >= Runway(turn) /\ class # Epic
    /\ files > 0 \/ explorations < 2

Extended(turn) ==
    Min({Ceiling[effort], Max({Runway(turn) + Extension, MaxTurns(class + 1, effort)})})

\* drainSteering, then the runway.
StartTurn ==
    /\ pc = "top" /\ ~cancelled
    /\ pc' = "ask"
    /\ turns' = turns + 1
    /\ heard' = heard \o steering
    /\ steering' = <<>>
    /\ \/ /\ ~Outgrown(turns')
          /\ turnCap' = Runway(turns')
          /\ UNCHANGED <<class, explorations>>
       \/ /\ Outgrown(turns')
          /\ turnCap' = Extended(turns')
          /\ class' = class + 1
          /\ explorations' = explorations + (IF files = 0 THEN 1 ELSE 0)
    /\ UNCHANGED <<effort, cancelled, queued, workVars, nudgeVars, breakerVars>>

Respond ==
    /\ pc = "ask"
    /\ \E reply \in Replies : GoTo(reply)
    /\ UNCHANGED <<runwayVars, workVars, nudgeVars, breakerVars>>

\* IsRateLimited: the task reports and ends.
RateLimited ==
    /\ pc = "ask"
    /\ GoTo("closing")
    /\ UNCHANGED <<runwayVars, workVars, nudgeVars, breakerVars>>

\* A mutated form: the failure is not recorded.
RecoverUncounted ==
    /\ pc = "ask" /\ ~cancelled
    /\ GoTo("wait")
    /\ UNCHANGED <<runwayVars, workVars, nudgeVars, breakerVars>>

\* A failure worth repeating: a window too full of them ends the task.
Recover ==
    /\ pc = "ask" /\ ~cancelled
    /\ chatFails' = Append(chatFails, turns)
    /\ GoTo(IF Len(Recent(chatFails', turns - Window)) > ChatFailures
            THEN "closing" ELSE "wait")
    /\ UNCHANGED <<runwayVars, workVars, nudgeVars, toolFails, successes, stalled>>

\* The pause is over: the step is tried again under its number.
Retry ==
    /\ pc = "wait"
    /\ GoTo("top")
    /\ turns' = turns - 1
    /\ UNCHANGED <<turnCap, class, explorations, workVars, nudgeVars,
                   breakerVars>>

-----------------------------------------------------------------------------
(* A reply without calls. *)

Final   == turns >= turnCap
Replied == pc \in Replies \ {"calls"}
Settled == Replied /\ steering = <<>>

\* A message waits: the reply is not the answer.
HearFirst ==
    /\ Replied /\ steering # <<>>
    /\ GoTo("top")
    /\ UNCHANGED <<runwayVars, workVars, nudgeVars, breakerVars>>

AskAgain ==
    /\ Settled /\ ~Final /\ pc = "empty"
    /\ \/ ~sawTool /\ turns = 1 /\ empties < 1
       \/ sawTool /\ empties < 2

EmptyReply ==
    /\ AskAgain
    /\ GoTo("top")
    /\ empties' = empties + 1
    /\ UNCHANGED <<runwayVars, workVars, intents, reviews, reviewed, breakerVars>>

\* The reply announces an action and calls no tool.
Announces == Settled /\ ~Final /\ pc = "intent" /\ sawTool /\ intents < 2

IntentReply ==
    /\ Announces
    /\ GoTo("top")
    /\ intents' = intents + 1
    /\ UNCHANGED <<runwayVars, workVars, empties, reviews, reviewed, breakerVars>>

\* AutoReview: the review gate may find the change not worth one.
ReviewReply ==
    /\ Settled /\ ~Final /\ ~AskAgain /\ ~Announces
    /\ reviews /\ ~reviewed /\ files >= 2
    /\ GoTo("top")
    /\ reviewed' = TRUE
    /\ UNCHANGED <<runwayVars, workVars, empties, intents, reviews, breakerVars>>

Answer ==
    /\ Settled /\ ~AskAgain /\ ~Announces
    /\ GoTo("closing")
    /\ UNCHANGED <<runwayVars, workVars, nudgeVars, breakerVars>>

-----------------------------------------------------------------------------
(* A reply with calls; a final turn runs them too. *)

Batches == {b \in [Tools \cup {"failed"} -> 0 .. MaxBatch] :
              FoldFunction(LAMBDA m, n : m + n, 0, b) <= MaxBatch}

Times(n) == [k \in 1 .. n |-> turns]

\* The breakers on failures, on repeated successes and on stalled work.
Broken ==
    \/ Len(toolFails') >= TaskFailures
    \/ \E t \in Tools : Len(successes'[t]) >= Window
    \/ stalled' >= Window

NeedsVerification == files' > 0 /\ ~checked' /\ ~verified

RunTools ==
    /\ pc = "calls"
    /\ \E b \in Batches :
         /\ toolFails' = Recent(toolFails \o Times(b["failed"]), turns - FailureWindow)
         /\ successes' = [t \in Tools |-> Recent(successes[t] \o Times(b[t]), turns - Window)]
         /\ checked' = (checked \/ b["check"] > 0)
         /\ files' \in IF b["edit"] = 0 THEN {files} ELSE Max({1, files}) .. 2
         /\ \/ stalled' = stalled + 1 /\ b["check"] = 0
            \/ stalled' = 0 /\ \E t \in Tools : b[t] > 0
    /\ sawTool' = TRUE
    /\ GoTo(IF Broken THEN "closing"
            ELSE IF ~Final THEN "top"
            ELSE IF NeedsVerification THEN "verify" ELSE "closing")
    /\ UNCHANGED <<runwayVars, verified, nudgeVars, chatFails>>

\* A mutated form: nothing says that the verification has run.
VerifyAgain ==
    /\ pc = "verify"
    /\ \/ GoTo("top")
       \/ GoTo("closing")
    /\ UNCHANGED <<runwayVars, workVars, nudgeVars, breakerVars>>

\* VerifyWorkspace: a failed check gives the task another turn, once.
Verify ==
    /\ pc = "verify"
    /\ verified' = TRUE
    /\ \/ GoTo("top")
       \/ GoTo("closing")
    /\ UNCHANGED <<runwayVars, sawTool, files, checked, nudgeVars, breakerVars>>

\* A mutated form: the queue outlives the task.
ReleaseKeepingQueue ==
    /\ pc = "closing"
    /\ pc' = "idle" /\ cancelled' = FALSE
    /\ LocalsEnd
    /\ UNCHANGED <<effort, queueVars>>

\* Run's deferred release of the slot takes the queue with it; its locals die.
Release ==
    /\ pc = "closing"
    /\ pc' = "idle" /\ cancelled' = FALSE
    /\ steering' = <<>>
    /\ LocalsEnd
    /\ UNCHANGED <<effort, queued, heard>>

-----------------------------------------------------------------------------

TaskStep ==
    \/ Prepare \/ Fail \/ StopAtBudget \/ Stop \/ StartTurn
    \/ Respond \/ RateLimited \/ Recover \/ Retry
    \/ HearFirst \/ EmptyReply \/ IntentReply \/ ReviewReply \/ Answer
    \/ RunTools \/ Verify \/ Release

Next == Begin \/ QueueUserMessage \/ Cancel \/ SetEffort \/ TaskStep

\* A running goroutine is scheduled, requests and tools return (they have
\* timeouts), and a question to the user is answered or cancelled.
Spec == Init /\ [][Next]_vars /\ WF_vars(TaskStep)

-----------------------------------------------------------------------------
(* Properties. *)

Turns == 0 .. TopCeiling + MaxMessages + 2

TypeOK ==
    /\ pc \in Pcs /\ effort \in Efforts
    /\ cancelled \in BOOLEAN
    /\ queued \in 0 .. MaxMessages
    /\ steering \in Seq(1 .. MaxMessages) /\ heard \in Seq(1 .. MaxMessages)
    /\ turns \in Turns /\ turnCap \in 0 .. Max({TopCeiling} \cup Range(EffortTurns))
    /\ class \in Classes /\ explorations \in 0 .. 2
    /\ {sawTool, checked, verified, reviews, reviewed} \subseteq BOOLEAN
    /\ files \in 0 .. 2 /\ empties \in 0 .. 2 /\ intents \in 0 .. 2
    /\ chatFails \in Seq(Turns) /\ toolFails \in Seq(Turns)
    /\ successes \in [Tools -> Seq(Turns)]
    /\ stalled \in 0 .. Window

\* A task goes past the hard ceiling by at most one turn for each message it
\* heard and one for a failed verification, however effort, class, retries and
\* messages move its runway.
TurnsBounded ==
    turns <= TopCeiling + Len(heard)
               + (IF verified THEN 1 ELSE 0)
               + (IF pc = "closing" THEN 1 ELSE 0)

\* What a task has heard and what still waits for it are the messages queued for
\* it, each once and in their order, and nothing waits when no task runs.
HeardOnceByItsTask ==
    IF pc = "idle" THEN steering = <<>>
                   ELSE heard \o steering = [n \in 1 .. queued |-> n]

\* The turn that hears a message is not the final one, short of the ceiling:
\* the model can still act on what the user said.
HeardBeforeTheEnd ==
    [][StartTurn /\ steering # <<>> /\ Final' => turns' >= Ceiling[effort]]_vars

\* Every task ends, whatever the model answers and however often requests fail,
\* as long as the user stops queueing messages.
EveryTaskEnds == []<>(pc = "idle")

=============================================================================
