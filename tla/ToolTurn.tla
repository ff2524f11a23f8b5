------------------------------ MODULE ToolTurn ------------------------------
(***************************************************************************)
(* The tool calls of a session: how a batch of calls passes the dispatch   *)
(* gate, how its results reach the conversation, and what the next request *)
(* carries of them.                                                        *)
(*                                                                         *)
(* Source: internal/orchestrator (turnloop.go, dispatch.go, gates.go,      *)
(* truncation.go, inspection.go, history.go), internal/gateway/provider.go *)
(* and, for persistence under a cancelled context, internal/state/db.go.   *)
(*                                                                         *)
(* One goroutine runs the task; the user may cancel it, the process may    *)
(* die and another program may edit the workspace between any two steps.   *)
(*                                                                         *)
(* Abstractions.  A call is its tool and file; "read" stands for read_file *)
(* of one range, "search" for the other read-only tools, "write" for the   *)
(* tools that name the file they change, "shell" for run_shell and MCP     *)
(* tools.  A workspace is a version per file.  Sizes, ages and budgets     *)
(* decide what is folded, compacted or left out of a request: choices.  A  *)
(* text of the model without calls answers none and begins no unit: it is  *)
(* left out of the conversation.                                           *)
(***************************************************************************)
EXTENDS WireRepair, Bags, Functions

CONSTANTS
    Files,         \* files of the workspace
    NoFile,        \* a call that names no file
    Cut,           \* arguments cut off at the output cap
    CanCancel,     \* TRUE iff the user may cancel a task
    CanFail,       \* TRUE iff the process may die, a request or an append may fail
    CanShrink,     \* TRUE iff the conversation is folded, compacted and windowed
    Edited,        \* files other programs may edit
    RepeatLimit,   \* the repeat limiter lets an identical call through so often (3)
    GuardAt,       \* failures of one class that bring the loop guard's notice (3)
    MaxBatch,      \* calls in one response
    MaxCalls,      \* no response calls a tool past this many calls
    MaxTasks,      \* no task begins past this many
    MaxVersion,    \* no change of a file past this version
    MaxUnits       \* no notice between turns at this many units

ASSUME ConstantsAssumption ==
    /\ NoFile \notin Files /\ Cut \notin Files /\ Cut # NoFile
    /\ {CanCancel, CanFail, CanShrink} \subseteq BOOLEAN
    /\ Edited \subseteq Files
    /\ {RepeatLimit, GuardAt, MaxBatch, MaxCalls, MaxTasks, MaxVersion,
        MaxUnits} \subseteq Nat

VARIABLES
    pc,         \* where the turn loop is
    log,        \* History.messages
    taskStart,  \* History.lastTaskStart
    folded,     \* calls whose result carries a trim or fold note
    trace,      \* every call: what it is, how it ended (partly history)
    pending,    \* announced calls not yet through the gate
    outcomes,   \* calls through the gate, not yet in the history
    cancelled,  \* ctx.Err() # nil
    tries,      \* callCounts: a bag of calls
    failed,     \* failedCalls: call -> class of its last failure
    hits,       \* failedClassCounts: a bag of classes
    ledger,     \* InspectionLedger: inspection -> result id, file stamp
    version,    \* the workspace
    tasks       \* tasks begun

historyVars == <<log, taskStart, folded>>
batchVars   == <<trace, pending, outcomes>>
gateVars    == <<tries, failed, hits>>
vars == <<pc, historyVars, batchVars, cancelled, gateVars, ledger, version, tasks>>

Read(file)  == [tool |-> "read", file |-> file]
Write(file) == [tool |-> "write", file |-> file]
Search      == [tool |-> "search", file |-> NoFile]
Shell       == [tool |-> "shell", file |-> NoFile]

Inspections == {Read(f) : f \in Files} \cup {Search}
Mutations   == {Write(f) : f \in Files} \cup {Shell}
Malformed   == Write(NoFile)      \* a required argument is missing
CutOff      == Write(Cut)         \* finish_reason "length" inside the arguments
Calls       == Inspections \cup Mutations \cup {Malformed, CutOff}

Ends == {"announced", "ran", "failed", "refused", "duplicate"}
Pcs  == {"idle", "request", "respond", "dispatch", "collect"}

Unlimited == MaxCalls + 1
Classes   == [tool : {"read", "search", "write", "shell"},
              error : {"error", "truncated"}, depth : 0 .. Unlimited]

\* The context, the counters and the calls at the gate belong to one task.
NewTaskState == /\ cancelled' = FALSE
                /\ tries' = EmptyBag /\ failed' = <<>> /\ hits' = EmptyBag

Leave == /\ pc' = "idle"
         /\ pending' = <<>> /\ outcomes' = <<>>
         /\ NewTaskState

-----------------------------------------------------------------------------
(* The task: requests and what may happen to the conversation between them. *)

Init ==
    /\ pc = "idle"
    /\ log = <<>> /\ taskStart = 0 /\ folded = {}
    /\ trace = <<>> /\ pending = <<>> /\ outcomes = <<>>
    /\ cancelled = FALSE
    /\ tries = EmptyBag /\ failed = <<>> /\ hits = EmptyBag
    /\ ledger = <<>>
    /\ version = [f \in Files |-> 0]
    /\ tasks = 0

\* Run resets the counters, marks the task's start and appends the prompt.
StartTask ==
    /\ pc = "idle" /\ tasks < MaxTasks
    /\ pc' = "request"
    /\ taskStart' = Len(log)
    /\ log' = Append(log, User)
    /\ NewTaskState
    /\ tasks' = tasks + 1
    /\ UNCHANGED <<folded, batchVars, ledger, version>>

Cancel ==
    /\ CanCancel /\ pc # "idle" /\ ~cancelled
    /\ cancelled' = TRUE
    /\ UNCHANGED <<pc, historyVars, batchVars, gateVars, ledger, version, tasks>>

\* A unit begins at each user message, the loop guard's included.
UnitStarts == {1} \cup {i \in DOMAIN log : log[i] = User}

\* Steering, governor and guard messages enter between two turns.
Notice ==
    /\ pc = "request" /\ Cardinality(UnitStarts) < MaxUnits
    /\ log' = Append(log, User)
    /\ UNCHANGED <<pc, taskStart, folded, batchVars, cancelled, gateVars,
                   ledger, version, tasks>>

\* Maintain puts a note in place of the bulk of a result: of a finished task's,
\* of an outdated read, and of one with newer results enough; sizes decide, so
\* any may be next.  Only "ran" ones matter to the ledger.
Fold(i) ==
    /\ CanShrink /\ pc = "request"
    /\ IsResult(log[i]) /\ trace[log[i].id].end = "ran" /\ log[i].id \notin folded
    /\ folded' = folded \cup {log[i].id}
    /\ UNCHANGED <<pc, log, taskStart, batchVars, cancelled, gateVars, ledger,
                   version, tasks>>

\* CompactTo keeps the last two units.
Compact ==
    /\ CanShrink /\ pc = "request" /\ Cardinality(UnitStarts) > 2
    /\ \E first \in UnitStarts :
          /\ Cardinality({i \in UnitStarts : i >= first}) = 2
          /\ log' = SubSeq(log, first, Len(log))
          /\ taskStart' = IF taskStart < first THEN 0 ELSE taskStart - (first - 1)
    /\ UNCHANGED <<pc, folded, batchVars, cancelled, gateVars, ledger, version, tasks>>

\* BuildRequestWithMetadata: the newest units that fit, the last one always.
Windows == IF CanShrink THEN UnitStarts ELSE {1}
Sent(first) == Repair(SubSeq(log, first, Len(log)))

Request ==
    /\ pc = "request" /\ ~cancelled
    /\ pc' = "respond"
    /\ UNCHANGED <<historyVars, batchVars, cancelled, gateVars, ledger, version, tasks>>

\* The task is over: finalize, a breaker, a cancelled context, a failed request.
Finish ==
    /\ pc \in {"request", "respond"}
    /\ Leave
    /\ UNCHANGED <<historyVars, trace, ledger, version, tasks>>

\* The failed request is sent again, nothing kept of it.
Retry ==
    /\ CanFail /\ pc = "respond"
    /\ pc' = "request"
    /\ UNCHANGED <<historyVars, batchVars, cancelled, gateVars, ledger, version, tasks>>

\* A reply without calls does not end the task: it was empty, announced an
\* action, is to be reviewed, or a message of the user waits.
Nudge ==
    /\ pc = "respond" /\ Cardinality(UnitStarts) < MaxUnits
    /\ pc' = "request"
    /\ log' = Append(log, User)
    /\ UNCHANGED <<taskStart, folded, batchVars, cancelled, gateVars, ledger,
                   version, tasks>>

\* The announcement enters the history; cut-off calls are answered first.
Announce(batch) ==
    /\ pc = "respond" /\ Len(trace) + Len(batch) <= MaxCalls
    /\ LET ids == [k \in DOMAIN batch |-> Len(trace) + k]
           IsCut(id) == batch[id - Len(trace)] = CutOff
           Before(a, b) == IF IsCut(a) = IsCut(b) THEN a < b ELSE IsCut(a)
       IN  /\ log' = Append(log, Assistant(ids))
           /\ pending' \in Bijection(DOMAIN batch, ToSet(ids))
           /\ \A j, k \in DOMAIN batch : j < k => Before(pending'[j], pending'[k])
    /\ trace' = trace \o [k \in DOMAIN batch |->
                  [call |-> batch[k], end |-> "announced", of |-> 0, saw |-> 0]]
    /\ pc' = "dispatch"
    /\ UNCHANGED <<taskStart, folded, outcomes, cancelled, gateVars, ledger,
                   version, tasks>>

-----------------------------------------------------------------------------
(* The gate.  It answers the first pending call. *)

Id   == Head(pending)
Call == trace[Id].call
Stamp == IF Call.tool = "read" THEN version[Call.file] ELSE 0

Conclude(end, referent) ==
    /\ trace' = [trace EXCEPT ![Id] = [call |-> Call, end |-> end, of |-> referent,
                                       saw |-> Stamp]]
    /\ outcomes' = Append(outcomes, Id)
    /\ pending' = Tail(pending)
    /\ pc' = IF Tail(pending) = <<>> THEN "collect" ELSE "dispatch"

\* A Go map of counters: zero where there is no key.
CountOf(key, counts) == IF BagIn(key, counts) THEN counts[key] ELSE 0

\* A class that reaches GuardAt appends the loop guard's notice at once.
CountFailure(class) ==
    /\ hits' = hits (+) SetToBag({class})
    /\ log' = IF CountOf(class, hits') = GuardAt THEN Append(log, User) ELSE log

Remember(class) ==
    failed' = [c \in DOMAIN failed \cup {Call} |-> IF c = Call THEN class ELSE failed[c]]

AtGate == pc = "dispatch"

\* The class key of a cut-off call is its tool; its failedCalls key matches no call.
Truncated ==
    /\ AtGate /\ Call = CutOff
    /\ Conclude("refused", 0)
    /\ CountFailure([tool |-> Call.tool, error |-> "truncated", depth |-> 0])
    /\ UNCHANGED <<taskStart, folded, cancelled, tries, failed, ledger,
                   version, tasks>>

\* validateCallArgs: nothing is counted.
Reject ==
    /\ AtGate /\ Call = Malformed
    /\ Conclude("refused", 0)
    /\ UNCHANGED <<historyVars, cancelled, gateVars, ledger, version, tasks>>

\* The answer quotes the last error, so each repeat is a failure of a new class.
RepeatFailed ==
    /\ AtGate /\ Call \in DOMAIN failed
    /\ Conclude("refused", 0)
    /\ LET class == [failed[Call] EXCEPT !.depth = @ + 1]
       IN  CountFailure(class) /\ Remember(class)
    /\ UNCHANGED <<taskStart, folded, cancelled, tries, ledger, version, tasks>>

\* A call that reaches the repeat limiter, and one it lets through.
Counted ==
    /\ AtGate /\ Call \in Inspections \cup Mutations /\ Call \notin DOMAIN failed
    /\ tries' = tries (+) SetToBag({Call})
Allowed == Counted /\ CountOf(Call, tries) < RepeatLimit

Limited ==
    /\ Counted /\ CountOf(Call, tries) >= RepeatLimit
    /\ Conclude("refused", 0)
    /\ UNCHANGED <<historyVars, cancelled, failed, hits, ledger, version, tasks>>

-----------------------------------------------------------------------------
(* The inspection ledger. *)

\* A change of one file takes its read and every search; "shell" takes all.
Affected(call) ==
    {i \in Inspections : \/ call.tool = "shell"
                         \/ i.tool = "search"
                         \/ i.file = call.file}

Forget(entries, call) == Restrict(entries, DOMAIN entries \ Affected(call))

\* The ledger a read is looked up in: without what the file's stamp outdates.
CheckedLedger ==
    IF Call \in DOMAIN ledger /\ ledger[Call].stamp # Stamp
    THEN Forget(ledger, Call)
    ELSE ledger

IsToolResultIntact(id) == Result(id) \in ToSet(log) /\ id \notin folded

IsDuplicate == /\ Call \in DOMAIN CheckedLedger
               /\ IsToolResultIntact(CheckedLedger[Call].id)

\* Record: the stamp is read when the result is.
Recorded(entries) ==
    [i \in DOMAIN entries \cup {Call} |->
       IF i = Call THEN [id |-> Id, stamp |-> Stamp] ELSE entries[i]]

\* A mutated form: a failed mutation is taken to have changed nothing.
PostDispatchOnSuccess(end) ==
    ledger' = CASE end = "ran" /\ Call \in Mutations   -> Forget(CheckedLedger, Call)
                [] end = "ran" /\ Call \in Inspections -> Recorded(CheckedLedger)
                [] OTHER                               -> CheckedLedger

\* postDispatch: a mutation invalidates whether it succeeded or not.
PostDispatch(end) ==
    ledger' = CASE Call \in Mutations                   -> Forget(CheckedLedger, Call)
                [] end = "ran" /\ Call \in Inspections -> Recorded(CheckedLedger)
                [] OTHER                               -> CheckedLedger

Duplicate ==
    /\ Allowed /\ IsDuplicate
    /\ Conclude("duplicate", CheckedLedger[Call].id)
    /\ ledger' = CheckedLedger
    /\ UNCHANGED <<historyVars, cancelled, failed, hits, version, tasks>>

CancelledBefore ==
    /\ Allowed /\ ~IsDuplicate /\ cancelled
    /\ Conclude("refused", 0)
    /\ ledger' = CheckedLedger
    /\ UNCHANGED <<historyVars, cancelled, failed, hits, version, tasks>>

-----------------------------------------------------------------------------
(* Dispatch: what the call does to the workspace, and how it ends. *)

Edit(S) == [f \in Files |-> version[f] + (IF f \in S THEN 1 ELSE 0)]
Reach(call) == CASE call = Shell             -> Files
                 [] call \in Mutations        -> {call.file}
                 [] OTHER                     -> {}
Effects == {after \in {Edit(S) : S \in SUBSET Reach(Call)} :
              \A f \in Files : after[f] <= MaxVersion}

Dispatch == Allowed /\ ~IsDuplicate /\ ~cancelled

\* Deleting the call from failedCalls changes nothing: it was not there.
Succeed ==
    /\ Dispatch
    /\ version' \in Effects
    /\ (Call.tool = "write") => (version' # version)
    /\ Conclude("ran", 0)
    /\ PostDispatch("ran")
    /\ UNCHANGED <<historyVars, cancelled, failed, hits, tasks>>

Fail ==
    /\ Dispatch
    /\ version' \in Effects
    /\ Conclude("failed", 0)
    /\ PostDispatch("failed")
    /\ LET class == [tool |-> Call.tool, error |-> "error", depth |-> 0]
       IN  CountFailure(class) /\ Remember(class)
    /\ UNCHANGED <<taskStart, folded, cancelled, tasks>>

\* Cancelled while it runs: reported as never executed, postDispatch is skipped.
Interrupt ==
    /\ CanCancel /\ Dispatch
    /\ version' \in Effects
    /\ Conclude("refused", 0)
    /\ cancelled' = TRUE
    /\ ledger' = CheckedLedger
    /\ UNCHANGED <<historyVars, failed, hits, tasks>>

-----------------------------------------------------------------------------
(* The results enter the history one by one. *)

\* persistMessage, then Append.  BeginTx refuses a cancelled context.
Collect ==
    /\ pc = "collect" /\ ~cancelled
    /\ log' = Append(log, Result(Head(outcomes)))
    /\ outcomes' = Tail(outcomes)
    /\ pc' = IF Tail(outcomes) = <<>> THEN "request" ELSE "collect"
    /\ UNCHANGED <<taskStart, folded, trace, pending, cancelled, gateVars,
                   ledger, version, tasks>>

\* A mutated form: a result that cannot be persisted is skipped.
CollectSkips ==
    /\ pc = "collect" /\ (cancelled \/ CanFail)
    /\ outcomes' = Tail(outcomes)
    /\ pc' = IF Tail(outcomes) = <<>> THEN "request" ELSE "collect"
    /\ UNCHANGED <<historyVars, trace, pending, cancelled, gateVars, ledger, version, tasks>>

\* The error ends the task with the remaining results unrecorded.
CollectFails ==
    /\ pc = "collect" /\ (cancelled \/ CanFail)
    /\ Leave
    /\ UNCHANGED <<historyVars, trace, ledger, version, tasks>>

\* History and ledger are saved at every change; all else is lost.
Crash ==
    /\ CanFail /\ pc \in {"dispatch", "collect"}
    /\ Leave
    /\ UNCHANGED <<historyVars, trace, ledger, version, tasks>>

\* Another program edits the workspace.
EditOutside(file) ==
    /\ version[file] < MaxVersion
    /\ version' = Edit({file})
    /\ UNCHANGED <<pc, historyVars, batchVars, cancelled, gateVars, ledger, tasks>>

AtBound == pc = "idle" /\ tasks = MaxTasks /\ UNCHANGED vars

Gate == \/ Truncated \/ Reject \/ RepeatFailed \/ Limited
        \/ Duplicate \/ CancelledBefore \/ Succeed \/ Fail \/ Interrupt

Batches == UNION {[1 .. n -> Calls] : n \in 1 .. MaxBatch}

Next ==
    \/ StartTask \/ Cancel \/ Notice \/ Compact \/ Request \/ Finish
    \/ Retry \/ Nudge
    \/ \E i \in DOMAIN log : Fold(i)
    \/ \E batch \in Batches : Announce(batch)
    \/ Gate \/ Collect \/ CollectFails \/ Crash
    \/ \E file \in Edited : EditOutside(file)
    \/ AtBound

Spec == Init /\ [][Next]_vars

-----------------------------------------------------------------------------
(* Properties. *)

\* Every variable has its type; the gate works on announced calls only.
TypeOK ==
    /\ pc \in Pcs
    /\ \A m \in ToSet(log) : m = User \/ m.role = "assistant" \/ m.id \in DOMAIN trace
    /\ taskStart \in 0 .. Len(log)
    /\ \A t \in ToSet(trace) :
          /\ t.call \in Calls /\ t.end \in Ends
          /\ t.of \in 0 .. Len(trace) /\ t.saw \in 0 .. MaxVersion
    /\ folded \cup ToSet(pending) \cup ToSet(outcomes) \subseteq DOMAIN trace
    /\ \A id \in ToSet(pending) : trace[id].end = "announced"
    /\ (pc = "dispatch") = (pending # <<>>)
    /\ pc = "collect" => outcomes # <<>>
    /\ cancelled \in BOOLEAN
    /\ DOMAIN tries \cup DOMAIN failed \subseteq Inspections \cup Mutations
    /\ \A class \in DOMAIN hits : class \in Classes
    /\ DOMAIN ledger \subseteq Inspections
    /\ \A i \in DOMAIN ledger : ledger[i].id \in DOMAIN trace

\* Whatever was cancelled, lost, folded, compacted or split by a notice, the
\* provider gets one result after each announcement, in a group of its own, and
\* a second repair would change nothing (the guard hashes a repaired request).
WireWellFormed ==
    pc = "respond" => \A first \in Windows :
      LET sent == Sent(first) IN WellFormed(sent) /\ Repair(sent) = sent

\* While a task goes on, each call it announced has exactly one recorded result,
\* after its announcement.
AnsweredOnce ==
    pc = "request" =>
      \A i \in taskStart + 1 .. Len(log) : Announces(log[i]) =>
        \A id \in ToSet(log[i].calls) :
          Cardinality({j \in i + 1 .. Len(log) : log[j] = Result(id)}) = 1

\* A read answered "unchanged result already in context" points to a result that
\* shows the file as it is, whoever changed it and however the change ended.
DuplicateReadIsFresh ==
    \A id \in DOMAIN trace :
      LET t == trace[id]
      IN  t.end = "duplicate" /\ t.call.tool = "read" =>
            trace[t.of].saw = t.saw

\* A search answered so points to a result no settled mutation came after.
DuplicateSearchSeesMutations ==
    \A id \in DOMAIN trace :
      trace[id].end = "duplicate" /\ trace[id].call = Search =>
        \A m \in trace[id].of .. id :
          ~(trace[m].call \in Mutations /\ trace[m].end \in {"ran", "failed"})

\* A call is answered as a duplicate only when running it would show the same.
DuplicatesAreFresh == DuplicateReadIsFresh /\ DuplicateSearchSeesMutations

(* What the documents say, and the code does not do. *)

\* dispatch-gate.md: "cancellation, ... or errors NEVER leave an announced call
\* without a result".
EveryCallAnswered ==
    pc = "idle" => \A i \in DOMAIN log : Announces(log[i]) =>
                     \A id \in ToSet(log[i].calls) : Result(id) \in ToSet(log)

\* architecture.md: "Every assistant tool call has exactly one ordered tool
\* result": a recorded result whose announcement is sent is sent too.
RecordedResultsAreSent ==
    pc = "respond" =>
      \A first \in Windows : \A i \in first .. Len(log) : Announces(log[i]) =>
        \A id \in ToSet(log[i].calls) :
          Result(id) \in ToSet(log) => Result(id) \in ToSet(Sent(first))

=============================================================================
