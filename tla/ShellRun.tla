------------------------------ MODULE ShellRun ------------------------------
(***************************************************************************)
(* One shell command: ShellRunner.runArgv starts it in a process group of  *)
(* its own and waits for it, bounded by a deadline, by the task's context  *)
(* and by two graces, whatever becomes of the processes it leaves behind.  *)
(*                                                                         *)
(* proc is the command itself, pipe says whether it or a process it left   *)
(* behind still holds the output pipe.  exec.Cmd.Wait returns when both    *)
(* are done, or its WaitDelay after the command is (external).             *)
(***************************************************************************)
EXTENDS Naturals

CONSTANT OutputLimit   \* the output kept; one unit is one piece written

ASSUME ShellRunAssumption == OutputLimit \in Nat \ {0}

VARIABLES
    shellPc,   \* runArgv: where it waits, or its end
    proc,      \* "none", "running", "exited", "killed"
    pipe,      \* "open" or "closed"
    ctx,       \* "live", "expired", "cancelled"
    waitErr,   \* what Wait returned
    kept,      \* boundedWriter: pieces kept
    cut,       \* boundedWriter.truncated
    report     \* what formatShellResult tells the model

shellRunVars == <<shellPc, proc, pipe, ctx, waitErr, kept, cut, report>>

-----------------------------------------------------------------------------

ShellRunInit ==
    /\ shellPc = "idle" /\ proc = "none" /\ pipe = "closed" /\ ctx = "live"
    /\ waitErr = "none" /\ kept = 0 /\ cut = FALSE /\ report = "none"

\* cmd.Start; a program that is not there ends the call.
Start ==
    /\ shellPc = "idle"
    /\ \/ shellPc' = "waiting" /\ proc' = "running" /\ pipe' = "open" /\ report' = report
       \/ shellPc' = "returned" /\ report' = "error" /\ UNCHANGED <<proc, pipe>>
    /\ UNCHANGED <<ctx, waitErr, kept, cut>>

\* boundedWriter.Write: what exceeds the limit is dropped, the writer never blocks.
Output ==
    /\ pipe = "open" /\ shellPc \in {"waiting", "stopping"}
    /\ IF kept < OutputLimit THEN kept' = kept + 1 /\ UNCHANGED cut
       ELSE cut' = TRUE /\ UNCHANGED kept
    /\ UNCHANGED <<shellPc, proc, pipe, ctx, waitErr, report>>

\* The command exits; processes it left behind may keep the pipe.
Exit ==
    /\ proc = "running"
    /\ proc' = "exited" /\ pipe' \in {pipe, "closed"}
    /\ UNCHANGED <<shellPc, ctx, waitErr, kept, cut, report>>

\* The last of them ends.
ClosePipe ==
    /\ proc # "running" /\ pipe = "open"
    /\ pipe' = "closed"
    /\ UNCHANGED <<shellPc, proc, ctx, waitErr, kept, cut, report>>

\* The context ends: exec.Cmd kills the tree if the command still runs, which a
\* process that left the group survives.  A command that has exited is not killed.
Stop(why) ==
    /\ shellPc = "waiting" /\ ctx = "live"
    /\ ctx' = why
    /\ IF proc = "running" THEN proc' \in {"running", "killed"} /\ pipe' \in {pipe, "closed"}
       ELSE UNCHANGED <<proc, pipe>>
    /\ UNCHANGED <<shellPc, waitErr, kept, cut, report>>

\* The select of runArgv sees the end of the context first.
Deadline ==
    /\ shellPc = "waiting" /\ ctx # "live"
    /\ shellPc' = "stopping"
    /\ UNCHANGED <<proc, pipe, ctx, waitErr, kept, cut, report>>

\* formatShellResult, from the two contexts and the error of Wait.
Report(error) ==
    IF ctx = "expired" THEN "timed out"
    ELSE IF ctx = "cancelled" THEN "cancelled"
    ELSE IF error = "wait delay" THEN "background left"
    ELSE "exit code"

Return(error) ==
    /\ shellPc' = "returned" /\ waitErr' = error /\ report' = Report(error)
    /\ UNCHANGED <<proc, pipe, ctx, kept, cut>>

\* Wait returns: the command is done and its pipe closed.
Wait ==
    /\ shellPc \in {"waiting", "stopping"} /\ proc # "running" /\ pipe = "closed"
    /\ Return("none")

\* WaitDelay after the command is done, or after its context ended, the pipe is
\* closed by force.
WaitDelay ==
    /\ shellPc \in {"waiting", "stopping"} /\ proc # "running" /\ pipe = "open"
    /\ Return("wait delay")

AbandonKilled ==
    /\ shellPc = "stopping" /\ proc # "running"
    /\ Return("abandoned")

\* The grace after the end of the context is over: kill once more, wait no longer.
Abandon ==
    /\ shellPc = "stopping"
    /\ Return("abandoned")

ShellRunNext ==
    \/ Start \/ Output \/ Exit \/ ClosePipe
    \/ \E why \in {"expired", "cancelled"} : Stop(why)
    \/ Deadline \/ Wait \/ WaitDelay \/ Abandon

\* The timers fire and the goroutine runs; of the command nothing is asked.
ShellRunProgress ==
    /\ WF_shellRunVars(Stop("expired")) /\ WF_shellRunVars(Deadline)
    /\ WF_shellRunVars(Wait) /\ WF_shellRunVars(WaitDelay) /\ WF_shellRunVars(Abandon)

-----------------------------------------------------------------------------
(* Properties.                                                             *)

ShellRunTypeOK ==
    /\ shellPc \in {"idle", "waiting", "stopping", "returned"}
    /\ proc \in {"none", "running", "exited", "killed"} /\ pipe \in {"open", "closed"}
    /\ kept \in 0..OutputLimit /\ cut => kept = OutputLimit

\* A shell command never wedges the agent (shell.go:30-34): a call that was started
\* returns, even if the command never exits, survives its kill or leaves a process
\* behind that keeps the pipe.
EveryShellReturns == (shellPc = "waiting") ~> (shellPc = "returned")
=============================================================================
