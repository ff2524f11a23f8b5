----------------------------- MODULE Workspace -----------------------------
(***************************************************************************)
(* The tools that read and change the files of a workspace, one call at a  *)
(* time, with the checkpoint each change leaves behind and /rewind, which  *)
(* restores the newest one while the next task may already run.            *)
(*                                                                         *)
(* A call is authorised path by path (Permissions), reads what it will     *)
(* change, takes a checkpoint and writes file by file.  A patch whose      *)
(* write fails puts back, in reverse order, what it had written.           *)
(***************************************************************************)
EXTENDS Permissions, Sequences, SequencesExt

CONSTANTS
    Paths,         \* files, named by their canonical paths
    Outside,       \* those outside the workspace
    Protected,     \* those under a credential root
    Contents,      \* what a file may hold
    InitialDisks,  \* the disks a session starts with
    Targets,       \* what the tools are asked to make of a file
    Foreign,       \* what other programs make of one
    Big,           \* the content over MaxSnapshotBytes
    Absent,        \* a file that does not exist
    MaxPatch,      \* bound: the files of a patch
    MaxCalls,      \* bound: tool calls
    MaxExternal    \* bound: changes by other programs

ASSUME WorkspaceAssumption ==
    /\ Outside \subseteq Paths /\ Protected \subseteq Paths \ Outside
    /\ Big \in Contents /\ Absent \notin Contents /\ Targets \cup Foreign \subseteq Contents
    /\ InitialDisks \subseteq [Paths -> Contents \cup {Absent}]
    /\ {MaxPatch, MaxCalls, MaxExternal} \subseteq Nat

VARIABLES
    disk,          \* content by path
    readLedger,    \* paths read or written in this process
    latest,        \* the newest checkpoint: a sequence of [path, content]
    call,          \* the tool call under way
    result,        \* how the last call ended
    rewind,        \* the restore under way: what is left of its checkpoint
    was,           \* history: the disk before the call that made the checkpoint
    disturbed,     \* history: others have changed files since
    calls, externals

diskVars == <<disk, readLedger, latest>>
historyVars == <<was, disturbed>>
workspaceVars == <<diskVars, call, result, rewind, historyVars, calls, externals>>

-----------------------------------------------------------------------------

PlaceOf(p) == IF p \in Protected THEN "sensitive" ELSE IF p \in Outside THEN "outside" ELSE "inside"

\* at: the step; i: the file it is at; before: what was read; consented: the paths
\* the guard granted; start: the disk at its beginning; clean: nobody interfered.
NoCall == [tool |-> "none", at |-> "none", work |-> <<>>, i |-> 1, before |-> <<>>,
           consented |-> {}, start |-> <<>>, clean |-> TRUE]

NoRewind == [active |-> FALSE, todo |-> <<>>, clean |-> TRUE]

WorkspaceInit ==
    /\ disk \in InitialDisks
    /\ readLedger = {} /\ latest = <<>>
    /\ call = NoCall /\ result = "none" /\ rewind = NoRewind
    /\ was = disk /\ disturbed = FALSE
    /\ calls = 0 /\ externals = 0

Current == call.work[call.i]
AtEnd == call.i = Len(call.work)

End(outcome) ==
    /\ call' = NoCall /\ result' = outcome
    /\ request' = NoRequest

\* The tools: read, edit one file, write one, patch some; a target Absent deletes.
Works(tool) ==
    CASE tool = "read" -> {<<[path |-> p, to |-> Absent]>> : p \in Paths}
      [] tool \in {"edit", "write"} -> {<<[path |-> p, to |-> c]>> : p \in Paths, c \in Targets}
      [] tool = "patch" ->
            UNION {[1..n -> [path : Paths, to : Targets \cup {Absent}]] : n \in 1..MaxPatch}

Begin(tool, work) ==
    /\ call = NoCall /\ calls < MaxCalls
    /\ calls' = calls + 1
    /\ call' = [NoCall EXCEPT !.tool = tool, !.at = "authorise", !.work = work, !.start = disk,
                              !.clean = ~rewind.active]
    /\ Request(tool, PlaceOf(work[1].path), "plain")
    /\ rewind' = [rewind EXCEPT !.clean = FALSE]
    /\ UNCHANGED <<modeVars, trusted, diskVars, result, historyVars, externals>>

\* authorizePath has returned.
Refused ==
    /\ call.at = "authorise" /\ request.at = "denied"
    /\ End("failed")
    /\ UNCHANGED <<modeVars, trusted, diskVars, rewind, historyVars, calls, externals>>

Authorised ==
    /\ call.at = "authorise" /\ request.at = "granted"
    /\ call' = [call EXCEPT !.at = "load", !.consented = @ \cup {Current.path}]
    /\ UNCHANGED <<guardVars, diskVars, result, rewind, historyVars, calls, externals>>

-----------------------------------------------------------------------------
(* Loading.                                                                *)

\* readTextFile succeeds: the path may be overwritten from now on.
Read ==
    /\ call.tool = "read" /\ call.at = "load"
    /\ IF disk[Current.path] = Absent THEN End("failed") /\ UNCHANGED readLedger
       ELSE End("ok") /\ readLedger' = readLedger \cup {Current.path}
    /\ UNCHANGED <<modeVars, trusted, disk, latest, rewind, historyVars, calls, externals>>

\* canOverwrite: known from this process, or from the task's inspection ledger.
CanOverwrite(p, known) == p \in readLedger \/ known

\* What is there, and whether the agent may replace it.  An edit wants a file and
\* a string in it; a hunk wants its context.
Load(known, fits) ==
    LET now == disk[Current.path] IN
    /\ call.tool # "read" /\ call.at = "load"
    /\ IF \/ now # Absent /\ ~CanOverwrite(Current.path, known)
          \/ now = Absent /\ call.tool = "edit"
          \/ ~fits
       THEN End("failed")
       ELSE IF call.tool \in {"edit", "write"} /\ now = Current.to
       THEN End("ok")                                     \* no changes needed
       ELSE /\ call' = [call EXCEPT !.before = Append(@, now),
                                    !.i = IF AtEnd THEN 1 ELSE @ + 1,
                                    !.at = IF AtEnd THEN "checkpoint" ELSE "authorise"]
            /\ IF AtEnd THEN request' = NoRequest
               ELSE Request(call.tool, PlaceOf(call.work[call.i + 1].path), "plain")
            /\ UNCHANGED result
    /\ UNCHANGED <<modeVars, trusted, diskVars, rewind, historyVars, calls, externals>>

-----------------------------------------------------------------------------
(* The checkpoint.                                                         *)

\* CheckpointStore.Create keeps each file once, in the order given, and leaves out
\* those outside the workspace and the big ones.
Kept(work) == {p \in {w.path : w \in Range(work)} : p \notin Outside /\ disk[p] # Big}

NamedFirst(work, p, q) == \E i \in DOMAIN work : /\ work[i].path = p
                                                 /\ \A j \in 1 .. i : work[j].path # q

Orders(work) == {seq \in UNION {Bijection(1..n, Kept(work)) : n \in 0..Len(work)} :
                   \A j, k \in DOMAIN seq : j < k => NamedFirst(work, seq[j], seq[k])}

Snapshots(work) ==
    {[k \in DOMAIN seq |-> [path |-> seq[k], content |-> disk[seq[k]]]] : seq \in Orders(work)}

\* A mutated form: files yet to be created are not kept.
CheckpointExisting ==
    /\ call.at = "checkpoint"
    /\ \E files \in Snapshots(call.work) :
          latest' = SelectSeq(files, LAMBDA f : f.content # Absent)
    /\ was' = call.start /\ disturbed' = ~call.clean
    /\ call' = [call EXCEPT !.at = "commit"]
    /\ UNCHANGED <<guardVars, disk, readLedger, result, rewind, calls, externals>>

\* A checkpoint that cannot be kept ends the call before it changes anything.
Checkpoint ==
    /\ call.at = "checkpoint"
    /\ \/ /\ latest' \in Snapshots(call.work)
          /\ was' = call.start /\ disturbed' = ~call.clean
          /\ call' = [call EXCEPT !.at = "commit"]
          /\ UNCHANGED <<result, request>>
       \/ End("failed") /\ UNCHANGED <<latest, historyVars>>
    /\ UNCHANGED <<modeVars, trusted, disk, readLedger, rewind, calls, externals>>

-----------------------------------------------------------------------------
(* Writing.                                                                *)

\* writeTextPreservingMode, writeAtomic and Remove happen or not; a file is never
\* half written.  The first that fails turns a patch around.
Commit ==
    /\ call.at = "commit"
    /\ \/ /\ disk' = [disk EXCEPT ![Current.path] = Current.to]
          /\ readLedger' = readLedger \cup {Current.path}
          /\ IF AtEnd THEN End("ok")
             ELSE call' = [call EXCEPT !.i = @ + 1] /\ UNCHANGED <<result, request>>
       \/ /\ IF call.i = 1 THEN End("failed")
             ELSE /\ call' = [call EXCEPT !.at = "rollback", !.i = @ - 1]
                  /\ UNCHANGED <<result, request>>
          /\ UNCHANGED <<disk, readLedger>>
    /\ UNCHANGED <<modeVars, trusted, latest, rewind, historyVars, calls, externals>>

\* A mutated form: a file that was created is left.
RollbackExisting ==
    /\ call.at = "rollback"
    /\ disk' = IF call.before[call.i] = Absent THEN disk
               ELSE [disk EXCEPT ![Current.path] = call.before[call.i]]
    /\ IF call.i = 1 THEN End("failed")
       ELSE call' = [call EXCEPT !.i = @ - 1] /\ UNCHANGED <<result, request>>
    /\ UNCHANGED <<modeVars, trusted, readLedger, latest, rewind, historyVars, calls, externals>>

\* rollback: from the last file written to the first; its own errors are dropped.
Rollback ==
    /\ call.at = "rollback"
    /\ \E done \in BOOLEAN :
          /\ disk' = IF done THEN [disk EXCEPT ![Current.path] = call.before[call.i]] ELSE disk
          /\ IF call.i = 1
             THEN End(IF done /\ call.clean THEN "failed" ELSE "failed and torn")
             ELSE /\ call' = [call EXCEPT !.i = @ - 1, !.clean = @ /\ done]
                  /\ UNCHANGED <<result, request>>
    /\ UNCHANGED <<modeVars, trusted, readLedger, latest, rewind, historyVars, calls, externals>>

-----------------------------------------------------------------------------
(* /rewind.                                                                *)

\* The command is refused while a task runs, but does not keep one from starting.
BeginRewind ==
    /\ call = NoCall /\ ~rewind.active /\ latest # <<>>
    /\ rewind' = [active |-> TRUE, todo |-> latest, clean |-> TRUE]
    /\ UNCHANGED <<guardVars, diskVars, call, result, historyVars, calls, externals>>

\* RestoreLatest, one file at a time; an error leaves the rest as it is.
RestoreOne ==
    /\ rewind.active /\ rewind.todo # <<>>
    /\ LET file == Head(rewind.todo) IN
       \/ /\ disk' = [disk EXCEPT ![file.path] = file.content]
          /\ rewind' = [rewind EXCEPT !.todo = Tail(@)]
       \/ rewind' = NoRewind /\ UNCHANGED disk
    /\ call' = IF call = NoCall THEN call ELSE [call EXCEPT !.clean = FALSE]
    /\ UNCHANGED <<guardVars, readLedger, latest, result, historyVars, calls, externals>>

EndRewind ==
    /\ rewind.active /\ rewind.todo = <<>>
    /\ rewind' = NoRewind
    /\ UNCHANGED <<guardVars, diskVars, call, result, historyVars, calls, externals>>

\* Another program, or a shell command of the agent, changes a file.
External(p, c) ==
    /\ externals < MaxExternal /\ disk[p] # c
    /\ externals' = externals + 1
    /\ disk' = [disk EXCEPT ![p] = c]
    /\ disturbed' = TRUE
    /\ call' = IF call = NoCall THEN call ELSE [call EXCEPT !.clean = FALSE]
    /\ UNCHANGED <<guardVars, readLedger, latest, result, rewind, was, calls>>

GuardMoves == GuardStep /\ UNCHANGED workspaceVars
ModeMoves == (Toggle \/ SetMode) /\ UNCHANGED workspaceVars

WorkspaceNext ==
    \/ \E tool \in {"read", "edit", "write", "patch"} : \E work \in Works(tool) : Begin(tool, work)
    \/ Refused \/ Authorised \/ Read
    \/ \E known, fits \in BOOLEAN : Load(known, fits)
    \/ Checkpoint \/ Commit \/ Rollback
    \/ BeginRewind \/ RestoreOne \/ EndRewind
    \/ \E p \in Paths, c \in Foreign : External(p, c)
    \/ GuardMoves \/ ModeMoves

-----------------------------------------------------------------------------
(* Properties.                                                             *)

WorkspaceTypeOK ==
    /\ disk \in [Paths -> Contents \cup {Absent}]
    /\ readLedger \subseteq Paths
    /\ \A i \in DOMAIN latest : latest[i].path \in Paths \ Outside /\ latest[i].content # Big
    /\ call.at \in {"none", "authorise", "load", "checkpoint", "commit", "rollback"}
    /\ result \in {"none", "ok", "failed", "failed and torn"}

\* A path is changed by a call only after the guard granted that very path to it:
\* by a yes of the user to this action, or because auto-accept was in force at some
\* moment of the request; trusting the workspace is no yes to a change.
EveryChangeConsented ==
    /\ call.at \in {"checkpoint", "commit", "rollback"} =>
          \A i \in DOMAIN call.work : call.work[i].path \in call.consented
    /\ (request.at = "granted" /\ request.action \in Mutating) => request.yes \/ request.auto
    /\ request.at = "granted" => request.place # "sensitive"
    /\ (request.at = "granted" /\ request.place = "outside" /\ request.action # "shell") => request.outside

\* /rewind undoes the newest change whole: once it has run to its end, and nobody
\* else has changed a file since, the workspace is as it was before the call that
\* made the checkpoint, files that call created or deleted among them.  Big files
\* are the exception the tool warns of (files.go:428-442).
RewindIsExact ==
    (rewind.active /\ rewind.todo = <<>> /\ rewind.clean /\ ~disturbed) =>
        \A p \in Paths \ Outside : was[p] # Big => disk[p] = was[p]

\* A patch is all or nothing: one that fails leaves every file as it was, unless a
\* write of the rollback failed too or somebody else changed files meanwhile.
PatchAllOrNothing ==
    [][(call.tool = "patch" /\ call'.tool = "none" /\ result' = "failed" /\ call.clean)
         => disk' = call.start]_<<call, disk, result>>
=============================================================================
