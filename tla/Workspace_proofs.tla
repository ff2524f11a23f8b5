-------------------------- MODULE Workspace_proofs --------------------------
(***************************************************************************)
(* What holds of the workspace tools for every set of files, every patch   *)
(* size and any number of calls: changes are consented to, a rewind nobody *)
(* crossed is exact, a failed patch leaves nothing behind, and credential  *)
(* files are never written.                                                *)
(*                                                                         *)
(* GuardInv follows a request through the guard; ShapeInv is the type of a *)
(* call and of a restore.  ConsentOfCall, RewindInv and PatchInv relate a  *)
(* call under way to the guard, the checkpoint and the disk.               *)
(*                                                                         *)
(* And of what a session reads from the project's files and its own: the   *)
(* skills, the to-dos and the memory, for any sessions, names and lists.   *)
(* MemoryInv says what a call that will write a file over knows of it.     *)
(*                                                                         *)
(* And of the two gates a shell command passes, for every command; and of  *)
(* the text of one file, for any letters, edits and diffs.                 *)
(***************************************************************************)
EXTENDS Workspace, AtHand, ShellGates, TextEdit, FoldLemmas, SequenceTheorems, FiniteSetTheorems, TLAPS

-----------------------------------------------------------------------------
(* The guard.                                                              *)

Actions == Mutating \cup {"read", "none"}
Asking == {"ask outside", "ask trust", "ask"}
Steps == {"none", "place", "classify", "trust", "mode", "granted", "denied"} \cup Asking

\* The steps behind the look at the place, and behind the question about outside.
Placed == {"ask outside", "trust", "ask trust", "mode", "ask", "granted"}
Admitted == Placed \ {"ask outside"}

Requests == [action : Actions, place : Places, risk : Risks, at : Steps,
             yes : BOOLEAN, auto : BOOLEAN, outside : BOOLEAN]

GuardTypeOK == /\ request \in Requests /\ mode \in Modes /\ setting \in Modes
               /\ \A order \in orders : order.mode \in Modes

PlaceInv ==
    /\ request.at = "classify" => request.action = "shell"
    /\ request.at \in Placed => request.place # "sensitive"
    /\ request.at \in Admitted /\ request.place = "outside" /\ request.action # "shell" =>
          request.outside

ConsentInv ==
    request.at = "granted" /\ request.action \in Mutating => request.yes \/ request.auto

GuardInv == GuardTypeOK /\ PlaceInv /\ ConsentInv

\* A request moves on: what it asks for stays.
LEMMA MovedRequest ==
    ASSUME GuardTypeOK, NEW step \in Steps, MoveTo(step)
    PROVE  /\ request' \in Requests /\ request'.at = step
           /\ request'.action = request.action /\ request'.place = request.place
           /\ request'.outside = request.outside /\ request'.yes = request.yes
           /\ mode = "auto-accept" => request'.auto
<1> DEFINE auto == request.auto \/ mode = "auto-accept"
<1>1. auto \in BOOLEAN /\ (mode = "auto-accept" => auto)
  OBVIOUS
<1>2. request' = [request EXCEPT !.at = step, !.auto = auto]
  BY DEF MoveTo
<1> HIDE DEF auto
<1>3. /\ request' \in Requests /\ request'.at = step /\ request'.auto = auto
      /\ request'.action = request.action /\ request'.place = request.place
      /\ request'.outside = request.outside /\ request'.yes = request.yes
  BY <1>1, <1>2 DEF GuardTypeOK, Requests
<1> QED BY <1>1, <1>3

LEMMA FreshRequest ==
    ASSUME NEW action \in Actions, NEW place \in Places, NEW risk \in Risks,
           Request(action, place, risk)
    PROVE  /\ request' \in Requests /\ request'.action = action /\ request'.place = place
           /\ request'.at = IF action = "shell" THEN "classify" ELSE "place"
  BY DEF Request, NoRequest, Requests, Actions, Places, Risks, Steps, Asking

LEMMA NoRequestIs ==
    NoRequest \in Requests /\ NoRequest.at = "none"
  BY DEF NoRequest, Requests, Actions, Places, Risks, Steps, Asking

\* A request that has not passed the guard has nothing to show.
LEMMA UnplacedIsFine ==
    ASSUME GuardInv, request' \in Requests, UNCHANGED modeVars,
           request'.at \in {"none", "place", "denied"} \/ (request'.at = "classify" /\ request'.action = "shell")
    PROVE  GuardInv'
<1>1. request'.at \notin Placed
  BY DEF Placed
<1> QED BY <1>1 DEF GuardInv, GuardTypeOK, PlaceInv, ConsentInv, Placed, Admitted, modeVars

\* A step of the guard leaves the request its action and its place.
LEMMA GuardStepKeeps ==
    ASSUME GuardInv, GuardStep
    PROVE  /\ GuardInv' /\ request'.action = request.action /\ request'.place = request.place
           /\ request.at \notin {"none", "granted", "denied"} /\ request'.at # "none"
<1> USE DEF GuardInv, PlaceInv, ConsentInv
<1>0. GuardTypeOK /\ request \in Requests
  BY DEF GuardTypeOK
<1>1. CASE Place
  <2>1. PICK step \in {"denied", "ask outside", "trust", "granted"} :
           /\ MoveTo(step) /\ request.at = "place"
           /\ step # "denied" => request.place # "sensitive"
           /\ step \in {"trust", "granted"} => request.place # "outside"
           /\ step = "granted" => request.action \notin Mutating
    BY <1>1 DEF Place
  <2>2. step \in Steps /\ UNCHANGED <<mode, setting, orders>>
    BY <1>1 DEF Steps, Asking, Place, modeVars
  <2>3. /\ request' \in Requests /\ request'.at = step
        /\ request'.action = request.action /\ request'.place = request.place
    BY <1>0, <2>1, <2>2, MovedRequest
  <2> QED BY <1>0, <2>1, <2>2, <2>3 DEF GuardTypeOK, Placed, Admitted
<1>2. CASE Classify
  <2>1. PICK step \in {"denied", "trust"} :
           /\ MoveTo(step) /\ request.at = "classify"
           /\ step # "denied" => request.place # "sensitive"
    BY <1>2 DEF Classify
  <2>2. step \in Steps /\ UNCHANGED <<mode, setting, orders>>
    BY <1>2 DEF Steps, Asking, Classify, modeVars
  <2>3. /\ request' \in Requests /\ request'.at = step
        /\ request'.action = request.action /\ request'.place = request.place
    BY <1>0, <2>1, <2>2, MovedRequest
  <2> QED BY <1>0, <2>1, <2>2, <2>3 DEF GuardTypeOK, Placed, Admitted
<1>3. CASE EnsureTrusted
  <2>1. PICK step \in {"mode", "ask trust", "denied"} : MoveTo(step) /\ request.at = "trust"
    BY <1>3 DEF EnsureTrusted
  <2>2. step \in Steps /\ UNCHANGED <<mode, setting, orders>>
    BY <1>3 DEF Steps, Asking, EnsureTrusted, modeVars
  <2>3. /\ request' \in Requests /\ request'.at = step /\ request'.outside = request.outside
        /\ request'.action = request.action /\ request'.place = request.place
    BY <1>0, <2>1, <2>2, MovedRequest
  <2> QED BY <1>0, <2>1, <2>2, <2>3 DEF GuardTypeOK, Placed, Admitted
<1>4. CASE LastLook
  <2>1. PICK step \in {"granted", "ask"} :
           /\ MoveTo(step) /\ request.at = "mode"
           /\ step = "granted" => mode = "auto-accept"
    BY <1>4 DEF LastLook
  <2>2. step \in Steps /\ UNCHANGED <<mode, setting, orders>>
    BY <1>4 DEF Steps, Asking, LastLook, modeVars
  <2>3. /\ request' \in Requests /\ request'.at = step /\ request'.outside = request.outside
        /\ request'.action = request.action /\ request'.place = request.place
        /\ mode = "auto-accept" => request'.auto
    BY <1>0, <2>1, <2>2, MovedRequest
  <2> QED BY <1>0, <2>1, <2>2, <2>3 DEF GuardTypeOK, Placed, Admitted
<1>5. ASSUME NEW yes \in BOOLEAN, Answer(yes)
      PROVE  /\ GuardInv' /\ request'.action = request.action /\ request'.place = request.place
             /\ request.at \notin {"none", "granted", "denied"} /\ request'.at # "none"
  <2>0. request.at \in Asking /\ UNCHANGED <<mode, setting, orders>>
    BY <1>5 DEF Answer, Asking, modeVars
  <2>1. CASE \E step \in {"denied", "mode"} :
                MoveTo(step) /\ (step = "mode" => request.at = "ask trust")
    <3>1. PICK step \in {"denied", "mode"} :
             MoveTo(step) /\ (step = "mode" => request.at = "ask trust")
      BY <2>1
    <3>2. /\ request' \in Requests /\ request'.at = step /\ request'.outside = request.outside
          /\ request'.action = request.action /\ request'.place = request.place
      BY <1>0, <3>1, MovedRequest DEF Steps
    <3> QED BY <1>0, <2>0, <3>1, <3>2 DEF GuardTypeOK, Placed, Admitted, Asking
  <2>2. CASE /\ request.at = "ask outside"
             /\ request' = [request EXCEPT !.outside = TRUE,
                              !.at = IF request.action \in Mutating THEN "trust" ELSE "granted"]
    <3>1. /\ request' \in Requests /\ request'.outside
          /\ request'.action = request.action /\ request'.place = request.place
          /\ request'.at = IF request.action \in Mutating THEN "trust" ELSE "granted"
      BY <1>0, <2>2 DEF Requests, Steps
    <3>2. request'.place # "sensitive"
      BY <2>2, <3>1 DEF Placed
    <3>3. /\ request'.at \in {"trust", "granted"}
          /\ request'.at = "granted" => request'.action \notin Mutating
      BY <3>1
    <3> QED BY <1>0, <2>0, <3>1, <3>2, <3>3 DEF GuardTypeOK, Placed, Admitted, Asking
  <2>3. CASE /\ request.at = "ask"
             /\ request' = [request EXCEPT !.at = "granted", !.yes = TRUE]
    <3>1. /\ request' \in Requests /\ request'.yes /\ request'.outside = request.outside
          /\ request'.action = request.action /\ request'.place = request.place
          /\ request'.at = "granted"
      BY <1>0, <2>3 DEF Requests, Steps
    <3> QED BY <1>0, <2>0, <2>3, <3>1 DEF GuardTypeOK, Placed, Admitted, Asking
  <2> QED BY <1>5, <2>0, <2>1, <2>2, <2>3 DEF Answer, Asking
<1> QED BY <1>1, <1>2, <1>3, <1>4, <1>5 DEF GuardStep

LEMMA ModeStepKeeps ==
    ASSUME GuardInv, Toggle \/ SetMode
    PROVE  GuardInv' /\ request' = request
<1>1. CASE Toggle
  <2>1. Other(setting) \in Modes
    BY DEF Other, Modes
  <2>2. \A order \in orders' : order.mode \in Modes
    <3> DEFINE new == [n |-> toggles, mode |-> Other(setting)]
    <3>1. new.mode \in Modes /\ orders' = orders \cup {new}
      BY <1>1, <2>1 DEF Toggle
    <3> HIDE DEF new
    <3> QED BY <3>1 DEF GuardInv, GuardTypeOK
  <2> QED BY <1>1, <2>1, <2>2 DEF Toggle, GuardInv, GuardTypeOK, PlaceInv, ConsentInv
<1>2. CASE SetMode
  BY <1>2 DEF SetMode, GuardInv, GuardTypeOK, PlaceInv, ConsentInv
<1> QED BY <1>1, <1>2

-----------------------------------------------------------------------------
(* The shape of a call and of a restore.                                   *)

Tools == {"read", "edit", "write", "patch"}
Held == Contents \cup {Absent}
Disks == [Paths -> Held]
Jobs == [path : Paths, to : Held]
CallSteps == {"none", "authorise", "load", "checkpoint", "commit", "rollback"}

CallRecords == [tool : Tools \cup {"none"}, at : CallSteps, work : Seq(Jobs), i : Nat,
                before : Seq(Held), consented : SUBSET Paths, start : Disks \cup {<<>>},
                clean : BOOLEAN]

Snaps == [path : Paths, content : Held]
Restores == [active : BOOLEAN, todo : Seq(Snaps), clean : BOOLEAN]

CallShape ==
    /\ call \in CallRecords /\ disk \in Disks
    /\ call.at = "none" => call = NoCall
    /\ call.at # "none" => call.tool \in Tools /\ call.i \in DOMAIN call.work /\ call.start \in Disks
    /\ call.at \in {"authorise", "load"} => Len(call.before) = call.i - 1
    /\ call.at \in {"checkpoint", "commit", "rollback"} => Len(call.before) = Len(call.work)

RestoreShape == latest \in Seq(Snaps) /\ rewind \in Restores

ShapeInv == CallShape /\ RestoreShape

LEMMA NoCallIs ==
    /\ NoCall \in CallRecords /\ NoCall.at = "none" /\ NoCall.tool = "none" /\ NoCall.clean
    /\ NoCall.consented = {}
<1>1. <<>> \in Seq(Jobs) /\ <<>> \in Seq(Held)
  OBVIOUS
<1> QED BY <1>1 DEF NoCall, CallRecords, CallSteps

LEMMA NoRewindIs == NoRewind \in Restores /\ ~NoRewind.active /\ NoRewind.todo = <<>>
<1>1. <<>> \in Seq(Snaps)
  OBVIOUS
<1> QED BY <1>1 DEF NoRewind, Restores

LEMMA WorksAre ==
    ASSUME NEW tool \in Tools, NEW work \in Works(tool)
    PROVE  work \in Seq(Jobs) /\ 1 \in DOMAIN work /\ work[1].path \in Paths
<1>1. Targets \subseteq Held /\ MaxPatch \in Nat /\ Absent \in Held
  BY WorkspaceAssumption DEF Held
<1>2. CASE tool = "read"
  <2>1. PICK p \in Paths : work = <<[path |-> p, to |-> Absent]>>
    BY <1>2 DEF Works
  <2>2. [path |-> p, to |-> Absent] \in Jobs
    BY <1>1 DEF Jobs
  <2> QED BY <2>1, <2>2
<1>3. CASE tool \in {"edit", "write"}
  <2>1. PICK p \in Paths, c \in Targets : work = <<[path |-> p, to |-> c]>>
    BY <1>3 DEF Works
  <2>2. [path |-> p, to |-> c] \in Jobs
    BY <1>1 DEF Jobs
  <2> QED BY <2>1, <2>2
<1>4. CASE tool = "patch"
  <2>1. PICK n \in 1 .. MaxPatch : work \in [1 .. n -> [path : Paths, to : Targets \cup {Absent}]]
    BY <1>4 DEF Works
  <2>2. [path : Paths, to : Targets \cup {Absent}] \subseteq Jobs
    BY <1>1 DEF Jobs
  <2>3. \A j \in Jobs : j.path \in Paths
    BY DEF Jobs
  <2> HIDE DEF Jobs
  <2>4. work \in [1 .. n -> Jobs] /\ n \in Nat /\ 1 \in 1 .. n
    BY <1>1, <2>1, <2>2
  <2> QED BY <2>3, <2>4
<1> QED BY <1>2, <1>3, <1>4 DEF Tools

\* The file a call is at.
LEMMA CurrentIs ==
    ASSUME ShapeInv, call.at # "none"
    PROVE  /\ Current = call.work[call.i] /\ Current \in Jobs
           /\ Current.path \in Paths /\ Current.to \in Held
           /\ call.i \in 1 .. Len(call.work) /\ Len(call.work) \in Nat
           /\ DOMAIN call.work = 1 .. Len(call.work)
           /\ AtEnd \/ call.i + 1 \in DOMAIN call.work
           /\ \A j \in DOMAIN call.work : call.work[j].path \in Paths
<1>1. call.work \in Seq(Jobs) /\ call.i \in DOMAIN call.work
  BY DEF ShapeInv, CallShape, CallRecords
<1>2. \A j \in DOMAIN call.work : call.work[j] \in Jobs
  BY <1>1
<1>3. \A j \in Jobs : j.path \in Paths /\ j.to \in Held
  BY DEF Jobs
<1>4. /\ call.i \in 1 .. Len(call.work) /\ Len(call.work) \in Nat
      /\ DOMAIN call.work = 1 .. Len(call.work)
      /\ AtEnd \/ call.i + 1 \in DOMAIN call.work
  BY <1>1 DEF AtEnd
<1> QED BY <1>1, <1>2, <1>3, <1>4 DEF Current

-----------------------------------------------------------------------------
(* What each step makes of the call.                                       *)

SameWork == call'.tool = call.tool /\ call'.work = call.work /\ call'.start = call.start

LEMMA BegunCall ==
    ASSUME ShapeInv, NEW tool \in Tools, NEW work \in Works(tool), Begin(tool, work)
    PROVE  /\ call' \in CallRecords /\ call'.tool = tool /\ call'.at = "authorise"
           /\ call'.work = work /\ call'.i = 1 /\ call'.before = <<>>
           /\ call'.consented = {} /\ call'.start = disk /\ call'.clean = ~rewind.active
<1>1. work \in Seq(Jobs) /\ disk \in Disks /\ rewind.active \in BOOLEAN
  BY WorksAre DEF ShapeInv, CallShape, RestoreShape, Restores
<1>2. call' = [NoCall EXCEPT !.tool = tool, !.at = "authorise", !.work = work, !.start = disk,
                             !.clean = ~rewind.active]
  BY DEF Begin
<1>3. /\ call'.tool = tool /\ call'.at = "authorise" /\ call'.work = work /\ call'.i = 1
      /\ call'.before = <<>> /\ call'.consented = {} /\ call'.start = disk
      /\ call'.clean = ~rewind.active
  BY <1>2 DEF NoCall
<1>4. call' \in CallRecords
  <2> DEFINE clean == ~rewind.active
  <2>1. clean \in BOOLEAN /\ "authorise" \in CallSteps
    BY DEF CallSteps
  <2> HIDE DEF clean
  <2>2. call' = [NoCall EXCEPT !.tool = tool, !.at = "authorise", !.work = work, !.start = disk,
                               !.clean = clean]
    BY <1>2 DEF clean
  <2> QED BY <1>1, <2>1, <2>2, NoCallIs DEF CallRecords
<1> QED BY <1>3, <1>4

LEMMA AuthorisedCall ==
    ASSUME ShapeInv, Authorised
    PROVE  /\ call' \in CallRecords /\ SameWork /\ call'.at = "load" /\ call'.i = call.i
           /\ call'.before = call.before /\ call'.clean = call.clean
           /\ call'.consented = call.consented \cup {Current.path}
<1>1. call \in CallRecords /\ Current.path \in Paths
  BY CurrentIs DEF ShapeInv, CallShape, Authorised
<1>2. call' = [call EXCEPT !.at = "load", !.consented = @ \cup {Current.path}]
  BY DEF Authorised
<1> HIDE DEF Current
<1> QED BY <1>1, <1>2 DEF CallRecords, CallSteps, SameWork

\* A call that has loaded a file goes on to the next, or to the checkpoint.
LEMMA LoadedCall ==
    ASSUME ShapeInv, NEW known, NEW fits, Load(known, fits), call' # NoCall
    PROVE  /\ call' \in CallRecords /\ SameWork
           /\ call'.before = Append(call.before, disk[Current.path])
           /\ call'.clean = call.clean /\ call'.consented = call.consented
           /\ AtEnd => call'.at = "checkpoint" /\ call'.i = 1
           /\ ~AtEnd => call'.at = "authorise" /\ call'.i = call.i + 1
<1> DEFINE now == disk[Current.path]
           next == IF AtEnd THEN 1 ELSE call.i + 1
           step == IF AtEnd THEN "checkpoint" ELSE "authorise"
<1>1. call \in CallRecords /\ now \in Held
  BY CurrentIs DEF ShapeInv, CallShape, Load, Disks
<1>2. call' = [call EXCEPT !.before = Append(@, now), !.i = next, !.at = step]
  BY DEF Load, End
<1>3. next \in Nat /\ step \in CallSteps /\ Append(call.before, now) \in Seq(Held)
  BY <1>1 DEF CallRecords, CallSteps
<1>4. /\ AtEnd => next = 1 /\ step = "checkpoint"
      /\ ~AtEnd => next = call.i + 1 /\ step = "authorise"
  OBVIOUS
<1> HIDE DEF now, next, step
<1>5. /\ call' \in CallRecords /\ SameWork /\ call'.before = Append(call.before, now)
      /\ call'.clean = call.clean /\ call'.consented = call.consented
      /\ call'.at = step /\ call'.i = next
  BY <1>1, <1>2, <1>3 DEF CallRecords, SameWork
<1> QED BY <1>4, <1>5 DEF now

\* The steps that only move the call on, and the interference of others.
Moved(step, i, clean) ==
    /\ call' \in CallRecords /\ SameWork /\ call'.at = step /\ call'.i = i
    /\ call'.before = call.before /\ call'.clean = clean /\ call'.consented = call.consented

Onward(step, i, clean) == [call EXCEPT !.at = step, !.i = i, !.clean = clean]

LEMMA MovedCall ==
    ASSUME call \in CallRecords, NEW step \in CallSteps, NEW i \in Nat, NEW clean \in BOOLEAN,
           call' = Onward(step, i, clean)
    PROVE  Moved(step, i, clean)
  BY DEF CallRecords, Moved, SameWork, Onward

LEMMA CheckpointedCall ==
    ASSUME ShapeInv, Checkpoint, call' # NoCall
    PROVE  Moved("commit", call.i, call.clean)
<1>1. call \in CallRecords /\ call' = [call EXCEPT !.at = "commit"]
  BY DEF ShapeInv, CallShape, Checkpoint, End
<1>2. call.i \in Nat /\ call.clean \in BOOLEAN /\ "commit" \in CallSteps
  BY <1>1 DEF CallRecords, CallSteps
<1>3. call' = Onward("commit", call.i, call.clean)
  BY <1>1 DEF CallRecords, Onward
<1> QED BY <1>1, <1>2, <1>3, MovedCall

LEMMA CommittedCall ==
    ASSUME ShapeInv, Commit, call' # NoCall
    PROVE  \/ Moved("commit", call.i + 1, call.clean) /\ ~AtEnd
              /\ disk' = [disk EXCEPT ![Current.path] = Current.to]
           \/ Moved("rollback", call.i - 1, call.clean) /\ call.i # 1 /\ disk' = disk
<1>1. /\ call \in CallRecords /\ call.i \in Nat /\ call.clean \in BOOLEAN
      /\ call.i - 1 \in Nat
  <2>1. call.i \in 1 .. Len(call.work) /\ Len(call.work) \in Nat
    BY CurrentIs DEF Commit
  <2> QED BY <2>1 DEF ShapeInv, CallShape, CallRecords
<1>2. \/ /\ call' = [call EXCEPT !.i = @ + 1] /\ ~AtEnd /\ call.at = "commit"
         /\ disk' = [disk EXCEPT ![Current.path] = Current.to]
      \/ call' = [call EXCEPT !.at = "rollback", !.i = @ - 1] /\ call.i # 1 /\ disk' = disk
  BY DEF Commit, End
<1>3. \/ /\ call' = Onward("commit", call.i + 1, call.clean) /\ ~AtEnd
         /\ disk' = [disk EXCEPT ![Current.path] = Current.to]
      \/ /\ call' = Onward("rollback", call.i - 1, call.clean)
         /\ call.i # 1 /\ disk' = disk
  BY <1>1, <1>2 DEF CallRecords, Onward
<1>4. {"commit", "rollback"} \subseteq CallSteps /\ call.i + 1 \in Nat
  BY <1>1 DEF CallSteps
<1> QED BY <1>1, <1>3, <1>4, MovedCall

LEMMA RolledBackCall ==
    ASSUME ShapeInv, Rollback
    PROVE  \E done \in BOOLEAN :
              /\ disk' = IF done THEN [disk EXCEPT ![Current.path] = call.before[call.i]] ELSE disk
              /\ \/ /\ call' = NoCall /\ request' = NoRequest /\ call.i = 1
                    /\ result' = IF done /\ call.clean THEN "failed" ELSE "failed and torn"
                 \/ /\ Moved("rollback", call.i - 1, call.clean /\ done) /\ call.i # 1
                    /\ request' = request
<1>1. PICK done \in BOOLEAN :
         /\ disk' = IF done THEN [disk EXCEPT ![Current.path] = call.before[call.i]] ELSE disk
         /\ \/ /\ End(IF done /\ call.clean THEN "failed" ELSE "failed and torn") /\ call.i = 1
            \/ /\ call' = [call EXCEPT !.i = @ - 1, !.clean = @ /\ done] /\ call.i # 1
               /\ request' = request
  BY DEF Rollback
<1>2. CASE call.i = 1
  BY <1>1, <1>2 DEF End
<1>3. CASE call.i # 1
  <2>1. call.i \in Nat /\ call.i - 1 \in Nat /\ call \in CallRecords /\ call.at = "rollback"
    <3>1. call.i \in 1 .. Len(call.work) /\ Len(call.work) \in Nat
      BY CurrentIs DEF Rollback
    <3>2. call \in CallRecords /\ call.at = "rollback"
      BY DEF ShapeInv, CallShape, Rollback
    <3> QED BY <1>3, <3>1, <3>2
  <2> DEFINE clean == call.clean /\ done
  <2>2. clean \in BOOLEAN
    OBVIOUS
  <2>3. call' = [call EXCEPT !.i = call.i - 1, !.clean = clean]
    BY <1>1, <1>3
  <2> HIDE DEF clean
  <2>4. call' = Onward("rollback", call.i - 1, clean)
    BY <2>1, <2>3 DEF CallRecords, Onward
  <2>5. Moved("rollback", call.i - 1, clean)
    BY <2>1, <2>2, <2>4, MovedCall DEF CallSteps
  <2> QED BY <1>1, <1>3, <2>5 DEF clean
<1> QED BY <1>2, <1>3

LEMMA DisturbedCall ==
    ASSUME ShapeInv, call' = IF call = NoCall THEN call ELSE [call EXCEPT !.clean = FALSE]
    PROVE  \/ call' = call /\ call = NoCall
           \/ Moved(call.at, call.i, FALSE) /\ call # NoCall /\ call.at # "none"
<1>1. call \in CallRecords /\ (call.at = "none" => call = NoCall)
  BY DEF ShapeInv, CallShape
<1>2. call.at \in CallSteps /\ call.i \in Nat
  BY <1>1 DEF CallRecords
<1>3. CASE call # NoCall
  <2>1. call' = Onward(call.at, call.i, FALSE)
    BY <1>1, <1>3 DEF CallRecords, Onward
  <2> QED BY <1>1, <1>2, <1>3, <2>1, MovedCall
<1> QED BY <1>3

-----------------------------------------------------------------------------
(* The checkpoint.                                                         *)

\* A snapshot holds each file of the call as it is, but for those outside and the big ones.
LEMMA SnapshotsAre ==
    ASSUME ShapeInv, call.at # "none", NEW taken \in Snapshots(call.work)
    PROVE  /\ taken \in Seq(Snaps)
           /\ \A k \in DOMAIN taken : /\ taken[k].content = disk[taken[k].path]
                                      /\ taken[k].path \in Paths \ Outside
                                      /\ \E j \in DOMAIN call.work : call.work[j].path = taken[k].path
           /\ \A j \in DOMAIN call.work : \/ call.work[j].path \in Outside
                                          \/ disk[call.work[j].path] = Big
                                          \/ \E k \in DOMAIN taken : taken[k].path = call.work[j].path
<1>1. PICK seq \in Orders(call.work) :
         taken = [k \in DOMAIN seq |-> [path |-> seq[k], content |-> disk[seq[k]]]]
  BY DEF Snapshots
<1>2. PICK n \in 0 .. Len(call.work) : seq \in Bijection(1 .. n, Kept(call.work))
  BY <1>1 DEF Orders
<1>3. /\ seq \in [1 .. n -> Kept(call.work)]
      /\ \A p \in Kept(call.work) : \E k \in 1 .. n : seq[k] = p
  BY <1>2 DEF Bijection, Injection, Surjection
<1>4. n \in Nat
  <2>1. Len(call.work) \in Nat
    BY CurrentIs
  <2> QED BY <1>2, <2>1
<1>5. \A p \in Kept(call.work) : /\ p \in Paths \ Outside
                                 /\ \E j \in DOMAIN call.work : call.work[j].path = p
  BY CurrentIs DEF Kept, Range
<1>6. \A j \in DOMAIN call.work : \/ call.work[j].path \in Outside
                                  \/ disk[call.work[j].path] = Big
                                  \/ call.work[j].path \in Kept(call.work)
  BY DEF Kept, Range
<1>7. DOMAIN taken = 1 .. n /\ \A k \in 1 .. n : taken[k] = [path |-> seq[k], content |-> disk[seq[k]]]
  BY <1>1, <1>3
<1>8. \A k \in 1 .. n : /\ taken[k] \in Snaps /\ taken[k].path = seq[k]
                        /\ taken[k].content = disk[seq[k]]
  <2>1. \A k \in 1 .. n : seq[k] \in Paths /\ disk[seq[k]] \in Held
    BY <1>3, <1>5 DEF ShapeInv, CallShape, Disks
  <2> QED BY <1>7, <2>1 DEF Snaps
<1>9. taken \in Seq(Snaps)
  <2>1. taken = [k \in 1 .. n |-> taken[k]]
    BY <1>1, <1>7
  <2> QED BY <1>4, <1>8, <2>1
<1>10. \A k \in DOMAIN taken :
          /\ taken[k].content = disk[taken[k].path] /\ taken[k].path \in Paths \ Outside
          /\ \E j \in DOMAIN call.work : call.work[j].path = taken[k].path
  <2>1. \A k \in 1 .. n : seq[k] \in Kept(call.work)
    BY <1>3
  <2> QED BY <1>5, <1>7, <1>8, <2>1
<1>11. \A p \in Kept(call.work) : \E k \in DOMAIN taken : taken[k].path = p
  BY <1>3, <1>7, <1>8
<1> QED BY <1>6, <1>9, <1>10, <1>11

-----------------------------------------------------------------------------
(* The shape is kept.                                                      *)

Ended == call' = NoCall /\ request' = NoRequest

LEMMA EndedShape ==
    ASSUME ShapeInv, call' = NoCall, disk' \in Disks
    PROVE  CallShape'
  BY NoCallIs DEF CallShape

LEMMA MovedShape ==
    ASSUME ShapeInv, call.at \in {"checkpoint", "commit", "rollback"},
           NEW step \in {"commit", "rollback"}, NEW i, NEW clean, Moved(step, i, clean),
           i \in DOMAIN call.work, disk' \in Disks
    PROVE  CallShape'
  BY DEF ShapeInv, CallShape, Moved, SameWork

\* One file is written: by a call, a restore or somebody else.
LEMMA OneWritten ==
    ASSUME ShapeInv, NEW p \in Paths, NEW c \in Held
    PROVE  /\ [disk EXCEPT ![p] = c] \in Disks
           /\ [disk EXCEPT ![p] = c][p] = c
           /\ \A q \in Paths : q # p => [disk EXCEPT ![p] = c][q] = disk[q]
  BY DEF ShapeInv, CallShape, Disks

LEMMA CommitDisk ==
    ASSUME ShapeInv, Commit
    PROVE  /\ disk' \in Disks
           /\ disk' = disk \/ disk' = [disk EXCEPT ![Current.path] = Current.to]
<1>1. disk' = disk \/ disk' = [disk EXCEPT ![Current.path] = Current.to]
  BY DEF Commit
<1>2. [disk EXCEPT ![Current.path] = Current.to] \in Disks /\ disk \in Disks
  BY CurrentIs, OneWritten DEF Commit, ShapeInv, CallShape
<1> QED BY <1>1, <1>2

LEMMA RollbackDisk ==
    ASSUME ShapeInv, Rollback
    PROVE  /\ disk' \in Disks /\ call.i \in DOMAIN call.before
           /\ disk' = disk \/ disk' = [disk EXCEPT ![Current.path] = call.before[call.i]]
<1>1. call.at = "rollback" /\ call \in CallRecords /\ disk \in Disks
      /\ Len(call.before) = Len(call.work)
  BY DEF Rollback, ShapeInv, CallShape
<1>2. call.i \in DOMAIN call.before /\ call.before[call.i] \in Held
  <2>1. call.before \in Seq(Held)
    BY <1>1 DEF CallRecords
  <2> QED BY <1>1, <2>1, CurrentIs
<1>3. disk' = disk \/ disk' = [disk EXCEPT ![Current.path] = call.before[call.i]]
  BY DEF Rollback
<1> QED BY <1>1, <1>2, <1>3, CurrentIs, OneWritten

LEMMA CommitShape ==
    ASSUME ShapeInv, Commit
    PROVE  ShapeInv'
<1>1. /\ latest' = latest /\ rewind' = rewind /\ call.at = "commit"
  BY DEF Commit
<1>2. CASE call' = NoCall
  BY <1>1, <1>2, CommitDisk, EndedShape DEF ShapeInv, RestoreShape
<1>3. CASE call' # NoCall
  <2>1. \/ Moved("commit", call.i + 1, call.clean) /\ ~AtEnd
        \/ Moved("rollback", call.i - 1, call.clean) /\ call.i # 1
    BY <1>3, CommittedCall
  <2>2. /\ ~AtEnd => call.i + 1 \in DOMAIN call.work
        /\ call.i # 1 => call.i - 1 \in DOMAIN call.work
    <3>1. /\ call.i \in 1 .. Len(call.work) /\ DOMAIN call.work = 1 .. Len(call.work)
          /\ AtEnd \/ call.i + 1 \in DOMAIN call.work
          /\ Len(call.work) \in Nat
      BY <1>1, CurrentIs
    <3> QED BY <3>1
  <2>3. CallShape'
    BY <1>1, <2>1, <2>2, CommitDisk, MovedShape
  <2> QED BY <1>1, <2>3 DEF ShapeInv, RestoreShape
<1> QED BY <1>2, <1>3

LEMMA RollbackShape ==
    ASSUME ShapeInv, Rollback
    PROVE  ShapeInv'
<1>1. /\ latest' = latest /\ rewind' = rewind /\ call.at = "rollback"
  BY DEF Rollback
<1>2. \/ call' = NoCall
      \/ \E clean \in BOOLEAN : Moved("rollback", call.i - 1, clean) /\ call.i # 1
  <2>1. call.clean \in BOOLEAN
    BY DEF ShapeInv, CallShape, CallRecords
  <2>2. PICK done \in BOOLEAN :
           \/ call' = NoCall
           \/ Moved("rollback", call.i - 1, call.clean /\ done) /\ call.i # 1
    BY RolledBackCall
  <2>3. (call.clean /\ done) \in BOOLEAN
    OBVIOUS
  <2> QED BY <2>2, <2>3
<1>3. CASE call' = NoCall
  BY <1>1, <1>3, RollbackDisk, EndedShape DEF ShapeInv, RestoreShape
<1>4. ASSUME NEW clean \in BOOLEAN, Moved("rollback", call.i - 1, clean), call.i # 1
      PROVE  ShapeInv'
  <2>1. call.i - 1 \in DOMAIN call.work
    <3>1. /\ call.i \in 1 .. Len(call.work) /\ DOMAIN call.work = 1 .. Len(call.work)
          /\ Len(call.work) \in Nat
      BY <1>1, CurrentIs
    <3> QED BY <1>4, <3>1
  <2>2. CallShape'
    BY <1>1, <1>4, <2>1, RollbackDisk, MovedShape
  <2> QED BY <1>1, <2>2 DEF ShapeInv, RestoreShape
<1> QED BY <1>2, <1>3, <1>4

LEMMA LoadShape ==
    ASSUME ShapeInv, NEW known, NEW fits, Load(known, fits)
    PROVE  ShapeInv'
<1>1. /\ disk' = disk /\ latest' = latest /\ rewind' = rewind /\ call.at = "load"
  BY DEF Load, diskVars
<1>2. CASE call' = NoCall
  BY <1>1, <1>2, EndedShape DEF ShapeInv, CallShape, RestoreShape
<1>3. CASE call' # NoCall
  <2>1. /\ call' \in CallRecords /\ SameWork
        /\ call'.before = Append(call.before, disk[Current.path])
        /\ AtEnd => call'.at = "checkpoint" /\ call'.i = 1
        /\ ~AtEnd => call'.at = "authorise" /\ call'.i = call.i + 1
    BY <1>3, LoadedCall
  <2>2. /\ call.i \in 1 .. Len(call.work) /\ DOMAIN call.work = 1 .. Len(call.work)
        /\ AtEnd \/ call.i + 1 \in DOMAIN call.work
        /\ Len(call.work) \in Nat /\ disk[Current.path] \in Held
    BY <1>1, CurrentIs DEF ShapeInv, CallShape, Disks
  <2>3. Len(call'.before) = Len(call.before) + 1 /\ Len(call.before) = call.i - 1
    <3>1. call.before \in Seq(Held)
      BY DEF ShapeInv, CallShape, CallRecords
    <3> QED BY <1>1, <2>1, <3>1 DEF ShapeInv, CallShape
  <2>4. CallShape'
    <3>1. /\ disk' \in Disks /\ call.tool \in Tools /\ call.start \in Disks
          /\ call'.tool = call.tool /\ call'.work = call.work /\ call'.start = call.start
      BY <1>1, <2>1 DEF ShapeInv, CallShape, SameWork
    <3>2. CASE AtEnd
      <4>1. Len(call'.before) = Len(call'.work) /\ call'.i \in DOMAIN call'.work
        BY <2>1, <2>2, <2>3, <3>1, <3>2 DEF AtEnd
      <4> QED BY <2>1, <3>1, <3>2, <4>1 DEF CallShape
    <3>3. CASE ~AtEnd
      <4>1. Len(call'.before) = call'.i - 1 /\ call'.i \in DOMAIN call'.work
        BY <2>1, <2>2, <2>3, <3>1, <3>3
      <4> QED BY <2>1, <3>1, <3>3, <4>1 DEF CallShape
    <3> QED BY <3>2, <3>3
  <2> QED BY <1>1, <2>4 DEF ShapeInv, RestoreShape
<1> QED BY <1>2, <1>3

LEMMA CheckpointShape ==
    ASSUME ShapeInv, Checkpoint
    PROVE  ShapeInv'
<1>1. /\ disk' = disk /\ rewind' = rewind /\ call.at = "checkpoint"
      /\ latest' \in Snapshots(call.work) \/ latest' = latest
  BY DEF Checkpoint
<1>2. RestoreShape'
  BY <1>1, SnapshotsAre DEF ShapeInv, RestoreShape
<1>3. CASE call' = NoCall
  BY <1>1, <1>2, <1>3, EndedShape DEF ShapeInv, CallShape
<1>4. CASE call' # NoCall
  <2>1. Moved("commit", call.i, call.clean) /\ call.i \in DOMAIN call.work
    BY <1>1, <1>4, CheckpointedCall DEF ShapeInv, CallShape
  <2>2. CallShape'
    BY <1>1, <2>1, MovedShape DEF ShapeInv, CallShape
  <2> QED BY <1>2, <2>2 DEF ShapeInv
<1> QED BY <1>3, <1>4

LEMMA AuthoriseShape ==
    ASSUME ShapeInv, \/ \E tool \in Tools : \E work \in Works(tool) : Begin(tool, work)
                     \/ Authorised
    PROVE  CallShape'
<1>1. ASSUME NEW tool \in Tools, NEW work \in Works(tool), Begin(tool, work)
      PROVE  CallShape'
  <2>1. /\ call' \in CallRecords /\ call'.tool = tool /\ call'.at = "authorise"
        /\ call'.work = work /\ call'.i = 1 /\ call'.before = <<>> /\ call'.start = disk
    BY <1>1, BegunCall
  <2>2. 1 \in DOMAIN work /\ disk' = disk /\ disk \in Disks
    BY <1>1, WorksAre DEF Begin, diskVars, ShapeInv, CallShape
  <2>3. Len(<<>>) = 1 - 1
    OBVIOUS
  <2> QED BY <2>1, <2>2, <2>3 DEF CallShape
<1>2. CASE Authorised
  <2>1. /\ call' \in CallRecords /\ SameWork /\ call'.at = "load" /\ call'.i = call.i
        /\ call'.before = call.before
    BY <1>2, AuthorisedCall
  <2>2. disk' = disk /\ call.at = "authorise"
    BY <1>2 DEF Authorised, diskVars
  <2> QED BY <2>1, <2>2 DEF ShapeInv, CallShape, SameWork
<1> QED BY <1>1, <1>2

LEMMA DisturbedShape ==
    ASSUME ShapeInv, disk' \in Disks,
           call' = IF call = NoCall THEN call ELSE [call EXCEPT !.clean = FALSE]
    PROVE  CallShape'
<1>1. CASE call' = call
  BY <1>1 DEF ShapeInv, CallShape
<1>2. CASE Moved(call.at, call.i, FALSE) /\ call.at # "none"
  BY <1>2 DEF ShapeInv, CallShape, Moved, SameWork
<1> QED BY <1>1, <1>2, DisturbedCall

\* The newest file of a restore, written or not.
LEMMA RestoredOne ==
    ASSUME ShapeInv, RestoreOne
    PROVE  LET file == Head(rewind.todo)
           IN  /\ file \in Snaps /\ file.path \in Paths /\ file.content \in Held
               /\ disk' \in Disks /\ rewind' \in Restores
               /\ \/ /\ disk' = [disk EXCEPT ![file.path] = file.content]
                     /\ rewind'.active /\ rewind'.clean = rewind.clean
                     /\ rewind'.todo = Tail(rewind.todo)
                  \/ rewind' = NoRewind /\ disk' = disk
<1> DEFINE file == Head(rewind.todo)
<1>1. rewind \in Restores /\ rewind.active /\ rewind.todo # <<>> /\ rewind.todo \in Seq(Snaps)
      /\ disk \in Disks
  BY DEF RestoreOne, ShapeInv, CallShape, RestoreShape, Restores
<1>2. file \in Snaps /\ Tail(rewind.todo) \in Seq(Snaps)
  BY <1>1
<1>3. file.path \in Paths /\ file.content \in Held
  BY <1>2 DEF Snaps
<1>4. \/ /\ disk' = [disk EXCEPT ![file.path] = file.content]
         /\ rewind' = [rewind EXCEPT !.todo = Tail(@)]
      \/ rewind' = NoRewind /\ disk' = disk
  BY DEF RestoreOne
<1> HIDE DEF file
<1>5. CASE rewind' = [rewind EXCEPT !.todo = Tail(@)]
           /\ disk' = [disk EXCEPT ![file.path] = file.content]
  <2>1. /\ rewind' \in Restores /\ rewind'.active = rewind.active
        /\ rewind'.clean = rewind.clean /\ rewind'.todo = Tail(rewind.todo)
    BY <1>1, <1>2, <1>5 DEF Restores
  <2>2. disk' \in Disks
    BY <1>3, <1>5, OneWritten
  <2> QED BY <1>1, <1>2, <1>3, <1>5, <2>1, <2>2 DEF file
<1>6. CASE rewind' = NoRewind /\ disk' = disk
  BY <1>1, <1>2, <1>3, <1>6, NoRewindIs DEF file
<1> QED BY <1>4, <1>5, <1>6

LEMMA ShapeInit ==
    ASSUME WorkspaceInit
    PROVE  ShapeInv
<1>1. disk \in Disks
  BY WorkspaceAssumption DEF WorkspaceInit, Disks, Held
<1>2. latest \in Seq(Snaps)
  BY DEF WorkspaceInit
<1> QED BY <1>1, <1>2, NoCallIs, NoRewindIs DEF WorkspaceInit, ShapeInv, CallShape, RestoreShape

LEMMA ShapeStep ==
    ASSUME ShapeInv, WorkspaceNext \/ UNCHANGED workspaceVars
    PROVE  ShapeInv'
<1> USE DEF ShapeInv
<1>1. ASSUME NEW tool \in Tools, NEW work \in Works(tool), Begin(tool, work)
      PROVE  ShapeInv'
  <2>1. latest' = latest /\ rewind' = [rewind EXCEPT !.clean = FALSE]
    BY <1>1 DEF Begin, diskVars
  <2>2. RestoreShape'
    BY <2>1 DEF RestoreShape, Restores
  <2> QED BY <1>1, <2>2, AuthoriseShape
<1>2. CASE Refused
  BY <1>2, EndedShape DEF Refused, End, diskVars, CallShape, RestoreShape
<1>3. CASE Authorised
  BY <1>3, AuthoriseShape DEF Authorised, diskVars, RestoreShape
<1>4. CASE Read
  BY <1>4, EndedShape DEF Read, End, CallShape, RestoreShape
<1>5. CASE BeginRewind
  <2>1. rewind' \in Restores
    BY <1>5 DEF BeginRewind, RestoreShape, Restores
  <2> QED BY <1>5, <2>1 DEF BeginRewind, diskVars, CallShape, RestoreShape
<1>6. CASE RestoreOne
  <2>1. disk' \in Disks /\ rewind' \in Restores
    BY <1>6, RestoredOne
  <2> QED BY <1>6, <2>1, DisturbedShape DEF RestoreOne, RestoreShape
<1>7. CASE EndRewind
  BY <1>7, NoRewindIs DEF EndRewind, diskVars, CallShape, RestoreShape
<1>8. ASSUME NEW p \in Paths, NEW c \in Foreign, External(p, c)
      PROVE  ShapeInv'
  <2>1. disk' \in Disks
    BY <1>8, WorkspaceAssumption, OneWritten DEF External, Held
  <2> QED BY <1>8, <2>1, DisturbedShape DEF External, RestoreShape
<1>9. CASE UNCHANGED workspaceVars
  BY <1>9 DEF workspaceVars, diskVars, CallShape, RestoreShape
<1> QED BY <1>1, <1>2, <1>3, <1>4, <1>5, <1>6, <1>7, <1>8, <1>9, LoadShape, CheckpointShape,
           CommitShape, RollbackShape DEF WorkspaceNext, Tools, GuardMoves, ModeMoves

-----------------------------------------------------------------------------
(* The guard, asked by the calls of a workspace.                           *)

WorkspaceSpec == PermissionsInit /\ WorkspaceInit /\ [][WorkspaceNext]_<<guardVars, workspaceVars>>

LEMMA GuardInit ==
    ASSUME PermissionsInit
    PROVE  GuardInv
  BY NoRequestIs DEF PermissionsInit, GuardInv, GuardTypeOK, PlaceInv, ConsentInv, Placed, Admitted

LEMMA PlaceOfIs == \A p : /\ PlaceOf(p) \in Places
                          /\ PlaceOf(p) = "sensitive" <=> p \in Protected
  BY DEF PlaceOf, Places

LEMMA AskedIsFine ==
    ASSUME GuardInv, UNCHANGED modeVars,
           \/ request' = NoRequest
           \/ \E tool \in Tools, p \in Paths : Request(tool, PlaceOf(p), "plain")
    PROVE  GuardInv'
<1>1. CASE request' = NoRequest
  BY <1>1, NoRequestIs, UnplacedIsFine
<1>2. ASSUME NEW tool \in Tools, NEW p \in Paths, Request(tool, PlaceOf(p), "plain")
      PROVE  GuardInv'
  <2>1. tool \in Actions /\ "plain" \in Risks /\ tool # "shell"
    BY DEF Tools, Actions, Mutating, Risks
  <2> QED BY <1>2, <2>1, PlaceOfIs, FreshRequest, UnplacedIsFine
<1> QED BY <1>1, <1>2

LEMMA GuardUnmoved ==
    ASSUME GuardInv, UNCHANGED <<modeVars, request>>
    PROVE  GuardInv'
  BY DEF modeVars, GuardInv, GuardTypeOK, PlaceInv, ConsentInv

LEMMA GuardAlwaysStep ==
    ASSUME GuardInv, ShapeInv, WorkspaceNext \/ UNCHANGED <<guardVars, workspaceVars>>
    PROVE  GuardInv'
<1>1. ASSUME NEW tool \in Tools, NEW work \in Works(tool), Begin(tool, work)
      PROVE  GuardInv'
  BY <1>1, WorksAre, AskedIsFine DEF Begin
<1>2. CASE Refused \/ Read
  BY <1>2, AskedIsFine DEF Refused, Read, End
<1>3. ASSUME NEW known, NEW fits, Load(known, fits)
      PROVE  GuardInv'
  <2>1. call.at = "load" /\ UNCHANGED modeVars
    BY <1>3 DEF Load
  <2>2. call.tool \in Tools /\ (AtEnd \/ call.work[call.i + 1].path \in Paths)
    BY <2>1, CurrentIs DEF ShapeInv, CallShape
  <2>3. \/ request' = NoRequest \/ request' = request
        \/ ~AtEnd /\ Request(call.tool, PlaceOf(call.work[call.i + 1].path), "plain")
    BY <1>3 DEF Load, End
  <2> QED BY <2>1, <2>2, <2>3, AskedIsFine, GuardUnmoved
<1>4. CASE Checkpoint \/ Commit \/ Rollback
  <2>1. UNCHANGED modeVars /\ (request' = NoRequest \/ request' = request)
    BY <1>4 DEF Checkpoint, Commit, Rollback, End
  <2> QED BY <2>1, AskedIsFine, GuardUnmoved
<1>5. CASE Authorised \/ BeginRewind \/ RestoreOne \/ EndRewind
  BY <1>5, GuardUnmoved DEF Authorised, BeginRewind, RestoreOne, EndRewind, guardVars, modeVars
<1>6. ASSUME NEW p \in Paths, NEW c \in Foreign, External(p, c)
      PROVE  GuardInv'
  BY <1>6, GuardUnmoved DEF External, guardVars, modeVars
<1>7. CASE GuardMoves \/ ModeMoves
  BY <1>7, GuardStepKeeps, ModeStepKeeps DEF GuardMoves, ModeMoves
<1>8. CASE UNCHANGED <<guardVars, workspaceVars>>
  BY <1>8, GuardUnmoved DEF guardVars, modeVars
<1> QED BY <1>1, <1>2, <1>3, <1>4, <1>5, <1>6, <1>7, <1>8 DEF WorkspaceNext, Tools

-----------------------------------------------------------------------------
(* Consent.                                                                *)

Applying == {"checkpoint", "commit", "rollback"}

\* What the guard has granted the call, file by file, and what it is asked for next.
ConsentOfCall ==
    /\ call.at \in {"authorise", "load"} =>
          \A j \in 1 .. call.i - 1 : call.work[j].path \in call.consented
    /\ call.at = "load" => Current.path \in call.consented
    /\ call.at \in Applying => \A j \in DOMAIN call.work : call.work[j].path \in call.consented
    /\ call.consented \cap Protected = {}
    /\ call.at = "authorise" => request.action = call.tool /\ request.place = PlaceOf(Current.path)

LEMMA ConsentStep ==
    ASSUME GuardInv, ShapeInv, ConsentOfCall, WorkspaceNext \/ UNCHANGED <<guardVars, workspaceVars>>
    PROVE  ConsentOfCall'
<1>0. call' = NoCall => ConsentOfCall'
  BY NoCallIs DEF ConsentOfCall, Applying
\* A step that leaves the call its files, its place among them and what was granted.
<1>a. ASSUME call.at # "none", SameWork, call'.at = call.at, call'.i = call.i,
             call'.consented = call.consented,
             request'.action = request.action, request'.place = request.place
      PROVE  ConsentOfCall'
  <2>1. (call.at = "authorise" \/ call.at = "load") => Current' = Current
    BY <1>a DEF Current, SameWork
  <2>2. PlaceOf(Current.path)' = PlaceOf(Current'.path)
    BY DEF PlaceOf
  <2> QED BY <1>a, <2>1, <2>2 DEF ConsentOfCall, SameWork, Applying
\* A call that applies what it was granted goes on doing so.
<1>b. ASSUME call.at \in Applying, NEW step \in Applying, NEW i, NEW clean, Moved(step, i, clean)
      PROVE  ConsentOfCall'
  BY <1>b DEF ConsentOfCall, Moved, SameWork, Applying
<1>1. ASSUME NEW tool \in Tools, NEW work \in Works(tool), Begin(tool, work)
      PROVE  ConsentOfCall'
  <2>1. /\ call'.tool = tool /\ call'.at = "authorise" /\ call'.work = work /\ call'.i = 1
        /\ call'.consented = {}
    BY <1>1, BegunCall
  <2>2. request'.action = tool /\ request'.place = PlaceOf(work[1].path)
    <3>1. Request(tool, PlaceOf(work[1].path), "plain") /\ tool \in Actions /\ "plain" \in Risks
      BY <1>1 DEF Begin, Tools, Actions, Mutating, Risks
    <3> QED BY <3>1, PlaceOfIs, FreshRequest
  <2>3. Current' = work[1] /\ PlaceOf(Current.path)' = PlaceOf(Current'.path)
    BY <2>1 DEF Current, PlaceOf
  <2>4. \A j \in 1 .. 1 - 1 : FALSE
    OBVIOUS
  <2> QED BY <2>1, <2>2, <2>3, <2>4 DEF ConsentOfCall, Applying
<1>2. CASE Refused \/ Read
  BY <1>0, <1>2 DEF Refused, Read, End
<1>3. CASE Authorised
  <2>1. /\ SameWork /\ call'.at = "load" /\ call'.i = call.i /\ call.at = "authorise"
        /\ call'.consented = call.consented \cup {Current.path} /\ request.at = "granted"
    BY <1>3, AuthorisedCall DEF Authorised
  <2>2. Current.path \notin Protected
    <3>1. request.place # "sensitive"
      BY <2>1 DEF GuardInv, PlaceInv, Placed
    <3> QED BY <2>1, <3>1, PlaceOfIs DEF ConsentOfCall
  <2>3. Current' = Current
    BY <2>1 DEF Current, SameWork
  <2> QED BY <2>1, <2>2, <2>3 DEF ConsentOfCall, SameWork, Applying
<1>4. ASSUME NEW known, NEW fits, Load(known, fits)
      PROVE  ConsentOfCall'
  <2>0. CASE call' = NoCall
    BY <1>0, <2>0
  <2>1. CASE call' # NoCall
    <3>1. /\ SameWork /\ call'.consented = call.consented /\ call.at = "load"
          /\ AtEnd => call'.at = "checkpoint"
          /\ ~AtEnd => call'.at = "authorise" /\ call'.i = call.i + 1
      BY <1>4, <2>1, LoadedCall DEF Load
    <3>2. /\ DOMAIN call.work = 1 .. Len(call.work) /\ Len(call.work) \in Nat
          /\ call.i \in 1 .. Len(call.work) /\ call.tool \in Tools
          /\ \A j \in DOMAIN call.work : call.work[j].path \in Paths
          /\ AtEnd \/ call.i + 1 \in DOMAIN call.work
      BY <3>1, CurrentIs DEF ShapeInv, CallShape
    <3>3. \A j \in 1 .. call.i : call.work[j].path \in call.consented
      BY <3>1, <3>2 DEF ConsentOfCall, Current
    <3>4. CASE AtEnd
      <4>1. \A j \in DOMAIN call.work : call.work[j].path \in call.consented
        BY <3>2, <3>3, <3>4 DEF AtEnd
      <4> QED BY <3>1, <3>4, <4>1 DEF ConsentOfCall, SameWork, Applying
    <3>5. CASE ~AtEnd
      <4>1. Request(call.tool, PlaceOf(call.work[call.i + 1].path), "plain")
        BY <1>4, <2>1, <3>5 DEF Load, End
      <4>2. request'.action = call.tool /\ request'.place = PlaceOf(call.work[call.i + 1].path)
        <5>1. call.tool \in Actions /\ "plain" \in Risks
          BY <3>2 DEF Tools, Actions, Mutating, Risks
        <5> QED BY <4>1, <5>1, PlaceOfIs, FreshRequest
      <4>3. Current' = call.work[call.i + 1] /\ PlaceOf(Current.path)' = PlaceOf(Current'.path)
        BY <3>1, <3>5 DEF Current, PlaceOf, SameWork
      <4>4. (call.i + 1) - 1 = call.i
        BY <3>2
      <4> QED BY <3>1, <3>3, <3>5, <4>2, <4>3, <4>4 DEF ConsentOfCall, SameWork, Applying
    <3> QED BY <3>4, <3>5
  <2> QED BY <2>0, <2>1
<1>5. CASE Checkpoint
  BY <1>0, <1>b, <1>5, CheckpointedCall DEF Checkpoint, Applying
<1>6. CASE Commit
  BY <1>0, <1>b, <1>6, CommittedCall DEF Commit, Applying
<1>7. CASE Rollback
  BY <1>0, <1>b, <1>7, RolledBackCall DEF Rollback, Applying
<1>8. CASE BeginRewind \/ EndRewind \/ GuardMoves \/ ModeMoves \/ UNCHANGED <<guardVars, workspaceVars>>
  <2>1. call' = call /\ request'.action = request.action /\ request'.place = request.place
    BY <1>8, GuardStepKeeps, ModeStepKeeps
       DEF BeginRewind, EndRewind, GuardMoves, ModeMoves, guardVars, workspaceVars
  <2> QED BY <1>0, <1>a, <2>1 DEF ShapeInv, CallShape, SameWork
<1>9. ASSUME \/ RestoreOne
             \/ \E p \in Paths, c \in Foreign : External(p, c)
      PROVE  ConsentOfCall'
  <2>1. /\ call' = IF call = NoCall THEN call ELSE [call EXCEPT !.clean = FALSE]
        /\ request' = request
    BY <1>9 DEF RestoreOne, External, guardVars
  <2>2. \/ call' = NoCall
        \/ call.at # "none" /\ Moved(call.at, call.i, FALSE)
    BY <2>1, DisturbedCall
  <2> QED BY <1>0, <1>a, <2>1, <2>2 DEF Moved
<1> QED BY <1>1, <1>2, <1>3, <1>4, <1>5, <1>6, <1>7, <1>8, <1>9 DEF WorkspaceNext, Tools

\* Whatever the user, the guard, a restore and other programs do meanwhile, no call
\* changes a file the guard did not grant to it, and none under a credential root.
THEOREM ChangesAlwaysConsented == WorkspaceSpec => []EveryChangeConsented
<1> DEFINE Inv == GuardInv /\ ShapeInv /\ ConsentOfCall
<1>1. PermissionsInit /\ WorkspaceInit => Inv
  BY GuardInit, ShapeInit, NoCallIs DEF WorkspaceInit, ConsentOfCall, Applying
<1>2. Inv /\ [WorkspaceNext]_<<guardVars, workspaceVars>> => Inv'
  BY ShapeStep, GuardAlwaysStep, ConsentStep
<1>3. Inv => EveryChangeConsented
  BY DEF EveryChangeConsented, GuardInv, PlaceInv, ConsentInv, ConsentOfCall, Applying, Placed, Admitted
<1> QED BY <1>1, <1>2, <1>3, PTL DEF WorkspaceSpec

-----------------------------------------------------------------------------
(* What a restore gives back.                                              *)

\* A restore and a call that overlap are neither of them clean; a clean call finds
\* the disk as it was until it writes.
ApartInv ==
    /\ call.at # "none" /\ rewind.active => ~call.clean /\ ~rewind.clean
    /\ call.at \in {"authorise", "load", "checkpoint"} /\ call.clean => disk = call.start

Restorable(p) == p \in Paths \ Outside /\ was[p] # Big

\* The newest checkpoint holds what differs from the disk before its call.
LatestInv == ~disturbed =>
    /\ \A p \in Paths : Restorable(p) => disk[p] = was[p] \/ \E k \in DOMAIN latest : latest[k].path = p
    /\ \A k \in DOMAIN latest : latest[k].content = was[latest[k].path]
    /\ call.at \in {"commit", "rollback"} =>
          \A j \in DOMAIN call.work : Restorable(call.work[j].path) =>
             \E k \in DOMAIN latest : latest[k].path = call.work[j].path

\* What a restore has still to do is what differs.
TodoInv == ~disturbed /\ rewind.active =>
    /\ \A m \in DOMAIN rewind.todo : \E k \in DOMAIN latest : latest[k] = rewind.todo[m]
    /\ rewind.clean => \A p \in Paths : Restorable(p) =>
          disk[p] = was[p] \/ \E m \in DOMAIN rewind.todo : rewind.todo[m].path = p

RewindInv == ApartInv /\ LatestInv /\ TodoInv

LEMMA ApartStep ==
    ASSUME ShapeInv, ApartInv, WorkspaceNext \/ UNCHANGED <<guardVars, workspaceVars>>
    PROVE  ApartInv'
<1>0. call' = NoCall => ApartInv'
  BY NoCallIs DEF ApartInv
\* A call that writes: nothing is asked of its disk.
<1>a. ASSUME call.at # "none", rewind' = rewind, NEW step \in {"commit", "rollback"}, NEW i,
             NEW clean \in {call.clean, FALSE}, Moved(step, i, clean)
      PROVE  ApartInv'
  BY <1>a DEF ApartInv, Moved
<1>1. ASSUME NEW tool \in Tools, NEW work \in Works(tool), Begin(tool, work)
      PROVE  ApartInv'
  <2>1. /\ call'.at = "authorise" /\ call'.start = disk /\ call'.clean = ~rewind.active
        /\ disk' = disk
    BY <1>1, BegunCall DEF Begin, diskVars
  <2>2. rewind'.active = rewind.active /\ ~rewind'.clean
    BY <1>1 DEF Begin, ShapeInv, RestoreShape, Restores
  <2> QED BY <2>1, <2>2 DEF ApartInv
<1>2. CASE Refused \/ Read
  BY <1>0, <1>2 DEF Refused, Read, End
<1>3. CASE Authorised
  <2>1. SameWork /\ call'.clean = call.clean /\ call.at = "authorise" /\ UNCHANGED <<disk, rewind>>
    BY <1>3, AuthorisedCall DEF Authorised, diskVars
  <2> QED BY <2>1 DEF ApartInv, SameWork
<1>4. ASSUME NEW known, NEW fits, Load(known, fits)
      PROVE  ApartInv'
  <2>1. call.at = "load" /\ UNCHANGED <<disk, rewind>>
    BY <1>4 DEF Load, diskVars
  <2>2. call' # NoCall => SameWork /\ call'.clean = call.clean
    BY <1>4, LoadedCall
  <2> QED BY <1>0, <2>1, <2>2 DEF ApartInv, SameWork
<1>5. CASE Checkpoint
  BY <1>0, <1>a, <1>5, CheckpointedCall DEF Checkpoint
<1>6. CASE Commit
  BY <1>0, <1>a, <1>6, CommittedCall DEF Commit
<1>7. CASE Rollback
  <2>1. PICK done \in BOOLEAN :
           call' = NoCall \/ Moved("rollback", call.i - 1, call.clean /\ done)
    BY <1>7, RolledBackCall
  <2>2. (call.clean /\ done) \in {call.clean, FALSE}
    BY DEF ShapeInv, CallShape, CallRecords
  <2> QED BY <1>0, <1>a, <1>7, <2>1, <2>2 DEF Rollback
<1>8. CASE BeginRewind \/ EndRewind
  BY <1>8, NoCallIs, NoRewindIs DEF BeginRewind, EndRewind, diskVars, ApartInv
<1>9. ASSUME \/ RestoreOne
             \/ \E p \in Paths, c \in Foreign : External(p, c)
      PROVE  ApartInv'
  <2>1. \/ call' = NoCall
        \/ call.at # "none" /\ Moved(call.at, call.i, FALSE)
    BY <1>9, DisturbedCall DEF RestoreOne, External
  <2>2. rewind'.active => rewind.active /\ rewind'.clean = rewind.clean
    BY <1>9, RestoredOne, NoRewindIs DEF RestoreOne, External
  <2> QED BY <1>0, <2>1, <2>2 DEF ApartInv, Moved
<1>10. CASE UNCHANGED workspaceVars
  BY <1>10 DEF workspaceVars, diskVars, ApartInv
<1> QED BY <1>1, <1>2, <1>3, <1>4, <1>5, <1>6, <1>7, <1>8, <1>9, <1>10
        DEF WorkspaceNext, Tools, GuardMoves, ModeMoves

\* A write is the restore's own, or of a file the newest checkpoint holds.
LEMMA WriteKeeps ==
    ASSUME ShapeInv, RewindInv, ~disturbed, ~disturbed', UNCHANGED <<latest, was>>,
           NEW q \in Paths, NEW c \in Held, disk' = [disk EXCEPT ![q] = c],
           Restorable(q) => \E k \in DOMAIN latest : latest[k].path = q
    PROVE  \A p \in Paths : Restorable(p)' =>
              disk'[p] = was'[p] \/ \E k \in DOMAIN latest' : latest'[k].path = p
  BY OneWritten DEF RewindInv, LatestInv, Restorable

LEMMA LatestStep ==
    ASSUME ShapeInv, RewindInv, WorkspaceNext \/ UNCHANGED <<guardVars, workspaceVars>>
    PROVE  LatestInv'
<1> USE DEF RewindInv
\* A step that leaves the disk alone, and a call where it was or behind its end.
<1>a. ASSUME UNCHANGED <<disk, latest, was, disturbed>>,
             \/ call'.at \notin {"commit", "rollback"}
             \/ call.at \in {"commit", "rollback"} /\ call'.work = call.work
      PROVE  LatestInv'
  BY <1>a DEF LatestInv, Restorable
\* A call writes one of its files.
<1>b. ASSUME call.at \in {"commit", "rollback"}, UNCHANGED <<latest, was, disturbed>>,
             NEW c \in Held, disk' = [disk EXCEPT ![Current.path] = c],
             call' = NoCall \/ call'.work = call.work
      PROVE  LatestInv'
  <2>1. CASE ~disturbed
    <3>1. Restorable(Current.path) => \E k \in DOMAIN latest : latest[k].path = Current.path
      BY <1>b, <2>1, CurrentIs DEF LatestInv, ShapeInv, CallShape
    <3>2. \A p \in Paths : Restorable(p)' =>
             disk'[p] = was'[p] \/ \E k \in DOMAIN latest' : latest'[k].path = p
      <4>1. Current.path \in Paths
        BY <1>b, CurrentIs
      <4> QED BY <1>b, <2>1, <3>1, <4>1, WriteKeeps
    <3>3. \A p : Restorable(p)' = Restorable(p)
      BY <1>b DEF Restorable
    <3>4. call' = NoCall \/ call'.work = call.work
      BY <1>b
    <3> HIDE DEF Restorable
    <3> QED BY <1>b, <2>1, <3>2, <3>3, <3>4, NoCallIs DEF LatestInv
  <2> QED BY <1>b, <2>1 DEF LatestInv
<1>1. ASSUME NEW tool \in Tools, NEW work \in Works(tool), Begin(tool, work)
      PROVE  LatestInv'
  BY <1>1, <1>a, BegunCall DEF Begin, diskVars, historyVars
<1>2. CASE Refused \/ Read
  BY <1>2, <1>a, NoCallIs DEF Refused, Read, End, diskVars, historyVars
<1>3. CASE Authorised
  BY <1>3, <1>a, AuthorisedCall DEF Authorised, diskVars, historyVars
<1>4. ASSUME NEW known, NEW fits, Load(known, fits)
      PROVE  LatestInv'
  <2>1. call'.at \notin {"commit", "rollback"}
    BY <1>4, LoadedCall, NoCallIs
  <2> QED BY <1>4, <2>1, <1>a DEF Load, diskVars, historyVars
<1>5. CASE Checkpoint
  <2>1. CASE call' = NoCall /\ UNCHANGED <<latest, historyVars>>
    BY <1>5, <2>1, <1>a, NoCallIs DEF Checkpoint, historyVars
  <2>2. CASE /\ latest' \in Snapshots(call.work) /\ call' # NoCall
             /\ was' = call.start /\ disturbed' = ~call.clean
    <3>1. Moved("commit", call.i, call.clean) /\ call.at = "checkpoint" /\ disk' = disk
      BY <1>5, <2>2, CheckpointedCall DEF Checkpoint
    <3>2. CASE call.clean
      <4>1. disk = call.start
        BY <3>1, <3>2 DEF ApartInv
      <4>2. /\ \A k \in DOMAIN latest' : latest'[k].content = disk[latest'[k].path]
            /\ \A j \in DOMAIN call.work : \/ call.work[j].path \in Outside
                                           \/ disk[call.work[j].path] = Big
                                           \/ \E k \in DOMAIN latest' : latest'[k].path = call.work[j].path
        BY <2>2, <3>1, SnapshotsAre
      <4>3. call'.work = call.work /\ was' = disk
        BY <2>2, <3>1, <4>1 DEF Moved, SameWork
      <4> QED BY <3>1, <4>2, <4>3 DEF LatestInv, Restorable
    <3>3. CASE ~call.clean
      BY <2>2, <3>3 DEF LatestInv
    <3> QED BY <3>2, <3>3
  <2>3. NoCall.at # "commit" /\ call.at = "checkpoint" /\ call \in CallRecords
    BY <1>5, NoCallIs DEF Checkpoint, ShapeInv, CallShape
  <2>4. \/ call' = NoCall /\ UNCHANGED <<latest, historyVars>>
        \/ /\ latest' \in Snapshots(call.work) /\ call' = [call EXCEPT !.at = "commit"]
           /\ was' = call.start /\ disturbed' = ~call.clean
    BY <1>5 DEF Checkpoint, End
  <2>5. call' = [call EXCEPT !.at = "commit"] => call'.at = "commit"
    BY <2>3 DEF CallRecords
  <2> QED BY <2>1, <2>2, <2>3, <2>4, <2>5
<1>6. CASE Commit
  <2>1. /\ call.at = "commit" /\ UNCHANGED <<latest, was, disturbed>>
        /\ disk' = disk \/ disk' = [disk EXCEPT ![Current.path] = Current.to]
    BY <1>6, CommitDisk DEF Commit, historyVars
  <2>2. call' = NoCall \/ call'.work = call.work
    BY <1>6, CommittedCall DEF Moved, SameWork
  <2>3. Current.to \in Held
    BY <2>1, CurrentIs
  <2> QED BY <1>a, <1>b, <2>1, <2>2, <2>3, NoCallIs
<1>7. CASE Rollback
  <2>1. /\ call.at = "rollback" /\ UNCHANGED <<latest, was, disturbed>>
        /\ disk' = disk \/ disk' = [disk EXCEPT ![Current.path] = call.before[call.i]]
    BY <1>7, RollbackDisk DEF Rollback, historyVars
  <2>2. call' = NoCall \/ call'.work = call.work
    BY <1>7, RolledBackCall DEF Moved, SameWork
  <2>3. call.before[call.i] \in Held
    <3>1. call.before \in Seq(Held) /\ call.i \in DOMAIN call.before
      BY <1>7, RollbackDisk DEF ShapeInv, CallShape, CallRecords
    <3> QED BY <3>1
  <2> QED BY <1>a, <1>b, <2>1, <2>2, <2>3, NoCallIs
<1>8. CASE BeginRewind \/ EndRewind \/ UNCHANGED workspaceVars
  <2>1. UNCHANGED <<call, disk, latest, was, disturbed>>
    BY <1>8 DEF BeginRewind, EndRewind, diskVars, historyVars, workspaceVars
  <2> QED BY <2>1 DEF LatestInv, Restorable
<1>9. CASE RestoreOne
  <2> DEFINE file == Head(rewind.todo)
  <2>1. /\ UNCHANGED <<latest, was, disturbed>> /\ rewind.active /\ rewind.todo # <<>>
        /\ rewind.todo \in Seq(Snaps)
    BY <1>9 DEF RestoreOne, historyVars, ShapeInv, RestoreShape, Restores
  <2>2. /\ file.path \in Paths /\ file.content \in Held
        /\ disk' = disk \/ disk' = [disk EXCEPT ![file.path] = file.content]
    BY <1>9, RestoredOne
  <2>3. call' = NoCall \/ (call'.work = call.work /\ call'.at = call.at)
    BY <1>9, DisturbedCall DEF RestoreOne, Moved, SameWork
  <2>4. ~disturbed => \E k \in DOMAIN latest : latest[k].path = file.path
    <3>1. file = rewind.todo[1] /\ 1 \in DOMAIN rewind.todo
      BY <2>1
    <3> QED BY <2>1, <3>1 DEF TodoInv
  <2> HIDE DEF file
  <2>5. ~disturbed => \A p \in Paths : Restorable(p)' =>
           disk'[p] = was'[p] \/ \E k \in DOMAIN latest' : latest'[k].path = p
    <3>1. CASE disk' = disk
      BY <2>1, <3>1 DEF LatestInv, Restorable
    <3>2. CASE disk' = [disk EXCEPT ![file.path] = file.content]
      BY <2>1, <2>2, <2>4, <3>2, WriteKeeps
    <3> QED BY <2>2, <3>1, <3>2
  <2> QED BY <2>1, <2>3, <2>5, NoCallIs DEF LatestInv, Restorable
<1>10. ASSUME NEW p \in Paths, NEW c \in Foreign, External(p, c)
       PROVE  LatestInv'
  BY <1>10 DEF External, LatestInv
<1> QED BY <1>1, <1>2, <1>3, <1>4, <1>5, <1>6, <1>7, <1>8, <1>9, <1>10
        DEF WorkspaceNext, Tools, GuardMoves, ModeMoves

\* A step of the restore: what it restored is as it was, the rest is still to do.
LEMMA TodoRestored ==
    ASSUME ShapeInv, RewindInv, RestoreOne, ~disturbed
    PROVE  TodoInv'
<1> DEFINE file == Head(rewind.todo)
<1>1. /\ UNCHANGED <<latest, was, disturbed>> /\ rewind.active /\ rewind.todo # <<>>
      /\ rewind.todo \in Seq(Snaps)
  BY DEF RestoreOne, historyVars, ShapeInv, RestoreShape, Restores
<1>2. /\ file \in Snaps /\ file.path \in Paths /\ file.content \in Held
      /\ \/ /\ disk' = [disk EXCEPT ![file.path] = file.content]
            /\ rewind'.active /\ rewind'.clean = rewind.clean
            /\ rewind'.todo = Tail(rewind.todo)
         \/ rewind' = NoRewind
  BY RestoredOne
<1>3. file = rewind.todo[1] /\ 1 \in DOMAIN rewind.todo
  BY <1>1
<1>4. \A m \in DOMAIN rewind.todo : \E k \in DOMAIN latest : latest[k] = rewind.todo[m]
  BY <1>1 DEF RewindInv, TodoInv
<1>5. file.content = was[file.path]
  BY <1>3, <1>4 DEF RewindInv, LatestInv
<1>6. CASE rewind' = NoRewind
  BY <1>6, NoRewindIs DEF TodoInv
<1>7. CASE /\ disk' = [disk EXCEPT ![file.path] = file.content]
           /\ rewind'.clean = rewind.clean /\ rewind'.todo = Tail(rewind.todo)
  <2>1. /\ \A m \in DOMAIN Tail(rewind.todo) : Tail(rewind.todo)[m] = rewind.todo[m + 1]
                                               /\ m + 1 \in DOMAIN rewind.todo
        /\ \A m \in DOMAIN rewind.todo : m = 1 \/ /\ m - 1 \in DOMAIN Tail(rewind.todo)
                                                  /\ Tail(rewind.todo)[m - 1] = rewind.todo[m]
    BY <1>1
  <2>2. \A m \in DOMAIN rewind'.todo : \E k \in DOMAIN latest' : latest'[k] = rewind'.todo[m]
    BY <1>1, <1>4, <1>7, <2>1
  <2>3. ASSUME rewind.clean, NEW p \in Paths, Restorable(p)
        PROVE  disk'[p] = was'[p] \/ \E m \in DOMAIN rewind'.todo : rewind'.todo[m].path = p
    <3>1. CASE p = file.path
      <4>1. disk'[p] = file.content
        BY <1>2, <1>7, <3>1, OneWritten
      <4> QED BY <1>1, <1>5, <3>1, <4>1
    <3>2. CASE p # file.path /\ disk[p] = was[p]
      <4>1. disk'[p] = disk[p]
        BY <1>2, <1>7, <3>2, OneWritten
      <4> QED BY <1>1, <3>2, <4>1
    <3>3. CASE p # file.path /\ disk[p] # was[p]
      <4>1. PICK m \in DOMAIN rewind.todo : rewind.todo[m].path = p
        BY <1>1, <2>3, <3>3 DEF RewindInv, TodoInv
      <4>2. m # 1
        BY <1>3, <3>3, <4>1
      <4> QED BY <1>7, <2>1, <4>1, <4>2
    <3> QED BY <3>1, <3>2, <3>3
  <2>4. \A p : Restorable(p)' = Restorable(p)
    BY <1>1 DEF Restorable
  <2> HIDE DEF Restorable
  <2> QED BY <1>7, <2>2, <2>3, <2>4 DEF TodoInv
<1> QED BY <1>2, <1>6, <1>7

LEMMA TodoStep ==
    ASSUME ShapeInv, RewindInv, WorkspaceNext \/ UNCHANGED <<guardVars, workspaceVars>>
    PROVE  TodoInv'
<1> USE DEF RewindInv
\* A call under way has spoilt the restore beside it, so nothing is asked of the disk.
<1>a. ASSUME call.at # "none", UNCHANGED <<latest, was, disturbed, rewind>>
      PROVE  TodoInv'
  BY <1>a DEF ApartInv, TodoInv
<1>b. ASSUME UNCHANGED <<disk, latest, was, disturbed, rewind>>
      PROVE  TodoInv'
  BY <1>b DEF TodoInv, Restorable
<1>1. ASSUME NEW tool \in Tools, NEW work \in Works(tool), Begin(tool, work)
      PROVE  TodoInv'
  <2>1. UNCHANGED <<latest, was, disturbed>>
    BY <1>1 DEF Begin, diskVars, historyVars
  <2>2. rewind'.active = rewind.active /\ ~rewind'.clean /\ rewind'.todo = rewind.todo
    BY <1>1 DEF Begin, ShapeInv, RestoreShape, Restores
  <2> QED BY <2>1, <2>2 DEF TodoInv
<1>2. CASE Refused \/ Read
  BY <1>2, <1>b DEF Refused, Read, diskVars, historyVars
<1>3. CASE Authorised \/ EndRewind \/ UNCHANGED workspaceVars
  <2>1. UNCHANGED <<disk, latest, was, disturbed>> /\ (rewind' = rewind \/ rewind' = NoRewind)
    BY <1>3 DEF Authorised, EndRewind, workspaceVars, diskVars, historyVars
  <2> QED BY <1>b, <2>1, NoRewindIs DEF TodoInv
<1>4. ASSUME NEW known, NEW fits, Load(known, fits)
      PROVE  TodoInv'
  BY <1>4, <1>b DEF Load, diskVars, historyVars
<1>5. CASE Checkpoint
  <2>1. rewind' = rewind /\ call.at = "checkpoint"
    BY <1>5 DEF Checkpoint
  <2>2. UNCHANGED <<latest, was, disturbed>> \/ disturbed' = ~call.clean
    BY <1>5 DEF Checkpoint, historyVars
  <2> QED BY <1>a, <2>1, <2>2 DEF ApartInv, TodoInv
<1>6. CASE Commit \/ Rollback
  <2>1. call.at \in {"commit", "rollback"} /\ UNCHANGED <<latest, was, disturbed, rewind>>
    BY <1>6 DEF Commit, Rollback, historyVars
  <2> QED BY <1>a, <2>1
<1>7. CASE BeginRewind
  <2>1. rewind'.todo = latest /\ UNCHANGED <<disk, latest, was, disturbed>>
    BY <1>7 DEF BeginRewind, diskVars, historyVars
  <2> QED BY <2>1 DEF LatestInv, TodoInv, Restorable
<1>8. CASE RestoreOne
  <2>1. disturbed' = disturbed
    BY <1>8 DEF RestoreOne, historyVars
  <2> QED BY <1>8, <2>1, TodoRestored DEF TodoInv
<1>9. ASSUME NEW p \in Paths, NEW c \in Foreign, External(p, c)
      PROVE  TodoInv'
  BY <1>9 DEF External, TodoInv
<1> QED BY <1>1, <1>2, <1>3, <1>4, <1>5, <1>6, <1>7, <1>8, <1>9
        DEF WorkspaceNext, Tools, GuardMoves, ModeMoves

\* Whatever the call did that made the newest checkpoint, however it ended, and
\* however the restore was interleaved with other tasks: a restore that nobody
\* crossed gives back every file the checkpoint could hold.
THEOREM RewindAlwaysExact == WorkspaceSpec => []RewindIsExact
<1> DEFINE Inv == ShapeInv /\ RewindInv
<1>1. PermissionsInit /\ WorkspaceInit => Inv
  <2> SUFFICES ASSUME WorkspaceInit
               PROVE  ShapeInv /\ RewindInv
    OBVIOUS
  <2>1. /\ latest = <<>> /\ DOMAIN latest = {} /\ was = disk
        /\ call.at = "none" /\ ~rewind.active
    BY NoCallIs, NoRewindIs DEF WorkspaceInit
  <2> QED BY <2>1, ShapeInit DEF RewindInv, ApartInv, LatestInv, TodoInv
<1>2. Inv /\ [WorkspaceNext]_<<guardVars, workspaceVars>> => Inv'
  <2>1. UNCHANGED <<guardVars, workspaceVars>> => UNCHANGED workspaceVars
    OBVIOUS
  <2> QED BY <2>1, ShapeStep, ApartStep, LatestStep, TodoStep DEF RewindInv
<1>3. Inv => RewindIsExact
  <2>1. \A m \in DOMAIN <<>> : FALSE
    OBVIOUS
  <2> QED BY <2>1 DEF RewindIsExact, RewindInv, TodoInv, Restorable
<1> QED BY <1>1, <1>2, <1>3, PTL DEF WorkspaceSpec

-----------------------------------------------------------------------------
(* All or nothing.                                                         *)

\* What a clean call has read is what was there; what differs it has written.
PatchInv ==
    /\ call.at = "checkpoint" => call.i = 1
    /\ call.clean => \A j \in DOMAIN call.before : call.before[j] = call.start[call.work[j].path]
    /\ call.clean /\ call.at = "commit" => \A p \in Paths :
          disk[p] = call.start[p] \/ \E j \in 1 .. call.i - 1 : call.work[j].path = p
    /\ call.clean /\ call.at = "rollback" => \A p \in Paths :
          disk[p] = call.start[p] \/ \E j \in 1 .. call.i : call.work[j].path = p

LEMMA PatchLoaded ==
    ASSUME ShapeInv, ApartInv, PatchInv, NEW known, NEW fits, Load(known, fits), call' # NoCall
    PROVE  PatchInv'
<1>1. /\ call'.before = Append(call.before, disk[Current.path]) /\ call'.clean = call.clean
      /\ call'.work = call.work /\ call'.start = call.start
      /\ call'.at = "checkpoint" => call'.i = 1
      /\ call'.at \in {"checkpoint", "authorise"} /\ call.at = "load"
  BY LoadedCall DEF Load, SameWork
<1>2. call.before \in Seq(Held) /\ Len(call.before) = call.i - 1 /\ call.i \in Nat
  BY <1>1 DEF ShapeInv, CallShape, CallRecords
<1>3. disk[Current.path] \in Held
  BY <1>1, CurrentIs DEF ShapeInv, CallShape, Disks
<1>4. \A j \in DOMAIN call'.before :
         \/ j \in DOMAIN call.before /\ call'.before[j] = call.before[j]
         \/ j = call.i /\ call'.before[j] = disk[Current.path]
  <2> DEFINE now == disk[Current.path]
  <2>1. now \in Held /\ call'.before = Append(call.before, now)
    BY <1>1, <1>3
  <2> DEFINE old == call.before
  <2> HIDE DEF now, old
  <2>2. old \in Seq(Held) /\ Len(old) + 1 = call.i
    BY <1>2 DEF old
  <2>3. \A j \in DOMAIN Append(old, now) :
           \/ j \in DOMAIN old /\ Append(old, now)[j] = old[j]
           \/ j = Len(old) + 1 /\ Append(old, now)[j] = now
    BY <2>1, <2>2
  <2>4. \A j \in DOMAIN call'.before :
           \/ j \in DOMAIN call.before /\ call'.before[j] = call.before[j]
           \/ j = call.i /\ call'.before[j] = now
    BY <2>1, <2>2, <2>3 DEF old
  <2> QED BY <2>4 DEF now
<1>5. call.clean => disk = call.start
  BY <1>1 DEF ApartInv
<1>6. call.clean => \A j \in DOMAIN call'.before : call'.before[j] = call.start[call.work[j].path]
  BY <1>4, <1>5 DEF PatchInv, Current
<1> QED BY <1>1, <1>6 DEF PatchInv

LEMMA PatchCommitted ==
    ASSUME ShapeInv, PatchInv, Commit, call' # NoCall
    PROVE  PatchInv'
<1>1. /\ call.at = "commit" /\ Current = call.work[call.i] /\ Current.path \in Paths
      /\ Current.to \in Held /\ call.i \in Nat /\ call.i > 0
  <2>1. call.at = "commit"
    BY DEF Commit
  <2> QED BY <2>1, CurrentIs
<1>2. CASE Moved("commit", call.i + 1, call.clean) /\ disk' = [disk EXCEPT ![Current.path] = Current.to]
  <2>1. /\ call'.at = "commit" /\ call'.i = call.i + 1 /\ call'.before = call.before
        /\ call'.clean = call.clean /\ call'.work = call.work /\ call'.start = call.start
    BY <1>2 DEF Moved, SameWork
  <2>2. ASSUME call.clean, NEW p \in Paths
        PROVE  disk'[p] = call.start[p] \/ \E j \in 1 .. call.i : call.work[j].path = p
    <3>1. CASE p = Current.path
      <4>1. call.i \in 1 .. call.i
        BY <1>1
      <4> QED BY <1>1, <3>1, <4>1
    <3>2. CASE p # Current.path
      <4>1. disk'[p] = disk[p]
        BY <1>1, <1>2, <3>2, OneWritten
      <4>2. disk[p] = call.start[p] \/ \E j \in 1 .. call.i - 1 : call.work[j].path = p
        BY <1>1, <2>2 DEF PatchInv
      <4>3. 1 .. call.i - 1 \subseteq 1 .. call.i
        BY <1>1
      <4> QED BY <4>1, <4>2, <4>3
    <3> QED BY <3>1, <3>2
  <2>3. (call.i + 1) - 1 = call.i
    BY <1>1
  <2>4. call'.clean => \A p \in Paths :
           disk'[p] = call'.start[p] \/ \E j \in 1 .. call'.i - 1 : call'.work[j].path = p
    BY <2>1, <2>2, <2>3
  <2>5. call'.clean => \A j \in DOMAIN call'.before : call'.before[j] = call'.start[call'.work[j].path]
    BY <2>1 DEF PatchInv
  <2> QED BY <2>1, <2>4, <2>5 DEF PatchInv
<1>3. CASE Moved("rollback", call.i - 1, call.clean) /\ disk' = disk
  <2>1. /\ call'.at = "rollback" /\ call'.i = call.i - 1 /\ call'.before = call.before
        /\ call'.clean = call.clean /\ call'.work = call.work /\ call'.start = call.start
    BY <1>3 DEF Moved, SameWork
  <2> QED BY <1>1, <1>3, <2>1 DEF PatchInv
<1> QED BY <1>2, <1>3, CommittedCall

\* One file put back: what still differs lies before it.
LEMMA PutBack ==
    ASSUME ShapeInv, PatchInv, Rollback, call.clean,
           disk' = [disk EXCEPT ![Current.path] = call.before[call.i]]
    PROVE  \A p \in Paths :
              disk'[p] = call.start[p] \/ \E j \in 1 .. call.i - 1 : call.work[j].path = p
<1>1. /\ call.at = "rollback" /\ Current = call.work[call.i] /\ Current.path \in Paths
      /\ call.i \in Nat /\ call.i > 0 /\ call.i \in DOMAIN call.before
  <2>1. call.at = "rollback"
    BY DEF Rollback
  <2> QED BY <2>1, CurrentIs, RollbackDisk
<1>2. call.before[call.i] = call.start[Current.path] /\ call.before[call.i] \in Held
  <2>1. call.before \in Seq(Held)
    BY DEF ShapeInv, CallShape, CallRecords
  <2> QED BY <1>1, <2>1 DEF PatchInv
<1> TAKE p \in Paths
<1>3. CASE p = Current.path
  BY <1>1, <1>2, <1>3, OneWritten
<1>4. CASE p # Current.path
  <2>1. disk'[p] = disk[p]
    BY <1>1, <1>2, <1>4, OneWritten
  <2>2. disk[p] = call.start[p] \/ \E j \in 1 .. call.i : call.work[j].path = p
    BY <1>1 DEF PatchInv
  <2>3. \A j \in 1 .. call.i : j = call.i \/ j \in 1 .. call.i - 1
    BY <1>1
  <2> QED BY <1>1, <1>4, <2>1, <2>2, <2>3
<1> QED BY <1>3, <1>4

LEMMA PatchRolledBack ==
    ASSUME ShapeInv, PatchInv, Rollback, call' # NoCall
    PROVE  PatchInv'
<1>1. PICK done \in BOOLEAN :
         /\ disk' = IF done THEN [disk EXCEPT ![Current.path] = call.before[call.i]] ELSE disk
         /\ Moved("rollback", call.i - 1, call.clean /\ done)
  BY RolledBackCall
<1>2. /\ call'.at = "rollback" /\ call'.i = call.i - 1 /\ call'.before = call.before
      /\ call'.work = call.work /\ call'.start = call.start
      /\ call'.clean = (call.clean /\ done)
  BY <1>1 DEF Moved, SameWork
<1>3. call'.clean => call.clean /\ done
  BY <1>2
<1>4. call'.clean => \A p \in Paths :
         disk'[p] = call.start[p] \/ \E j \in 1 .. call.i - 1 : call.work[j].path = p
  BY <1>1, <1>3, PutBack
<1> QED BY <1>2, <1>3, <1>4 DEF PatchInv

LEMMA PatchStep ==
    ASSUME ShapeInv, ApartInv, PatchInv, WorkspaceNext \/ UNCHANGED <<guardVars, workspaceVars>>
    PROVE  PatchInv'
<1>0. call' = NoCall => PatchInv'
  <2>1. NoCall.before = <<>> /\ DOMAIN <<>> = {} /\ NoCall.at = "none"
    BY DEF NoCall
  <2> QED BY <2>1 DEF PatchInv
<1>1. ASSUME NEW tool \in Tools, NEW work \in Works(tool), Begin(tool, work)
      PROVE  PatchInv'
  <2>1. call'.before = <<>> /\ call'.at = "authorise" /\ DOMAIN <<>> = {}
    BY <1>1, BegunCall
  <2> QED BY <2>1 DEF PatchInv
<1>2. CASE Refused \/ Read
  BY <1>0, <1>2 DEF Refused, Read, End
<1>3. CASE Authorised
  <2>1. SameWork /\ call'.at = "load" /\ call'.before = call.before /\ call'.clean = call.clean
    BY <1>3, AuthorisedCall
  <2> QED BY <2>1 DEF PatchInv, SameWork
<1>4. ASSUME NEW known, NEW fits, Load(known, fits)
      PROVE  PatchInv'
  BY <1>0, <1>4, PatchLoaded
<1>5. CASE Checkpoint
  <2>1. CASE call' # NoCall
    <3>1. Moved("commit", call.i, call.clean) /\ disk' = disk /\ call.at = "checkpoint"
      BY <1>5, <2>1, CheckpointedCall DEF Checkpoint
    <3>2. call.clean => disk = call.start
      BY <3>1 DEF ApartInv
    <3> QED BY <3>1, <3>2 DEF PatchInv, Moved, SameWork
  <2> QED BY <1>0, <2>1
<1>6. CASE BeginRewind \/ EndRewind \/ UNCHANGED workspaceVars
  <2>1. call' = call /\ disk' = disk
    BY <1>6 DEF BeginRewind, EndRewind, diskVars, workspaceVars
  <2> QED BY <2>1 DEF PatchInv
<1>7. ASSUME \/ RestoreOne
             \/ \E p \in Paths, c \in Foreign : External(p, c)
      PROVE  PatchInv'
  <2>1. \/ call' = NoCall
        \/ Moved(call.at, call.i, FALSE)
    BY <1>7, DisturbedCall DEF RestoreOne, External
  <2> QED BY <1>0, <2>1 DEF PatchInv, Moved
<1> QED BY <1>0, <1>1, <1>2, <1>3, <1>4, <1>5, <1>6, <1>7, PatchCommitted, PatchRolledBack
        DEF WorkspaceNext, Tools, GuardMoves, ModeMoves

\* What the last step of a failed patch leaves.
LEMMA FailedPatch ==
    ASSUME ShapeInv, ApartInv, PatchInv, WorkspaceNext, call.tool = "patch", call'.tool = "none",
           result' = "failed", call.clean
    PROVE  disk' = call.start
<1>0. /\ call.at # "none" /\ call # NoCall /\ call.start \in Disks /\ disk \in Disks
      /\ call.tool \in Tools
  BY NoCallIs DEF ShapeInv, CallShape
<1>a. SameWork => call'.tool # "none"
  BY DEF SameWork
<1>b. ASSUME UNCHANGED disk, call.at \in {"authorise", "load", "checkpoint"}
      PROVE  disk' = call.start
  BY <1>b DEF ApartInv
<1>1. ~(\E tool \in Tools : \E work \in Works(tool) : Begin(tool, work)) /\ ~BeginRewind /\ ~Read
  BY <1>0 DEF Begin, BeginRewind, Read
<1>2. CASE Refused \/ Authorised
  BY <1>2, <1>b DEF Refused, Authorised, diskVars
<1>3. ASSUME NEW known, NEW fits, Load(known, fits)
      PROVE  disk' = call.start
  BY <1>3, <1>b DEF Load, diskVars
<1>4. CASE Checkpoint
  BY <1>4, <1>b DEF Checkpoint
<1>5. CASE Commit
  <2>1. call' = NoCall
    BY <1>5, <1>a, CommittedCall DEF Moved
  <2>2. call.at = "commit" /\ call.i = 1 /\ disk' = disk
    <3>1. call.i + 1 # call.i /\ call.i \in Nat /\ call \in CallRecords
      BY DEF ShapeInv, CallShape, CallRecords
    <3>2. call' # [call EXCEPT !.i = @ + 1] /\ call' # [call EXCEPT !.at = "rollback", !.i = @ - 1]
      BY <1>0, <3>1 DEF CallRecords, Tools
    <3> QED BY <1>5, <3>2 DEF Commit, End
  <2>3. \A p \in Paths : disk[p] = call.start[p]
    <3>1. 1 .. 1 - 1 = {}
      OBVIOUS
    <3> QED BY <2>2, <3>1 DEF PatchInv
  <2> QED BY <1>0, <2>2, <2>3 DEF Disks
<1>6. CASE Rollback
  <2>1. PICK done \in BOOLEAN :
           /\ disk' = IF done THEN [disk EXCEPT ![Current.path] = call.before[call.i]] ELSE disk
           /\ \/ /\ call.i = 1
                 /\ result' = IF done /\ call.clean THEN "failed" ELSE "failed and torn"
              \/ Moved("rollback", call.i - 1, call.clean /\ done)
    BY <1>6, RolledBackCall
  <2>2. call.i = 1 /\ done
    BY <1>a, <2>1 DEF Moved
  <2>3. disk' = [disk EXCEPT ![Current.path] = call.before[call.i]]
    BY <2>1, <2>2
  <2>4. \A p \in Paths : disk'[p] = call.start[p]
    <3>1. 1 .. 1 - 1 = {}
      OBVIOUS
    <3> QED BY <1>6, <2>2, <2>3, <3>1, PutBack
  <2>5. disk' \in Disks
    BY <1>6, RollbackDisk
  <2> QED BY <1>0, <2>4, <2>5 DEF Disks
<1>7. CASE \/ RestoreOne
           \/ \E p \in Paths, c \in Foreign : External(p, c)
  BY <1>7, <1>0, <1>a, DisturbedCall DEF RestoreOne, External, Moved
<1>8. CASE EndRewind \/ GuardMoves \/ ModeMoves
  <2>1. call' = call
    BY <1>8 DEF EndRewind, GuardMoves, ModeMoves, workspaceVars
  <2> QED BY <2>1
<1> QED BY <1>1, <1>2, <1>3, <1>4, <1>5, <1>6, <1>7, <1>8 DEF WorkspaceNext, Tools

\* A patch that fails, wherever it fails and whatever it names twice, leaves every
\* file as it was before, so long as the rollback's own writes succeed and nobody
\* else writes.
THEOREM PatchesAllOrNothing == WorkspaceSpec => PatchAllOrNothing
<1> DEFINE Inv == ShapeInv /\ ApartInv /\ PatchInv
<1>1. PermissionsInit /\ WorkspaceInit => Inv
  <2> SUFFICES ASSUME WorkspaceInit
               PROVE  ShapeInv /\ ApartInv /\ PatchInv
    OBVIOUS
  <2>1. call.at = "none"
    BY NoCallIs DEF WorkspaceInit
  <2>2. call.before = <<>> /\ DOMAIN <<>> = {}
    BY DEF WorkspaceInit, NoCall
  <2> QED BY <2>1, <2>2, ShapeInit DEF ApartInv, PatchInv
<1>2. Inv /\ [WorkspaceNext]_<<guardVars, workspaceVars>> => Inv'
  <2>1. UNCHANGED <<guardVars, workspaceVars>> => UNCHANGED workspaceVars
    OBVIOUS
  <2> QED BY <2>1, ShapeStep, ApartStep, PatchStep
<1>3. Inv /\ [WorkspaceNext]_<<guardVars, workspaceVars>> =>
         [(call.tool = "patch" /\ call'.tool = "none" /\ result' = "failed" /\ call.clean)
            => disk' = call.start]_<<call, disk, result>>
  <2>1. UNCHANGED <<guardVars, workspaceVars>> => UNCHANGED <<call, disk, result>>
    BY DEF workspaceVars, diskVars
  <2> QED BY <2>1, FailedPatch
<1> QED BY <1>1, <1>2, <1>3, PTL DEF WorkspaceSpec, PatchAllOrNothing

-----------------------------------------------------------------------------
(* Credentials.                                                            *)

\* No checkpoint holds a file under a credential root, and no restore is about to
\* write one.
CredentialInv ==
    /\ \A k \in DOMAIN latest : latest[k].path \notin Protected
    /\ \A m \in DOMAIN rewind.todo : rewind.todo[m].path \notin Protected

\* A file under a credential root changes by another program's hand only: neither a
\* call nor a restore writes it (PlaceOf; the guard's look at the sensitive roots).
CredentialsUntouched ==
    [][\A p \in Protected : disk'[p] = disk[p] \/ externals' = externals + 1]_disk

LEMMA CredentialStep ==
    ASSUME GuardInv, ShapeInv, ConsentOfCall, CredentialInv,
           WorkspaceNext \/ UNCHANGED <<guardVars, workspaceVars>>
    PROVE  /\ CredentialInv'
           /\ \A p \in Protected : disk'[p] = disk[p] \/ externals' = externals + 1
<1>a. ASSUME UNCHANGED <<latest, disk>>, rewind' = rewind \/ rewind' = NoRewind \/ rewind'.todo = latest
      PROVE  CredentialInv' /\ \A p \in Protected : disk'[p] = disk[p]
  BY <1>a, NoRewindIs DEF CredentialInv
<1>b. call.at \in Applying => Current.path \notin Protected
  <2>1. call.at \in Applying => call.i \in DOMAIN call.work /\ Current = call.work[call.i]
    BY CurrentIs DEF Applying
  <2> QED BY <2>1 DEF ConsentOfCall
<1>0. Protected \subseteq Paths
  BY WorkspaceAssumption
<1>1. ASSUME NEW tool \in Tools, NEW work \in Works(tool), Begin(tool, work)
      PROVE  CredentialInv' /\ \A p \in Protected : disk'[p] = disk[p]
  <2>1. rewind'.todo = rewind.todo
    BY <1>1 DEF Begin, ShapeInv, RestoreShape, Restores
  <2> QED BY <1>1, <2>1 DEF Begin, diskVars, CredentialInv
<1>2. CASE Refused \/ Authorised \/ Read \/ BeginRewind \/ EndRewind \/ UNCHANGED workspaceVars
  <2>1. UNCHANGED <<latest, disk>> /\ (rewind' = rewind \/ rewind' = NoRewind \/ rewind'.todo = latest)
    BY <1>2 DEF Refused, Authorised, Read, BeginRewind, EndRewind, workspaceVars, diskVars
  <2> QED BY <1>a, <2>1
<1>3. ASSUME NEW known, NEW fits, Load(known, fits)
      PROVE  CredentialInv' /\ \A p \in Protected : disk'[p] = disk[p]
  BY <1>3, <1>a DEF Load, diskVars
<1>4. CASE Checkpoint
  <2>1. CASE latest' = latest
    BY <1>4, <1>a, <2>1 DEF Checkpoint
  <2>2. CASE latest' \in Snapshots(call.work)
    <3>1. \A k \in DOMAIN latest' : \E j \in DOMAIN call.work : call.work[j].path = latest'[k].path
      BY <1>4, <2>2, SnapshotsAre DEF Checkpoint
    <3>2. \A j \in DOMAIN call.work : call.work[j].path \notin Protected
      BY <1>4 DEF Checkpoint, ConsentOfCall, Applying
    <3> QED BY <1>4, <3>1, <3>2 DEF Checkpoint, CredentialInv
  <2> QED BY <1>4, <2>1, <2>2 DEF Checkpoint
<1>5. CASE Commit \/ Rollback
  <2>1. /\ call.at \in Applying /\ UNCHANGED <<latest, rewind>> /\ Current.path \in Paths
        /\ \/ disk' = disk
           \/ \E c : disk' = [disk EXCEPT ![Current.path] = c]
    <3>1. call.at \in Applying /\ call.at # "none" /\ UNCHANGED <<latest, rewind>>
      BY <1>5 DEF Commit, Rollback, Applying
    <3> QED BY <1>5, <3>1, CommitDisk, RollbackDisk, CurrentIs
  <2>2. \A p \in Protected : disk'[p] = disk[p]
    BY <1>0, <1>b, <2>1 DEF ShapeInv, CallShape, Disks
  <2> QED BY <2>1, <2>2 DEF CredentialInv
<1>6. CASE RestoreOne
  <2> DEFINE file == Head(rewind.todo)
  <2>1. rewind.todo # <<>> /\ rewind.todo \in Seq(Snaps) /\ latest' = latest
    BY <1>6 DEF RestoreOne, ShapeInv, RestoreShape, Restores
  <2>2. /\ file.path \in Paths /\ file.content \in Held
        /\ \/ /\ disk' = [disk EXCEPT ![file.path] = file.content]
              /\ rewind'.todo = Tail(rewind.todo)
           \/ rewind' = NoRewind /\ disk' = disk
    BY <1>6, RestoredOne
  <2>3. /\ file = rewind.todo[1] /\ 1 \in DOMAIN rewind.todo
        /\ \A m \in DOMAIN Tail(rewind.todo) : /\ Tail(rewind.todo)[m] = rewind.todo[m + 1]
                                               /\ m + 1 \in DOMAIN rewind.todo
    BY <2>1
  <2>4. file.path \notin Protected /\ \A m \in DOMAIN Tail(rewind.todo) : Tail(rewind.todo)[m].path \notin Protected
    BY <2>3 DEF CredentialInv
  <2> HIDE DEF file
  <2>5. \A q \in Paths : q # file.path => [disk EXCEPT ![file.path] = file.content][q] = disk[q]
    BY <2>2, OneWritten
  <2>6. \A p \in Protected : disk'[p] = disk[p]
    BY <1>0, <2>2, <2>4, <2>5
  <2> QED BY <1>a, <2>1, <2>2, <2>4, <2>6 DEF CredentialInv
<1>7. ASSUME NEW p \in Paths, NEW c \in Foreign, External(p, c)
      PROVE  CredentialInv' /\ externals' = externals + 1
  BY <1>7 DEF External, CredentialInv
<1> QED BY <1>1, <1>2, <1>3, <1>4, <1>5, <1>6, <1>7 DEF WorkspaceNext, Tools, GuardMoves, ModeMoves

\* In auto-accept too, and through /rewind, nothing the agent does writes a file
\* under a credential root.
THEOREM CredentialsNeverWritten == WorkspaceSpec => CredentialsUntouched
<1> DEFINE Inv == GuardInv /\ ShapeInv /\ ConsentOfCall /\ CredentialInv
<1>1. PermissionsInit /\ WorkspaceInit => Inv
  <2>1. WorkspaceInit => /\ DOMAIN latest = {} /\ DOMAIN rewind.todo = {}
    BY NoRewindIs DEF WorkspaceInit
  <2> QED BY <2>1, GuardInit, ShapeInit, NoCallIs DEF WorkspaceInit, ConsentOfCall, Applying, CredentialInv
<1>2. Inv /\ [WorkspaceNext]_<<guardVars, workspaceVars>> =>
         Inv' /\ [\A p \in Protected : disk'[p] = disk[p] \/ externals' = externals + 1]_disk
  BY ShapeStep, GuardAlwaysStep, ConsentStep, CredentialStep
<1> QED BY <1>1, <1>2, PTL DEF WorkspaceSpec, CredentialsUntouched

-----------------------------------------------------------------------------
(* The skills a conversation holds. *)

Entries == [by : {"user", "read"}, skills : SUBSET SkillNames, whole : SUBSET SkillNames]

SkillsShape ==
    /\ held \in Seq(Entries) /\ provided \subseteq SkillNames
    /\ working \in BOOLEAN /\ forgot \in BOOLEAN /\ "answer" \in DOMAIN lastRead

\* What counts as provided is marked in the conversation, unless it was compacted meanwhile.
ProvidedMarked == working /\ ~forgot => provided \subseteq SkillsMarked(held)

\* What was read in this task or before it counts as provided.
ReadProvided == working => \A i \in DOMAIN held : held[i].by = "read" => held[i].skills \subseteq provided

\* No two results are of one skill.
ReadOnce ==
    \A i, j \in DOMAIN held :
        (i # j /\ held[i].by = "read" /\ held[j].by = "read") => held[i].skills \cap held[j].skills = {}

RefusedMarked == working /\ lastRead.answer = "already" /\ ~forgot => lastRead.name \in SkillsMarked(held)

SkillsInv == SkillsShape /\ ProvidedMarked /\ ReadProvided /\ ReadOnce /\ RefusedMarked

\* One entry more: what was marked stays marked.
LEMMA EntryAdded ==
    ASSUME NEW h \in Seq(Entries), NEW e \in Entries
    PROVE  /\ Append(h, e) \in Seq(Entries) /\ SkillsMarked(Append(h, e)) = SkillsMarked(h) \union e.skills
           /\ DOMAIN h = 1 .. Len(h) /\ Len(h) \in Nat /\ DOMAIN Append(h, e) = 1 .. Len(h) + 1
           /\ \A i \in DOMAIN h : Append(h, e)[i] = h[i]
           /\ Append(h, e)[Len(h) + 1] = e
           /\ \A i \in DOMAIN Append(h, e) : i \in DOMAIN h \/ i = Len(h) + 1
<1> DEFINE g == Append(h, e)
<1>1. g \in Seq(Entries) /\ DOMAIN g = 1 .. Len(h) + 1 /\ DOMAIN h = 1 .. Len(h) /\ Len(h) \in Nat
      /\ g[Len(h) + 1] = e /\ \A i \in DOMAIN h : g[i] = h[i]
  OBVIOUS
<1> HIDE DEF g
<1>2. \A i \in DOMAIN g : i \in DOMAIN h \/ i = Len(h) + 1
  BY <1>1
<1>3. \A x : x \in SkillsMarked(g) <=> x \in SkillsMarked(h) \/ x \in e.skills
  <2> TAKE x
  <2>1. x \in SkillsMarked(g) <=> \E i \in DOMAIN g : x \in g[i].skills
    BY DEF SkillsMarked
  <2>2. x \in SkillsMarked(h) <=> \E i \in DOMAIN h : x \in h[i].skills
    BY DEF SkillsMarked
  <2>3. \A i \in DOMAIN h : i \in DOMAIN g
    BY <1>1
  <2>4. Len(h) + 1 \in DOMAIN g
    BY <1>1
  <2> QED BY <1>1, <1>2, <2>1, <2>2, <2>3, <2>4, Zenon
<1>4. SkillsMarked(g) = SkillsMarked(h) \union e.skills
  BY <1>3
<1> QED BY <1>1, <1>2, <1>4 DEF g

\* What lies before an entry goes.
LEMMA TailOfHeld ==
    ASSUME NEW h \in Seq(Entries), NEW m \in DOMAIN h
    PROVE  LET t == SubSeq(h, m, Len(h))
           IN  /\ t \in Seq(Entries)
               /\ \A i \in DOMAIN t : i + m - 1 \in DOMAIN h /\ t[i] = h[i + m - 1] /\ i \in Nat /\ m \in Nat
<1> DEFINE t == SubSeq(h, m, Len(h))
<1>1. m \in 1 .. Len(h) /\ Len(h) \in Nat /\ DOMAIN h = 1 .. Len(h)
  OBVIOUS
<1>2. t \in Seq(Entries) /\ Len(t) = Len(h) - m + 1 /\ \A i \in 1 .. Len(t) : t[i] = h[m + i - 1]
  BY <1>1
<1> HIDE DEF t
<1>3. DOMAIN t = 1 .. Len(t)
  BY <1>2
<1>4. \A i \in 1 .. Len(t) : i \in Nat /\ m \in Nat /\ i + m - 1 \in 1 .. Len(h) /\ m + i - 1 = i + m - 1
  BY <1>1, <1>2
<1>5. t \in Seq(Entries) /\ \A i \in DOMAIN t : i + m - 1 \in DOMAIN h /\ t[i] = h[i + m - 1] /\ i \in Nat /\ m \in Nat
  BY <1>1, <1>2, <1>3, <1>4
<1> QED BY <1>5 DEF t

LEMMA SkillsStart == ASSUME SkillsInit PROVE SkillsInv
<1>1. held = <<>> /\ provided = {} /\ working = FALSE /\ forgot = FALSE /\ lastRead = [name |-> 0, answer |-> "none", from |-> 0]
  BY DEF SkillsInit
<1>2. held \in Seq(Entries) /\ DOMAIN held = {}
  BY <1>1
<1>3. "answer" \in DOMAIN lastRead
  BY <1>1
<1> QED BY <1>1, <1>2, <1>3 DEF SkillsInv, SkillsShape, ProvidedMarked, ReadProvided, ReadOnce, RefusedMarked

LEMMA BeginSteps == ASSUME SkillsInv, NEW chosen \in SUBSET SkillNames, BeginSkillTask(chosen) PROVE SkillsInv'
<1> DEFINE e == [by |-> "user", skills |-> chosen, whole |-> {n \in chosen : LoadSkill(Discovered[n], n)}]
<1>1. /\ working' = TRUE /\ forgot' = FALSE /\ provided' = chosen \union SkillsMarked(held)
      /\ held' = Append(held, e) /\ lastRead' = [lastRead EXCEPT !.answer = "none"]
  BY DEF BeginSkillTask, SeedProvidedSkills
<1>2. e \in Entries /\ e.skills = chosen /\ e.by = "user"
  BY DEF Entries
<1>3. held \in Seq(Entries) /\ ReadOnce /\ "answer" \in DOMAIN lastRead
  BY DEF SkillsInv, SkillsShape
<1> HIDE DEF e
<1>4. /\ held' \in Seq(Entries) /\ SkillsMarked(held') = SkillsMarked(held) \union chosen
      /\ \A i \in DOMAIN held' : (i \in DOMAIN held /\ held'[i] = held[i]) \/ held'[i] = e
  BY <1>1, <1>2, <1>3, EntryAdded
<1>5. lastRead'.answer = "none" /\ "answer" \in DOMAIN lastRead'
  BY <1>1, <1>3
<1>6. \A i \in DOMAIN held : held[i].skills \subseteq SkillsMarked(held)
  BY DEF SkillsMarked
<1>7. SkillsMarked(held) \subseteq SkillNames
  <2>1. \A i \in DOMAIN held : held[i] \in Entries
    BY <1>3
  <2>2. \A i \in DOMAIN held : held[i].skills \subseteq SkillNames
    BY <2>1 DEF Entries
  <2> QED BY <2>2 DEF SkillsMarked
<1>8. SkillsShape' /\ ProvidedMarked' /\ RefusedMarked'
  <2>1. "already" # "none"
    OBVIOUS
  <2> QED BY <1>1, <1>4, <1>5, <1>7, <2>1 DEF SkillsShape, ProvidedMarked, RefusedMarked
<1>9. ReadProvided'
  <2>1. ASSUME NEW i \in DOMAIN held', held'[i].by = "read" PROVE held'[i].skills \subseteq provided'
    <3>1. "user" # "read"
      OBVIOUS
    <3>2. i \in DOMAIN held /\ held'[i] = held[i]
      BY <1>2, <1>4, <2>1, <3>1
    <3> QED BY <1>1, <1>6, <3>2
  <2> QED BY <2>1 DEF ReadProvided
<1>10. ReadOnce'
  <2>1. "user" # "read"
    OBVIOUS
  <2>2. \A i \in DOMAIN held' : held'[i].by = "read" => i \in DOMAIN held /\ held'[i] = held[i]
    BY <1>2, <1>4, <2>1
  <2> QED BY <1>3, <2>2 DEF ReadOnce
<1> QED BY <1>8, <1>9, <1>10 DEF SkillsInv

\* Folding and trimming leave the markers.
LEMMA ShortenSteps == ASSUME SkillsInv, NEW i \in DOMAIN held, Shorten(i) PROVE SkillsInv'
<1>1. UNCHANGED <<provided, working, lastRead, forgot>> /\ held' = [held EXCEPT ![i].whole = {}]
  BY DEF Shorten
<1>2. held \in Seq(Entries) /\ \A k \in DOMAIN held : held[k] \in Entries
  BY DEF SkillsInv, SkillsShape
<1> DEFINE e == [held[i] EXCEPT !.whole = {}]
<1>3. e \in Entries /\ e.by = held[i].by /\ e.skills = held[i].skills
  BY <1>2 DEF Entries
<1>4. held' = [held EXCEPT ![i] = e]
  BY <1>1
<1> HIDE DEF e
<1>5. held' \in Seq(Entries) /\ DOMAIN held' = DOMAIN held /\ \A k \in DOMAIN held : held'[k] = IF k = i THEN e ELSE held[k]
  BY <1>2, <1>3, <1>4
<1>6. \A k \in DOMAIN held' : held'[k].by = held[k].by /\ held'[k].skills = held[k].skills
  BY <1>3, <1>5
<1>7. SkillsMarked(held') = SkillsMarked(held)
  BY <1>5, <1>6 DEF SkillsMarked
<1>8. SkillsShape' /\ ProvidedMarked' /\ RefusedMarked'
  BY <1>1, <1>5, <1>7 DEF SkillsInv, SkillsShape, ProvidedMarked, RefusedMarked
<1>9. ReadProvided' /\ ReadOnce'
  BY <1>1, <1>5, <1>6 DEF SkillsInv, ReadProvided, ReadOnce
<1> QED BY <1>8, <1>9 DEF SkillsInv

\* A compaction keeps a prompt, and what lies after it.
LEMMA CompactSteps == ASSUME SkillsInv, CompactSkills PROVE SkillsInv'
<1> DEFINE prompts == {i \in DOMAIN held : held[i].by = "user"}
           kept == {i \in prompts : Cardinality({j \in prompts : j >= i}) <= KeepPrompts}
           m == Min(kept)
<1>1. /\ UNCHANGED <<provided, working, lastRead>> /\ forgot' = working /\ prompts # {}
      /\ held' = SubSeq(held, m, Len(held))
  BY DEF CompactSkills
<1>2. held \in Seq(Entries) /\ DOMAIN held = 1 .. Len(held) /\ Len(held) \in Nat /\ working \in BOOLEAN
  BY DEF SkillsInv, SkillsShape
<1>3. m \in DOMAIN held
  <2>1. prompts \in SUBSET Nat /\ \A i \in prompts : i <= Len(held)
    BY <1>2
  <2>2. PICK newest \in prompts : \A j \in prompts : j <= newest
    <3> HIDE DEF prompts, kept
    <3> QED BY <1>1, <1>2, <2>1, GreatestNumber
  <2>3. {j \in prompts : j >= newest} = {newest}
    BY <2>1, <2>2
  <2>4. Cardinality({newest}) = 1
    BY FS_Singleton
  <2>5. newest \in kept
    <3> HIDE DEF prompts
    <3>1. Cardinality({j \in prompts : j >= newest}) = 1
      BY <2>3, <2>4, Zenon
    <3>2. 1 <= KeepPrompts
      BY SkillsAssumption
    <3> QED BY <2>2, <3>1, <3>2
  <2>6. kept \in SUBSET Nat /\ kept # {} /\ kept \subseteq DOMAIN held
    BY <2>1, <2>5
  <2> HIDE DEF kept, m
  <2>7. \E i \in kept : \A j \in kept : i <= j
    BY <2>6, LeastNumber
  <2>8. m \in kept
    BY <2>7 DEF m, Min
  <2> QED BY <2>6, <2>8
<1> HIDE DEF prompts, kept, m
<1>4. /\ held' \in Seq(Entries)
      /\ \A i \in DOMAIN held' : i + m - 1 \in DOMAIN held /\ held'[i] = held[i + m - 1] /\ i \in Nat /\ m \in Nat
  BY <1>1, <1>2, <1>3, TailOfHeld
<1>5. SkillsShape' /\ ProvidedMarked' /\ RefusedMarked'
  BY <1>1, <1>2, <1>4 DEF SkillsInv, SkillsShape, ProvidedMarked, RefusedMarked
<1>6. ReadProvided'
  BY <1>1, <1>4 DEF SkillsInv, ReadProvided
<1>7. ReadOnce'
  <2> SUFFICES ASSUME NEW i \in DOMAIN held', NEW j \in DOMAIN held', i # j, held'[i].by = "read", held'[j].by = "read"
               PROVE  held'[i].skills \cap held'[j].skills = {}
    BY DEF ReadOnce
  <2>1. i + m - 1 \in DOMAIN held /\ j + m - 1 \in DOMAIN held /\ held'[i] = held[i + m - 1] /\ held'[j] = held[j + m - 1]
        /\ i \in Nat /\ j \in Nat /\ m \in Nat
    BY <1>4
  <2>2. i + m - 1 # j + m - 1
    BY <2>1
  <2> QED BY <2>1, <2>2 DEF SkillsInv, ReadOnce
<1> QED BY <1>5, <1>6, <1>7 DEF SkillsInv

\* What is read was not provided before, and is refused only when it was.
LEMMA ReadSteps == ASSUME SkillsInv, NEW name \in SkillNames, ReadSkill(name) PROVE SkillsInv'
<1>1. UNCHANGED <<working, forgot>> /\ working /\ held \in Seq(Entries) /\ provided \subseteq SkillNames
  BY DEF ReadSkill, SkillsInv, SkillsShape
<1>2. \E answer \in {"unknown", "already", "unreadable", "given"} : AnswerRead(name, answer)
  BY DEF ReadSkill
<1>3. "answer" \in DOMAIN lastRead'
  BY <1>2 DEF AnswerRead
<1>4. CASE UNCHANGED <<provided, held>> /\ (lastRead'.answer = "already" => lastRead'.name \in provided)
  <2>1. SkillsShape' /\ ProvidedMarked' /\ ReadProvided' /\ ReadOnce'
    BY <1>1, <1>3, <1>4 DEF SkillsInv, SkillsShape, ProvidedMarked, ReadProvided, ReadOnce
  <2>2. RefusedMarked'
    BY <1>1, <1>4 DEF SkillsInv, ProvidedMarked, RefusedMarked
  <2> QED BY <2>1, <2>2 DEF SkillsInv
<1>5. CASE name \notin provided /\ AnswerRead(name, "given") /\ provided' = provided \union {name}
           /\ held' = Append(held, [by |-> "read", skills |-> {name}, whole |-> {name}])
  <2> DEFINE e == [by |-> "read", skills |-> {name}, whole |-> {name}]
  <2>1. e \in Entries /\ e.skills = {name} /\ held' = Append(held, e)
    BY <1>5 DEF Entries
  <2> HIDE DEF e
  <2>2. /\ held' \in Seq(Entries) /\ SkillsMarked(held') = SkillsMarked(held) \union {name}
        /\ \A i \in DOMAIN held : held'[i] = held[i]
        /\ held'[Len(held) + 1] = e
        /\ \A i \in DOMAIN held' : i \in DOMAIN held \/ i = Len(held) + 1
    BY <1>1, <2>1, EntryAdded
  <2>3. lastRead'.answer = "given"
    BY <1>5 DEF AnswerRead
  <2>4. SkillsShape' /\ ProvidedMarked' /\ RefusedMarked'
    BY <1>1, <1>3, <1>5, <2>2, <2>3 DEF SkillsInv, SkillsShape, ProvidedMarked, RefusedMarked
  <2>5. \A i \in DOMAIN held : held[i].by = "read" => held[i].skills \subseteq provided
    BY <1>1 DEF SkillsInv, ReadProvided
  <2>6. ReadProvided'
    <3>1. ASSUME NEW i \in DOMAIN held', held'[i].by = "read" PROVE held'[i].skills \subseteq provided \union {name}
      BY <2>1, <2>2, <2>5, <3>1
    <3> QED BY <1>5, <3>1 DEF ReadProvided
  <2>7. ReadOnce'
    <3> SUFFICES ASSUME NEW i \in DOMAIN held', NEW j \in DOMAIN held', i # j, held'[i].by = "read", held'[j].by = "read"
                 PROVE  held'[i].skills \cap held'[j].skills = {}
      BY DEF ReadOnce
    <3>1. CASE i \in DOMAIN held /\ j \in DOMAIN held
      BY <2>2, <3>1 DEF SkillsInv, ReadOnce
    <3>2. CASE i \in DOMAIN held /\ j = Len(held) + 1
      BY <1>5, <2>1, <2>2, <2>5, <3>2
    <3>3. CASE j \in DOMAIN held /\ i = Len(held) + 1
      BY <1>5, <2>1, <2>2, <2>5, <3>3
    <3> QED BY <2>2, <3>1, <3>2, <3>3
  <2> QED BY <2>4, <2>6, <2>7 DEF SkillsInv
<1> QED BY <1>4, <1>5 DEF ReadSkill, AnswerRead

\* A step that leaves the conversation: the session's list, and a task that ends.
LEMMA HeldAlone ==
    ASSUME SkillsInv, UNCHANGED <<held, lastRead, forgot>>,
           UNCHANGED <<working, provided>> \/ (working' = FALSE /\ provided' \subseteq SkillNames)
    PROVE  SkillsInv'
<1>1. SkillsShape' /\ ReadOnce'
  BY DEF SkillsInv, SkillsShape, ReadOnce
<1>2. SkillsMarked(held') = SkillsMarked(held)
  OBVIOUS
<1>3. ProvidedMarked' /\ ReadProvided' /\ RefusedMarked'
  <2>1. CASE UNCHANGED <<working, provided>>
    BY <1>2, <2>1 DEF SkillsInv, ProvidedMarked, ReadProvided, RefusedMarked
  <2>2. CASE working' = FALSE
    BY <2>2 DEF ProvidedMarked, ReadProvided, RefusedMarked
  <2> QED BY <2>1, <2>2
<1> QED BY <1>1, <1>3 DEF SkillsInv

LEMMA SkillsSteps == ASSUME SkillsInv, [SkillsNext]_skillVars PROVE SkillsInv'
<1>1. CASE UNCHANGED <<held, lastRead, forgot, working, provided>>
  BY <1>1, HeldAlone
<1>2. CASE UNCHANGED skillVars \/ \E r \in Roots, n \in SkillNames, status \in {"good", "bad", "gone"} : Install(r, n, status)
  BY <1>1, <1>2 DEF skillVars, Install
<1>3. CASE OpenCatalog \/ EndSkillTask
  <2>1. UNCHANGED <<held, lastRead, forgot>> /\ working' = FALSE /\ provided' \subseteq SkillNames
    BY <1>3 DEF OpenCatalog, EndSkillTask, SkillsInv, SkillsShape
  <2> QED BY <2>1, HeldAlone
<1> QED BY <1>2, <1>3, BeginSteps, ShortenSteps, CompactSteps, ReadSteps DEF SkillsNext

\* No skill is withheld that a compaction took out before the task, and none is read twice
\* into one conversation.
THEOREM SkillsAlwaysOnce == SkillsSpec => []SkillsComeOnce
<1>1. SkillsInit => SkillsInv
  BY SkillsStart
<1>2. SkillsInv /\ [SkillsNext]_skillVars => SkillsInv'
  BY SkillsSteps
<1>3. SkillsInv => SkillsComeOnce
  BY DEF SkillsInv, RefusedMarked, ReadOnce, SkillsComeOnce
<1> QED BY <1>1, <1>2, <1>3, PTL DEF SkillsSpec

-----------------------------------------------------------------------------
(* The to-dos. *)

ListedLines == UNION {ToSet(lines) : lines \in Checklists}
ItemOf(line) == [title |-> line.title, status |-> Status(line)]
Items == {ItemOf(line) : line \in ListedLines}
ItemList(line) == IF IsItem(line) THEN <<ItemOf(line)>> ELSE <<>>
OpenList(item) == IF item.status = "completed" THEN <<>> ELSE <<item>>

-----------------------------------------------------------------------------
(* Reading a list. *)

\* The status of an item says whether it is still to be done.
LEMMA StatusIs == ASSUME NEW line PROVE ToDo(line) <=> IsItem(line) /\ ItemOf(line).status # "completed"
<1>1. ItemOf(line).status = Status(line)
  BY DEF ItemOf
<1>2. CASE line.marker = "in progress"
  BY <1>1, <1>2 DEF Status, ToDo
<1>3. CASE line.marker # "in progress" /\ line.box = "x"
  BY <1>1, <1>3 DEF Status, ToDo
<1>4. CASE line.marker # "in progress" /\ line.box # "x"
  BY <1>1, <1>4 DEF Status, ToDo
<1> QED BY <1>2, <1>3, <1>4

\* The items of a list are read one line after the other.
LEMMA ParseRun ==
    ASSUME NEW lines \in Seq(ListedLines)
    PROVE  /\ ParseChecklist(lines) \in Seq(Items)
           /\ \E run \in [0 .. Len(lines) -> Seq(Items)] :
                 /\ run[0] = <<>> /\ run[Len(lines)] = ParseChecklist(lines)
                 /\ \A k \in 1 .. Len(lines) : run[k] = run[k - 1] \o ItemList(lines[k])
<1> DEFINE X == Seq(Items)
           seqs == [i \in DOMAIN lines |-> ItemList(lines[i])]
<1>1. DOMAIN lines = 1 .. Len(lines) /\ Len(lines) \in Nat /\ \A i \in DOMAIN lines : lines[i] \in ListedLines
  OBVIOUS
<1>2. \A i \in DOMAIN lines : ItemList(lines[i]) \in X
  <2> TAKE i \in DOMAIN lines
  <2>1. ItemOf(lines[i]) \in Items
    BY <1>1 DEF Items
  <2> HIDE DEF Items
  <2> QED BY <2>1 DEF ItemList
<1>3. ParseChecklist(lines) = FlattenSeq(seqs)
  BY DEF ParseChecklist, ItemList, ItemOf
<1> HIDE DEF X
<1>4. seqs \in [1 .. Len(lines) -> X] /\ \A k \in 1 .. Len(lines) : seqs[k] = ItemList(lines[k])
  BY <1>1, <1>2
<1> HIDE DEF seqs
<1>5. seqs \in Seq(X) /\ Len(seqs) = Len(lines)
  BY <1>1, <1>4
<1>6. seqs \in Seq(Seq(Items))
  BY <1>5 DEF X
<1>7. FlattenSeq(seqs) \in Seq(Items)
  BY <1>6, FlattenRun
<1>8. PICK run \in [0 .. Len(seqs) -> Seq(Items)] :
         /\ run[0] = <<>> /\ run[Len(seqs)] = FlattenSeq(seqs)
         /\ \A k \in 1 .. Len(seqs) : run[k] = run[k - 1] \o seqs[k]
  BY <1>6, FlattenRun
<1>9. /\ run \in [0 .. Len(lines) -> Seq(Items)] /\ run[0] = <<>> /\ run[Len(lines)] = ParseChecklist(lines)
      /\ \A k \in 1 .. Len(lines) : run[k] = run[k - 1] \o ItemList(lines[k])
  BY <1>3, <1>4, <1>5, <1>8
<1> QED BY <1>3, <1>7, <1>9

\* There is nothing in an empty list.
LEMMA NoList == ParseChecklist(<<>>) = <<>> /\ OpenItems(<<>>) = <<>>
<1> DEFINE none == [i \in DOMAIN <<>> |-> IF <<>>[i].status = "completed" THEN <<>> ELSE <<<<>>[i]>>]
           no == [i \in DOMAIN <<>> |-> IF IsItem(<<>>[i]) THEN <<[title |-> <<>>[i].title, status |-> Status(<<>>[i])]>> ELSE <<>>]
<1>1. none = <<>> /\ no = <<>>
  OBVIOUS
<1>2. <<>> \in Seq(Seq(Items)) /\ Len(<<>>) = 0
  OBVIOUS
<1>3. \A k \in 1 .. Len(<<>>) : <<>>[k] = <<>>
  BY <1>2
<1>4. FlattenSeq(<<>>) = <<>>
  BY <1>2, <1>3, FlattenEmpties
<1> QED BY <1>1, <1>4 DEF OpenItems, ParseChecklist

\* One item more.
LEMMA OpenGrows ==
    ASSUME NEW steps \in Seq(Items), NEW item \in Items
    PROVE  /\ OpenItems(steps) \in Seq(Items)
           /\ OpenItems(steps \o <<item>>) = OpenItems(steps) \o OpenList(item)
<1> DEFINE X == Seq(Items)
           more == steps \o <<item>>
           k == [i \in DOMAIN steps |-> OpenList(steps[i])]
           l == [i \in DOMAIN more |-> OpenList(more[i])]
<1>1. /\ DOMAIN steps = 1 .. Len(steps) /\ Len(steps) \in Nat /\ \A i \in DOMAIN steps : steps[i] \in Items
  OBVIOUS
<1>2. /\ more \in Seq(Items) /\ DOMAIN more = 1 .. Len(steps) + 1
      /\ \A i \in 1 .. Len(steps) : more[i] = steps[i]
      /\ more[Len(steps) + 1] = item
  OBVIOUS
<1> HIDE DEF more
<1>3. \A i \in DOMAIN more : more[i] \in Items
  BY <1>2
<1>4. \A s \in Items : OpenList(s) \in X
  BY DEF OpenList
<1>5. OpenItems(steps) = FlattenSeq(k) /\ OpenItems(more) = FlattenSeq(l)
  BY DEF OpenItems, OpenList
<1> HIDE DEF X
<1>6. k \in [1 .. Len(steps) -> X] /\ l \in [1 .. Len(steps) + 1 -> X]
  BY <1>1, <1>2, <1>3, <1>4
<1>7. (\A i \in 1 .. Len(steps) : l[i] = k[i]) /\ l[Len(steps) + 1] = OpenList(item)
  BY <1>1, <1>2
<1> HIDE DEF k, l
<1>8. k \in Seq(X) /\ Len(k) = Len(steps) /\ l \in Seq(X) /\ Len(l) = Len(steps) + 1
  BY <1>1, <1>6
<1>9. k \in Seq(Seq(Items)) /\ l \in Seq(Seq(Items)) /\ OpenList(item) \in Seq(Items)
  BY <1>4, <1>8 DEF X
<1>10. Len(l) = Len(k) + 1 /\ (\A i \in 1 .. Len(k) : l[i] = k[i]) /\ l[Len(k) + 1] = OpenList(item)
  BY <1>7, <1>8
<1>11. FlattenSeq(l) = FlattenSeq(k) \o OpenList(item)
  BY <1>9, <1>10, ListGrows
<1>12. FlattenSeq(k) \in Seq(Items)
  BY <1>9, FlattenRun
<1> QED BY <1>5, <1>11, <1>12 DEF more

\* What is open in a list: as many items as its lines say, each by the title of one of them.
OpenIn(items, lines, k) ==
    LET left == {i \in 1 .. k : ToDo(lines[i])}
    IN  /\ Len(OpenItems(items)) = Cardinality(left)
        /\ \A j \in DOMAIN OpenItems(items) : \E i \in left : lines[i].title = OpenItems(items)[j].title

LEMMA OpenStep ==
    ASSUME NEW lines \in Seq(ListedLines), NEW k \in 1 .. Len(lines), NEW items \in Seq(Items), OpenIn(items, lines, k - 1)
    PROVE  OpenIn(items \o ItemList(lines[k]), lines, k)
<1> DEFINE a == {i \in 1 .. k - 1 : ToDo(lines[i])}
           b == {i \in 1 .. k : ToDo(lines[i])}
           o == OpenItems(items)
           more == items \o ItemList(lines[k])
<1>1. k \in Nat /\ k - 1 \in Nat /\ lines[k] \in ListedLines
  OBVIOUS
<1>2. a \subseteq 1 .. k - 1 /\ IsFiniteSet(a) /\ Cardinality(a) \in Nat /\ k \notin a
  <2>1. a \subseteq 1 .. k - 1
    OBVIOUS
  <2>2. IsFiniteSet(1 .. k - 1)
    BY <1>1, FS_Interval
  <2> HIDE DEF a
  <2>3. IsFiniteSet(a)
    BY <2>1, <2>2, FS_Subset
  <2>4. k \notin a
    BY <1>1, <2>1
  <2> QED BY <2>1, <2>3, <2>4, FS_CardinalityType
<1>3. b = IF ToDo(lines[k]) THEN a \union {k} ELSE a
  BY <1>1
<1>4. Len(o) = Cardinality(a) /\ \A j \in DOMAIN o : \E i \in a : lines[i].title = o[j].title
  BY DEF OpenIn
<1>5. o \in Seq(Items)
  <2>1. ItemOf(lines[k]) \in Items
    BY <1>1 DEF Items
  <2> QED BY <2>1, OpenGrows
<1> HIDE DEF a, b, o
<1>6. CASE ~ToDo(lines[k])
  <2>1. b = a
    BY <1>3, <1>6
  <2>2. OpenItems(more) = o
    <3>1. CASE IsItem(lines[k])
      <4> DEFINE item == ItemOf(lines[k])
      <4>1. more = items \o <<item>> /\ item \in Items /\ item.status = "completed"
        BY <1>1, <1>6, <3>1, StatusIs DEF ItemList, Items
      <4> HIDE DEF item, more
      <4>2. OpenItems(more) = o \o <<>>
        BY <4>1, OpenGrows DEF o, OpenList
      <4> QED BY <1>5, <4>2
    <3>2. CASE ~IsItem(lines[k])
      <4>1. more = items
        BY <3>2 DEF ItemList
      <4> QED BY <4>1 DEF o
    <3> QED BY <3>1, <3>2
  <2> QED BY <1>4, <2>1, <2>2 DEF OpenIn, b
<1>7. CASE ToDo(lines[k])
  <2> DEFINE item == ItemOf(lines[k])
             w == OpenItems(more)
  <2>1. more = items \o <<item>> /\ item \in Items /\ item.status # "completed" /\ item.title = lines[k].title
    BY <1>1, <1>7, StatusIs DEF ItemList, Items, ItemOf
  <2> HIDE DEF item, more
  <2>2. w = o \o <<item>>
    BY <2>1, OpenGrows DEF o, OpenList
  <2> HIDE DEF w
  <2>3. Len(w) = Len(o) + 1 /\ DOMAIN w = 1 .. Len(o) + 1 /\ DOMAIN o = 1 .. Len(o) /\ Len(o) \in Nat
        /\ (\A j \in 1 .. Len(o) : w[j] = o[j]) /\ w[Len(o) + 1] = item
    BY <1>5, <2>1, <2>2
  <2>4. b = a \union {k}
    BY <1>3, <1>7
  <2>5. Cardinality(b) = Cardinality(a) + 1
    BY <1>2, <2>4, FS_AddElement
  <2>6. ASSUME NEW j \in DOMAIN w PROVE \E i \in b : lines[i].title = w[j].title
    <3>1. CASE j \in DOMAIN o
      BY <1>4, <2>3, <2>4, <3>1
    <3>2. CASE j = Len(o) + 1
      BY <2>1, <2>3, <2>4, <3>2
    <3> QED BY <2>3, <3>1, <3>2
  <2>7. Len(w) = Cardinality(b)
    BY <1>4, <2>3, <2>5
  <2> QED BY <2>6, <2>7 DEF OpenIn, b, w, more
<1> QED BY <1>6, <1>7

LEMMA OpenCounted ==
    ASSUME NEW lines \in Seq(ListedLines)
    PROVE  OpenIn(ParseChecklist(lines), lines, Len(lines)) /\ OpenItems(ParseChecklist(lines)) \in Seq(Items)
<1>1. PICK run \in [0 .. Len(lines) -> Seq(Items)] :
         /\ run[0] = <<>> /\ run[Len(lines)] = ParseChecklist(lines)
         /\ \A k \in 1 .. Len(lines) : run[k] = run[k - 1] \o ItemList(lines[k])
  BY ParseRun
<1> DEFINE P == {k \in 0 .. Len(lines) : OpenIn(run[k], lines, k)}
<1>2. Len(lines) \in Nat
  OBVIOUS
<1>3. OpenItems(<<>>) = <<>>
  BY NoList
<1>9. 0 \in P
  <2>2. {i \in 1 .. 0 : ToDo(lines[i])} = {}
    OBVIOUS
  <2>3. Cardinality({}) = 0
    BY FS_EmptySet
  <2>4. Len(<<>>) = 0 /\ DOMAIN <<>> = {}
    OBVIOUS
  <2>5. OpenIn(<<>>, lines, 0)
    BY <1>3, <2>2, <2>3, <2>4 DEF OpenIn
  <2> QED BY <1>1, <1>2, <2>5
<1>4. \A i \in 0 .. Len(lines) : i < Len(lines) /\ i \in P => i + 1 \in P
  <2> TAKE i \in 0 .. Len(lines)
  <2> HAVE i < Len(lines) /\ i \in P
  <2>1. i + 1 \in 1 .. Len(lines) /\ (i + 1) - 1 = i /\ i + 1 \in 0 .. Len(lines) /\ run[i] \in Seq(Items)
    BY <1>1, <1>2
  <2>2. run[i + 1] = run[i] \o ItemList(lines[i + 1]) /\ OpenIn(run[i], lines, (i + 1) - 1)
    BY <1>1, <2>1
  <2>3. OpenIn(run[i] \o ItemList(lines[i + 1]), lines, i + 1)
    BY <2>1, <2>2, OpenStep
  <2> QED BY <2>1, <2>2, <2>3
<1> HIDE DEF P
<1>5. 0 .. Len(lines) \subseteq P
  BY <1>2, <1>4, <1>9, UpTo
<1>6. OpenIn(run[Len(lines)], lines, Len(lines))
  BY <1>2, <1>5 DEF P
<1>7. ParseChecklist(lines) \in Seq(Items)
  BY ParseRun
<1>8. OpenItems(ParseChecklist(lines)) \in Seq(Items)
  <2>1. CASE Items = {}
    <3>1. ParseChecklist(lines) = <<>>
      BY <1>7, <2>1
    <3>2. OpenItems(ParseChecklist(lines)) = OpenItems(<<>>)
      BY <3>1
    <3>3. <<>> \in Seq(Items)
      OBVIOUS
    <3> QED BY <1>3, <3>2, <3>3
  <2>2. CASE Items # {}
    BY <1>7, <2>2, OpenGrows
  <2> QED BY <2>1, <2>2
<1> QED BY <1>1, <1>6, <1>8

-----------------------------------------------------------------------------
(* The engine, its file and the screen. *)

Plans == [of : {"keeper", "built", "former"}, steps : Seq(Items)]
Keepers == [active : ListPlaces \union {NoPlace}, steps : Seq(Items)]

ListShape ==
    /\ files \in [ListPlaces -> Checklists] /\ keeper \in Keepers
    /\ former \subseteq Keepers /\ built \subseteq Keepers /\ \A b \in built : b.active = NoPlace
    /\ mail \in Seq(Plans) /\ stale \in BOOLEAN /\ misplaced \in BOOLEAN

\* The engine has what is in its file.
KeeperRead == ~stale => keeper.steps = ParseChecklist(files[ChecklistPath(keeper.active)])

\* The last plan on its way, or else the one on the screen, is the engine's.
PanelFollows ==
    ~misplaced /\ built = {} => IF mail = <<>> THEN panel = keeper.steps ELSE Last(mail).steps = keeper.steps

\* What an answer named as open is what the file had open then.
Truthful(d) ==
    d.current =>
        LET left == {i \in DOMAIN d.file : ToDo(d.file[i])}
        IN  /\ d.open = Cardinality(left)
            /\ \A k \in DOMAIN d.named : \E i \in left : d.file[i].title = d.named[k].title

ListInv == ListShape /\ KeeperRead /\ PanelFollows /\ Truthful(disclosed)

LEMMA ListLines ==
    ASSUME ListShape
    PROVE  /\ \A c \in Checklists : c \in Seq(ListedLines) /\ ParseChecklist(c) \in Seq(Items)
           /\ \A k \in Keepers : ChecklistPath(k.active) \in ListPlaces
           /\ \A p \in ListPlaces : files[p] \in Checklists
<1>1. \A c \in Checklists : c \in Seq(ListedLines)
  BY ChecklistAssumption DEF ListedLines
<1>2. \A k \in Keepers : ChecklistPath(k.active) \in ListPlaces
  BY ChecklistAssumption DEF Keepers, ChecklistPath
<1> QED BY <1>1, <1>2, ParseRun DEF ListShape

\* A plan more, and the first one gone.
LEMMA MailMoves ==
    ASSUME NEW m \in Seq(Plans)
    PROVE  /\ \A e \in Plans : Append(m, e) \in Seq(Plans) /\ Append(m, e) # <<>> /\ Last(Append(m, e)) = e
           /\ m # <<>> => /\ Tail(m) \in Seq(Plans)
                          /\ IF Tail(m) = <<>> THEN Head(m) = Last(m) ELSE Last(Tail(m)) = Last(m)
<1>1. ASSUME NEW e \in Plans PROVE Append(m, e) \in Seq(Plans) /\ Append(m, e) # <<>> /\ Last(Append(m, e)) = e
  <2>1. Append(m, e) \in Seq(Plans) /\ Len(Append(m, e)) = Len(m) + 1 /\ Append(m, e)[Len(m) + 1] = e /\ Len(m) \in Nat
    OBVIOUS
  <2> QED BY <2>1 DEF Last
<1>2. ASSUME m # <<>> PROVE Tail(m) \in Seq(Plans) /\ IF Tail(m) = <<>> THEN Head(m) = Last(m) ELSE Last(Tail(m)) = Last(m)
  <2>1. Tail(m) \in Seq(Plans) /\ Len(Tail(m)) = Len(m) - 1 /\ Len(m) \in Nat \ {0} /\ Head(m) = m[1]
        /\ \A i \in 1 .. Len(m) - 1 : Tail(m)[i] = m[i + 1]
    BY <1>2
  <2>2. CASE Tail(m) = <<>>
    <3>1. Len(m) = 1
      BY <2>1, <2>2
    <3> QED BY <2>1, <2>2, <3>1 DEF Last
  <2>3. CASE Tail(m) # <<>>
    <3>1. Len(m) - 1 \in 1 .. Len(m) - 1
      BY <2>1, <2>3
    <3> QED BY <2>1, <2>3, <3>1 DEF Last
  <2> QED BY <2>1, <2>2, <2>3
<1> QED BY <1>1, <1>2

LEMMA ListStart == ASSUME ListInit PROVE ListInv
<1>1. /\ keeper = [active |-> NoPlace, steps |-> <<>>] /\ files = [p \in ListPlaces |-> <<>>]
      /\ former = {} /\ built = {} /\ mail = <<>> /\ panel = <<>> /\ stale = FALSE /\ misplaced = FALSE
  BY DEF ListInit
<1>2. keeper \in Keepers
  <2>1. <<>> \in Seq(Items)
    OBVIOUS
  <2> QED BY <1>1, <2>1 DEF Keepers
<1>3. ListShape
  <2>1. <<>> \in Seq(Plans)
    OBVIOUS
  <2> QED BY <1>1, <1>2, <2>1, ChecklistAssumption DEF ListShape
<1>4. ParseChecklist(<<>>) = <<>>
  BY NoList
<1>5. files[ChecklistPath(keeper.active)] = <<>>
  BY <1>1, ChecklistAssumption DEF ChecklistPath
<1>6. KeeperRead /\ PanelFollows
  BY <1>1, <1>4, <1>5 DEF KeeperRead, PanelFollows
<1>7. Truthful(disclosed)
  BY DEF ListInit, NothingDisclosed, Truthful
<1> QED BY <1>3, <1>6, <1>7 DEF ListInv

\* The engine reads the list in a place of the session.
LEMMA ReadListSteps ==
    ASSUME ListInv, NEW targets, targets[1] \in ListPlaces, NEW content \in Checklists, ToolWrites(targets, content)
    PROVE  ListInv'
<1> DEFINE after == [p \in ListPlaces |-> IF p \in ToSet(targets) THEN content ELSE files[p]]
           place == targets[1]
           steps == ParseChecklist(after[ChecklistPath(place)])
<1>1. /\ UNCHANGED <<former, built, panel, disclosed, misplaced>> /\ files' = after
      /\ keeper' = [active |-> place, steps |-> steps] /\ stale' = FALSE
      /\ mail' = IF steps = keeper.steps THEN mail ELSE Append(mail, [of |-> "keeper", steps |-> steps])
  BY DEF ToolWrites, AdoptAndRefresh, RefreshChecklist
<1>2. place \in ListPlaces
  OBVIOUS
<1>3. ListShape
  BY DEF ListInv
<1>4. after \in [ListPlaces -> Checklists]
  BY <1>3, ListLines
<1>5. ChecklistPath(place) \in ListPlaces
  BY <1>2, ChecklistAssumption DEF ChecklistPath
<1> HIDE DEF after, place
<1>6. steps \in Seq(Items)
  BY <1>3, <1>4, <1>5, ListLines
<1>7. steps = ParseChecklist(files'[ChecklistPath(place)])
  BY <1>1
<1> HIDE DEF steps
<1>8. keeper' \in Keepers /\ keeper'.active = place /\ keeper'.steps = steps
  BY <1>1, <1>2, <1>6 DEF Keepers
<1>9. /\ mail' \in Seq(Plans)
      /\ \/ mail' = mail /\ steps = keeper.steps
         \/ mail' # <<>> /\ Last(mail').steps = steps
  <2> DEFINE e == [of |-> "keeper", steps |-> steps]
  <2>1. e \in Plans /\ e.steps = steps /\ mail \in Seq(Plans)
    BY <1>3, <1>6 DEF Plans, ListShape
  <2>2. CASE steps = keeper.steps
    <3>1. mail' = mail
      BY <1>1, <2>2
    <3> QED BY <2>1, <2>2, <3>1
  <2>3. CASE steps # keeper.steps
    <3>1. mail' = Append(mail, e)
      BY <1>1, <2>3
    <3> HIDE DEF e
    <3> QED BY <2>1, <3>1, MailMoves
  <2> QED BY <2>2, <2>3
<1>10. ListShape'
  <2>1. mail' \in Seq(Plans)
    BY <1>9
  <2> QED BY <1>1, <1>3, <1>4, <1>8, <2>1 DEF ListShape
<1>11. KeeperRead'
  BY <1>7, <1>8 DEF KeeperRead
<1>12. PanelFollows'
  BY <1>1, <1>8, <1>9 DEF ListInv, PanelFollows
<1>13. Truthful(disclosed)'
  BY <1>1 DEF ListInv, Truthful
<1> QED BY <1>10, <1>11, <1>12, <1>13 DEF ListInv

\* Others write; the engine does not know.
LEMMA OthersSteps == ASSUME ListInv, NEW place \in ListPlaces, NEW content \in Checklists, OthersWrite(place, content) PROVE ListInv'
<1>1. /\ UNCHANGED <<keeper, former, built, mail, panel, disclosed, misplaced>>
      /\ files' = [files EXCEPT ![place] = content] /\ stale' = (stale \/ place = ChecklistPath(keeper.active))
  BY DEF OthersWrite
<1>2. ListShape /\ ChecklistPath(keeper.active) \in ListPlaces
  BY ListLines DEF ListInv, ListShape
<1>3. ListShape'
  BY <1>1, <1>2 DEF ListShape
<1>4. ~stale' => files'[ChecklistPath(keeper.active)] = files[ChecklistPath(keeper.active)]
  BY <1>1, <1>2 DEF ListShape
<1>5. KeeperRead'
  BY <1>1, <1>4 DEF ListInv, KeeperRead
<1>6. PanelFollows' /\ Truthful(disclosed)'
  BY <1>1 DEF ListInv, PanelFollows, Truthful
<1> QED BY <1>3, <1>5, <1>6 DEF ListInv

LEMMA FormerSteps ==
    ASSUME ListInv, NEW engine \in former, NEW place \in ListPlaces, NEW content \in Checklists,
           FormerWrites(engine, place, content)
    PROVE  ListInv'
<1> DEFINE steps == ParseChecklist(content)
           e == [of |-> "former", steps |-> steps]
           k == [active |-> place, steps |-> steps]
<1>1. /\ UNCHANGED <<keeper, built, panel, disclosed>> /\ misplaced' = TRUE
      /\ files' = [files EXCEPT ![place] = content] /\ stale' = (stale \/ place = ChecklistPath(keeper.active))
      /\ former' = {k} /\ mail' \in {mail, Append(mail, e)}
  BY DEF FormerWrites
<1>2. ListShape /\ ChecklistPath(keeper.active) \in ListPlaces /\ steps \in Seq(Items)
  BY ListLines DEF ListInv, ListShape
<1> HIDE DEF steps
<1>3. e \in Plans /\ k \in Keepers
  BY <1>2 DEF Plans, Keepers
<1> HIDE DEF e, k
<1>4. mail' \in Seq(Plans)
  <2>1. mail \in Seq(Plans)
    BY <1>2 DEF ListShape
  <2>2. Append(mail, e) \in Seq(Plans)
    BY <1>3, <2>1, MailMoves
  <2> QED BY <1>1, <2>1, <2>2
<1>5. ListShape'
  BY <1>1, <1>2, <1>3, <1>4 DEF ListShape
<1>6. ~stale' => files'[ChecklistPath(keeper.active)] = files[ChecklistPath(keeper.active)]
  BY <1>1, <1>2 DEF ListShape
<1>7. KeeperRead'
  BY <1>1, <1>6 DEF ListInv, KeeperRead
<1>8. PanelFollows' /\ Truthful(disclosed)'
  BY <1>1 DEF ListInv, PanelFollows, Truthful
<1> QED BY <1>5, <1>7, <1>8 DEF ListInv

\* The answer names what is open in the file, if the engine has read it.
LEMMA DiscloseSteps == ASSUME ListInv, Disclose PROVE ListInv'
<1> DEFINE file == files[ChecklistPath(keeper.active)]
           open == OpenItems(keeper.steps)
           n == IF Len(open) < 3 THEN Len(open) ELSE 3
           d == [named |-> SubSeq(open, 1, n), open |-> Len(open), file |-> file, current |-> ~stale]
<1>1. UNCHANGED <<files, keeper, former, built, mail, panel, stale, misplaced>> /\ disclosed' = d
  BY DEF Disclose
<1>2. ListShape' /\ KeeperRead' /\ PanelFollows'
  BY <1>1 DEF ListInv, ListShape, KeeperRead, PanelFollows
<1>3. ASSUME ~stale PROVE Truthful(d)
  <2>1. keeper.steps = ParseChecklist(file) /\ file \in Seq(ListedLines) /\ DOMAIN file = 1 .. Len(file)
    BY <1>3, ListLines DEF ListInv, ListShape, KeeperRead
  <2> HIDE DEF file
  <2>2. OpenIn(keeper.steps, file, Len(file)) /\ open \in Seq(Items)
    BY <2>1, OpenCounted
  <2>3. /\ Len(open) = Cardinality({i \in DOMAIN file : ToDo(file[i])})
        /\ \A j \in DOMAIN open : \E i \in {i \in DOMAIN file : ToDo(file[i])} : file[i].title = open[j].title
    BY <2>1, <2>2 DEF OpenIn
  <2> DEFINE named == SubSeq(open, 1, n)
             left == {i \in DOMAIN file : ToDo(file[i])}
  <2> HIDE DEF open
  <2>4. n \in Nat /\ n <= Len(open) /\ Len(open) \in Nat
    BY <2>2
  <2> HIDE DEF n
  <2>5. \A j \in DOMAIN named : j \in DOMAIN open /\ named[j] = open[j]
    BY <2>2, <2>4
  <2> HIDE DEF named, left
  <2>6. \A j \in DOMAIN named : \E i \in left : file[i].title = named[j].title
    BY <2>3, <2>5 DEF left
  <2>7. d.named = named /\ d.open = Len(open) /\ d.file = file
    BY DEF named
  <2>8. Len(open) = Cardinality(left)
    BY <2>3 DEF left
  <2> HIDE DEF d
  <2> QED BY <2>6, <2>7, <2>8 DEF Truthful, left
<1>4. d.current = ~stale
  OBVIOUS
<1> HIDE DEF d
<1>5. Truthful(d)
  BY <1>3, <1>4 DEF Truthful
<1>6. Truthful(disclosed)'
  BY <1>1, <1>5 DEF Truthful
<1> QED BY <1>2, <1>6 DEF ListInv

-----------------------------------------------------------------------------
(* Sessions. *)

\* A plan is shown in its turn.
LEMMA ShowSteps == ASSUME ListInv, ShowPlan PROVE ListInv'
<1>1. /\ UNCHANGED <<files, keeper, former, built, disclosed, stale, misplaced>>
      /\ mail # <<>> /\ panel' = Head(mail).steps /\ mail' = Tail(mail)
  BY DEF ShowPlan
<1>2. ListShape /\ mail \in Seq(Plans)
  BY DEF ListInv, ListShape
<1>3. Tail(mail) \in Seq(Plans) /\ IF Tail(mail) = <<>> THEN Head(mail) = Last(mail) ELSE Last(Tail(mail)) = Last(mail)
  BY <1>1, <1>2, MailMoves
<1>4. ListShape'
  BY <1>1, <1>2, <1>3 DEF ListShape
<1>5. KeeperRead' /\ Truthful(disclosed)'
  BY <1>1 DEF ListInv, KeeperRead, Truthful
<1>6. PanelFollows'
  BY <1>1, <1>3 DEF ListInv, PanelFollows
<1> QED BY <1>4, <1>5, <1>6 DEF ListInv

\* A session is built, and dropped, or becomes the one on the screen.
LEMMA BuildSteps == ASSUME ListInv, BuildSession PROVE ListInv'
<1> DEFINE steps == ParseChecklist(files[Root])
           e == [of |-> "built", steps |-> steps]
           k == [active |-> NoPlace, steps |-> steps]
<1>1. /\ UNCHANGED <<files, keeper, former, panel, disclosed, stale, misplaced>>
      /\ built' = {k} /\ mail' \in {mail, Append(mail, e)}
  BY DEF BuildSession
<1>2. ListShape /\ steps \in Seq(Items)
  BY ListLines, ChecklistAssumption DEF ListInv
<1> HIDE DEF steps
<1>3. e \in Plans /\ k \in Keepers /\ k.active = NoPlace
  BY <1>2 DEF Plans, Keepers
<1> HIDE DEF e, k
<1>4. mail' \in Seq(Plans)
  <2>1. mail \in Seq(Plans)
    BY <1>2 DEF ListShape
  <2>2. Append(mail, e) \in Seq(Plans)
    BY <1>3, <2>1, MailMoves
  <2> QED BY <1>1, <2>1, <2>2
<1>5. ListShape'
  BY <1>1, <1>2, <1>3, <1>4 DEF ListShape
<1>6. KeeperRead' /\ PanelFollows' /\ Truthful(disclosed)'
  BY <1>1 DEF ListInv, KeeperRead, PanelFollows, Truthful
<1> QED BY <1>5, <1>6 DEF ListInv

LEMMA BuildFailsSteps == ASSUME ListInv, BuildFails PROVE ListInv'
<1>1. UNCHANGED <<files, keeper, former, mail, panel, disclosed, stale>> /\ built' = {} /\ misplaced' = TRUE
  BY DEF BuildFails
<1> QED BY <1>1 DEF ListInv, ListShape, KeeperRead, PanelFollows, Truthful

LEMMA AdoptSteps == ASSUME ListInv, NEW engine \in built, NEW busy \in BOOLEAN, AdoptSession(engine, busy) PROVE ListInv'
<1>1. /\ UNCHANGED <<files, mail, disclosed>> /\ built' = {} /\ keeper' = engine /\ panel' = engine.steps
      /\ former' \subseteq {keeper} /\ stale' = (engine.steps # ParseChecklist(files[Root]))
      /\ misplaced' = (mail # <<>>)
  BY DEF AdoptSession
<1>2. ListShape /\ engine \in Keepers /\ engine.active = NoPlace
  BY DEF ListInv, ListShape
<1>3. ListShape'
  BY <1>1, <1>2 DEF ListShape
<1>4. KeeperRead'
  BY <1>1, <1>2 DEF KeeperRead, ChecklistPath
<1>5. PanelFollows' /\ Truthful(disclosed)'
  BY <1>1 DEF ListInv, PanelFollows, Truthful
<1> QED BY <1>3, <1>4, <1>5 DEF ListInv

LEMMA ListSteps == ASSUME ListInv, [ListNext]_listVars PROVE ListInv'
<1>1. CASE UNCHANGED listVars
  BY <1>1 DEF listVars, ListInv, ListShape, KeeperRead, PanelFollows, Truthful
<1>2. ASSUME NEW targets \in {<<p>> : p \in ListPlaces} \union {<<p, q>> : p, q \in ListPlaces} PROVE targets[1] \in ListPlaces
  BY <1>2
<1>3. CASE ListNext
  BY <1>2, <1>3, ReadListSteps, OthersSteps, FormerSteps, DiscloseSteps, ShowSteps, BuildSteps, BuildFailsSteps, AdoptSteps
     DEF ListNext
<1> QED BY <1>1, <1>3

\* The list on the screen, the one behind the answer and the one in the file are the same.
THEOREM ListAlwaysTrue == ListSpec => []ChecklistIsTrue
<1>1. ListInit => ListInv
  BY ListStart
<1>2. ListInv /\ [ListNext]_listVars => ListInv'
  BY ListSteps
<1>3. ListInv => ChecklistIsTrue
  BY DEF ListInv, KeeperRead, PanelFollows, Truthful, ChecklistIsTrue
<1> QED BY <1>1, <1>2, <1>3, PTL DEF ListSpec

-----------------------------------------------------------------------------
(* The memory of the project. *)

FactLines == {Fact(w) : w \in Facts}
Lines == FactLines \union {Pointer(t) : t \in Topics}
MemFiles == [exists : BOOLEAN, meaningful : BOOLEAN, lines : SUBSET Lines]
Ops == [at : {"idle", "save", "pointer", "unlist"} \union Rewriting, topic : MemoryFiles,
        line : Lines \union {NoLine}, new : FactLines \union {NoLine}, read : SUBSET Lines, since : SUBSET Lines]

MemoryShape ==
    /\ memory \in [MemoryFiles -> MemFiles] /\ memOp \in [Processes -> Ops]
    /\ told \subseteq MemoryFiles \X FactLines /\ erased \subseteq MemoryFiles \X Lines
    /\ undisturbed \in BOOLEAN

\* A file with lines is there, and was written.
FilesSane == \A f \in MemoryFiles : memory[f].lines # {} => memory[f].exists /\ memory[f].meaningful

\* What is in a file, a call that will write it over has read, or it was written since.
OpSane(op, mem) ==
    /\ op.at = "save" => op.line \in FactLines
    /\ op.at \in {"pointer", "unlist"} => op.topic \in Topics
    /\ op.at \in Rewriting => mem[op.topic].lines \subseteq op.read \union op.since
    /\ op.at = "unlisting" => op.topic = NoTopic /\ op.new = NoLine /\ \E t \in Topics : op.line = Pointer(t)
    /\ op.at = "open" => op.topic = NoTopic /\ op.new = NoLine /\ op.line = NoLine /\ op.read \subseteq FactLines

OpsSane == \A p \in Processes : OpSane(memOp[p], memory)

\* As long as no calls overlap: the one that runs knows its file.
Alone ==
    /\ \A p, q \in Processes : p # q => memOp[p].at = "idle" \/ memOp[q].at = "idle"
    /\ \A p \in Processes :
           /\ memOp[p].at \in {"edit", "unlisting"} => memOp[p].read = memory[memOp[p].topic].lines
           /\ memOp[p].at = "open" => ~memory[NoTopic].meaningful
           /\ memOp[p].at = "pointer" => memory[memOp[p].topic].lines # {}

\* What was removed is gone, and an index it was removed from was used.
Gone ==
    /\ \A e \in erased : e[2] \notin memory[e[1]].lines
    /\ \A e \in erased : e[1] = NoTopic => memory[NoTopic].meaningful

\* An empty topic is listed only while its pointer is being taken off.
Unlists(op, t) == (op.at = "unlist" /\ op.topic = t) \/ (op.at = "unlisting" /\ op.line = Pointer(t))

Listed ==
    \A t \in Topics :
        Pointer(t) \in memory[NoTopic].lines =>
            memory[t].lines # {} \/ \E p \in Processes : Unlists(memOp[p], t)

Tidy == undisturbed => Alone /\ Gone /\ Listed

MemoryInv == MemoryShape /\ FilesSane /\ OpsSane /\ SavedIsKept /\ Tidy

-----------------------------------------------------------------------------
(* Lines, files and calls. *)

\* A pointer is no fact, and of one topic; both are lines.
LEMMA LineKinds ==
    /\ \A t \in Topics : Pointer(t) \in Lines /\ Pointer(t) \notin FactLines /\ t # NoTopic /\ t \in MemoryFiles
    /\ \A t, u \in Topics : Pointer(t) = Pointer(u) => t = u
    /\ \A w \in Facts : Fact(w) \in FactLines
    /\ FactLines \subseteq Lines /\ NoLine \notin Lines
    /\ \A copied \in {Legacy, {}} : {Fact(w) : w \in copied} \subseteq FactLines
    /\ NoTopic \in MemoryFiles
<1>1. \A l \in FactLines : l.topic = NoTopic
  BY DEF FactLines, Fact
<1>2. \A t \in Topics : Pointer(t).topic = t
  BY DEF Pointer
<1>3. \A t \in Topics : Pointer(t) \in Lines /\ t # NoTopic /\ t \in MemoryFiles
  BY MemoryAssumption DEF Lines, MemoryFiles
<1>4. (\A w \in Facts : Fact(w) \in FactLines) /\ FactLines \subseteq Lines /\ NoTopic \in MemoryFiles
  BY DEF FactLines, Lines, MemoryFiles
<1>5. \A copied \in {Legacy, {}} : {Fact(w) : w \in copied} \subseteq FactLines
  BY MemoryAssumption DEF FactLines
<1>6. NoLine \notin Lines
  BY NoLineAssumption DEF Lines, FactLines
<1> QED BY <1>1, <1>2, <1>3, <1>4, <1>5, <1>6

LEMMA FileKinds ==
    /\ NoMemoryFile \in MemFiles /\ NoMemoryFile.lines = {}
    /\ \A s \in SUBSET Lines : /\ Document(s) \in MemFiles /\ Document(s).lines = s
                               /\ Document(s).exists /\ Document(s).meaningful
    /\ \A m \in MemFiles : \A s \in SUBSET Lines :
           /\ [m EXCEPT !.lines = s] \in MemFiles /\ [m EXCEPT !.lines = s].lines = s
           /\ [m EXCEPT !.lines = s].exists = m.exists /\ [m EXCEPT !.lines = s].meaningful = m.meaningful
<1>1. NoMemoryFile \in MemFiles /\ NoMemoryFile.lines = {}
  BY DEF NoMemoryFile, MemFiles
<1>2. \A s \in SUBSET Lines : /\ Document(s) \in MemFiles /\ Document(s).lines = s
                              /\ Document(s).exists /\ Document(s).meaningful
  BY DEF Document, MemFiles
<1>3. \A m \in MemFiles : \A s \in SUBSET Lines :
           /\ [m EXCEPT !.lines = s] \in MemFiles /\ [m EXCEPT !.lines = s].lines = s
           /\ [m EXCEPT !.lines = s].exists = m.exists /\ [m EXCEPT !.lines = s].meaningful = m.meaningful
  BY DEF MemFiles
<1> QED BY <1>1, <1>2, <1>3

LEMMA OpKinds ==
    /\ Resting \in Ops /\ Resting.at = "idle"
    /\ \A op \in Ops : \A a \in {"pointer", "unlist"} :
           [op EXCEPT !.at = a] \in Ops /\ [op EXCEPT !.at = a].at = a /\ [op EXCEPT !.at = a].topic = op.topic
<1>1. Resting \in Ops /\ Resting.at = "idle"
  BY LineKinds DEF Resting, Ops
<1>2. \A op \in Ops : \A a \in {"pointer", "unlist"} :
           [op EXCEPT !.at = a] \in Ops /\ [op EXCEPT !.at = a].at = a /\ [op EXCEPT !.at = a].topic = op.topic
  BY DEF Ops
<1> QED BY <1>1, <1>2

\* One call moves.
CallMoved(ops, new, p, x) == new[p] = x /\ \A q \in Processes \ {p} : new[q] = ops[q]

\* One call moves, and those that have read a file have more to see.
Seen(ops, new, p, x, f, added) ==
    /\ new[p] = x
    /\ \A q \in Processes \ {p} :
           /\ new[q].at = ops[q].at /\ new[q].topic = ops[q].topic /\ new[q].line = ops[q].line
           /\ new[q].new = ops[q].new /\ new[q].read = ops[q].read
           /\ ops[q].since \subseteq new[q].since
           /\ (ops[q].at \in Rewriting /\ ops[q].topic = f) => added \subseteq new[q].since

LEMMA CallMoves ==
    ASSUME NEW ops \in [Processes -> Ops], NEW p \in Processes, NEW x \in Ops
    PROVE  [ops EXCEPT ![p] = x] \in [Processes -> Ops] /\ CallMoved(ops, [ops EXCEPT ![p] = x], p, x)
BY DEF CallMoved

LEMMA CallWrites ==
    ASSUME NEW ops \in [Processes -> Ops], NEW p \in Processes, NEW x \in Ops, x.at \notin Rewriting,
           NEW f, NEW added \in SUBSET Lines
    PROVE  LET new == SeenByNone(f, added, [ops EXCEPT ![p] = x])
           IN  new \in [Processes -> Ops] /\ Seen(ops, new, p, x, f, added)
<1> DEFINE o == [ops EXCEPT ![p] = x]
           S(op) == IF op.at \in Rewriting /\ op.topic = f THEN [op EXCEPT !.since = @ \union added] ELSE op
           new == SeenByNone(f, added, o)
<1>1. o \in [Processes -> Ops] /\ o[p] = x /\ \A q \in Processes \ {p} : o[q] = ops[q]
  OBVIOUS
<1>2. ASSUME NEW op \in Ops
      PROVE  /\ S(op) \in Ops /\ S(op).at = op.at /\ S(op).topic = op.topic /\ S(op).line = op.line
             /\ S(op).new = op.new /\ S(op).read = op.read /\ op.since \subseteq S(op).since
             /\ (op.at \in Rewriting /\ op.topic = f) => added \subseteq S(op).since
             /\ op.at \notin Rewriting => S(op) = op
  <2>1. CASE op.at \in Rewriting /\ op.topic = f
    <3>1. op.since \union added \in SUBSET Lines
      BY DEF Ops
    <3>2. S(op) = [op EXCEPT !.since = op.since \union added]
      BY <2>1
    <3> QED BY <2>1, <3>1, <3>2 DEF Ops
  <2>2. CASE ~(op.at \in Rewriting /\ op.topic = f)
    BY <2>2
  <2> QED BY <2>1, <2>2
<1>3. new = [q \in Processes |-> S(o[q])]
  BY DEF SeenByNone
<1> HIDE DEF S, o
<1>4. new \in [Processes -> Ops] /\ \A q \in Processes : new[q] = S(o[q])
  BY <1>1, <1>2, <1>3
<1> HIDE DEF new
<1>5. Seen(ops, new, p, x, f, added)
  BY <1>1, <1>2, <1>4 DEF Seen
<1> QED BY <1>4, <1>5 DEF new, o

-----------------------------------------------------------------------------
(* Memory's steps. *)

LEMMA MemoryStarts == MemoryInit => MemoryInv
<1> SUFFICES ASSUME MemoryInit PROVE MemoryInv
  OBVIOUS
<1>1. \A f \in MemoryFiles : memory[f] = NoMemoryFile
  BY DEF MemoryInit
<1>2. \A p \in Processes : memOp[p] = Resting
  BY DEF MemoryInit
<1>3. MemoryShape
  <2>1. memory \in [MemoryFiles -> MemFiles]
    BY FileKinds DEF MemoryInit
  <2>2. memOp \in [Processes -> Ops]
    BY OpKinds DEF MemoryInit
  <2> QED BY <2>1, <2>2 DEF MemoryShape, MemoryInit
<1>4. FilesSane
  BY <1>1, FileKinds DEF FilesSane
<1>5. OpsSane
  BY <1>2, OpKinds DEF OpsSane, OpSane, Rewriting
<1>6. SavedIsKept /\ Gone
  BY DEF MemoryInit, SavedIsKept, Gone
<1>7. Alone
  BY <1>2, OpKinds DEF Alone
<1>8. Listed
  BY <1>1, FileKinds, LineKinds DEF Listed
<1> QED BY <1>3, <1>4, <1>5, <1>6, <1>7, <1>8 DEF MemoryInv, Tidy

\* What no write touches stays as it is.
LEMMA CallOnly ==
    ASSUME MemoryInv, UNCHANGED <<memory, told, lost, erased>>, NEW p \in Processes, NEW x \in Ops,
           memOp' = [memOp EXCEPT ![p] = x], OpSane(x, memory), undisturbed' \in BOOLEAN
    PROVE  MemoryShape' /\ FilesSane' /\ OpsSane' /\ SavedIsKept' /\ Gone' = Gone
           /\ CallMoved(memOp, memOp', p, x)
<1>1. memOp' \in [Processes -> Ops] /\ CallMoved(memOp, memOp', p, x)
  BY CallMoves DEF MemoryInv, MemoryShape
<1>2. MemoryShape'
  BY <1>1 DEF MemoryInv, MemoryShape
<1>3. FilesSane' /\ SavedIsKept' /\ Gone' = Gone
  BY DEF MemoryInv, FilesSane, SavedIsKept, Gone
<1>4. OpsSane'
  BY <1>1 DEF MemoryInv, OpsSane, CallMoved
<1> QED BY <1>1, <1>2, <1>3, <1>4

\* A call begins: only if no other is under way the history stays undisturbed.
LEMMA BeginKeeps ==
    ASSUME MemoryInv, NEW p \in Processes, NEW x \in Ops, Began(p, x), x.at \in {"save", "edit", "open"},
           OpSane(x, memory), x.at = "edit" => x.read = memory[x.topic].lines,
           x.at = "open" => ~memory[NoTopic].meaningful,
           UNCHANGED <<memory, told, lost, erased>>
    PROVE  MemoryInv'
<1>1. /\ memOp' = [memOp EXCEPT ![p] = x] /\ memOp[p].at = "idle"
      /\ undisturbed' = (undisturbed /\ \A q \in Processes \ {p} : memOp[q].at = "idle")
  BY DEF Began, Step
<1>2. MemoryShape' /\ FilesSane' /\ OpsSane' /\ SavedIsKept' /\ Gone' = Gone
      /\ CallMoved(memOp, memOp', p, x)
  BY <1>1, CallOnly
<1>3. ASSUME undisturbed' PROVE Alone' /\ Gone' /\ Listed'
  <2>1. Alone /\ Gone /\ Listed /\ \A q \in Processes : memOp[q].at = "idle"
    BY <1>1, <1>3 DEF MemoryInv, Tidy
  <2>2. memOp'[p] = x /\ \A q \in Processes \ {p} : memOp'[q].at = "idle"
    BY <1>2, <2>1 DEF CallMoved
  <2>3. Alone'
    BY <2>2 DEF Alone
  <2>4. Listed'
    BY <2>1 DEF Listed, Unlists
  <2> QED BY <2>1, <2>3, <2>4, <1>2
<1> QED BY <1>2, <1>3 DEF MemoryInv, Tidy

LEMMA OpenKeeps ==
    ASSUME MemoryInv, NEW p \in Processes, NEW copied \in {Legacy, {}}, OpenMemory(p, copied) PROVE MemoryInv'
<1> DEFINE facts == {Fact(w) : w \in copied}
           x == [Resting EXCEPT !.at = "open", !.read = facts]
<1>1. Began(p, x) /\ ~memory[NoTopic].meaningful /\ UNCHANGED <<memory, told, lost, erased>>
  BY DEF OpenMemory, NeverUsed
<1>2. facts \subseteq FactLines /\ facts \subseteq Lines
  BY LineKinds
<1> HIDE DEF facts
<1>3. /\ x \in Ops /\ x.at = "open" /\ x.topic = NoTopic /\ x.new = NoLine /\ x.line = NoLine
      /\ x.read = facts
  BY <1>2, LineKinds DEF Resting, Ops, Rewriting
<1> HIDE DEF x
<1>4. memory[NoTopic].lines = {}
  BY <1>1, LineKinds DEF MemoryInv, FilesSane
<1>5. OpSane(x, memory)
  BY <1>2, <1>3, <1>4 DEF OpSane
<1> QED BY <1>1, <1>3, <1>5, BeginKeeps

LEMMA SaveKeeps ==
    ASSUME MemoryInv, NEW p \in Processes, NEW t \in MemoryFiles, NEW w \in Facts, SaveMemory(p, t, w)
    PROVE  MemoryInv'
<1> DEFINE x == [Resting EXCEPT !.at = "save", !.topic = t, !.line = Fact(w)]
<1>1. x \in Ops /\ x.at = "save" /\ x.line \in FactLines
  <2>1. Fact(w) \in FactLines /\ FactLines \subseteq Lines
    BY LineKinds
  <2>2. Resting.at = "idle" /\ Resting \in Ops
    BY OpKinds
  <2> QED BY <2>1, <2>2 DEF Ops
<1>2. Began(p, x) /\ UNCHANGED <<memory, told, lost, erased>>
  BY DEF SaveMemory, BeginCall
<1> HIDE DEF x
<1>3. OpSane(x, memory)
  BY <1>1 DEF OpSane, Rewriting
<1> QED BY <1>1, <1>2, <1>3, BeginKeeps

LEMMA EditKeeps ==
    ASSUME MemoryInv, NEW p \in Processes, NEW t \in MemoryFiles, NEW w,
           NEW new \in FactLines \union {NoLine}, EditMemory(p, t, w, new)
    PROVE  MemoryInv'
<1> DEFINE lines == memory[t].lines
           matched == MatchMemoryLine(lines, w)
           line == CHOOSE l \in matched : TRUE
           x == [at |-> "edit", topic |-> t, line |-> line, read |-> lines,
                 new |-> Replacement(lines, line, new), since |-> {}]
<1>1. Began(p, x) /\ UNCHANGED <<memory, told, lost, erased>> /\ Cardinality(matched) = 1
  BY DEF EditMemory, BeginCall
<1>2. lines \subseteq Lines
  BY DEF MemoryInv, MemoryShape, MemFiles
<1>3. matched \subseteq lines
  BY DEF MatchMemoryLine
<1>4. matched # {}
  BY <1>1, FS_EmptySet
<1>5. line \in lines
  BY <1>3, <1>4
<1>6. Replacement(lines, line, new) \in FactLines \union {NoLine}
  BY DEF Replacement
<1> HIDE DEF line, lines
<1>7. x \in Ops
  BY <1>2, <1>5, <1>6 DEF Ops, Rewriting
<1>8. OpSane(x, memory)
  BY DEF OpSane, lines
<1>9. x.at = "edit" /\ x.read = memory[x.topic].lines
  BY DEF lines
<1> HIDE DEF x
<1> QED BY <1>1, <1>7, <1>8, <1>9, BeginKeeps

\* A call ends without a write, and no topic waits for it to be taken off the index.
LEMMA RestKeeps ==
    ASSUME MemoryInv, NEW p \in Processes, memOp' = [memOp EXCEPT ![p] = Resting],
           undisturbed' \in BOOLEAN, undisturbed' => undisturbed /\ memOp[p].at \notin {"unlist", "unlisting"},
           UNCHANGED <<memory, told, lost, erased>>
    PROVE  MemoryInv'
<1>1. Resting \in Ops /\ Resting.at = "idle" /\ OpSane(Resting, memory)
  BY OpKinds DEF OpSane, Rewriting
<1>2. MemoryShape' /\ FilesSane' /\ OpsSane' /\ SavedIsKept' /\ Gone' = Gone
      /\ CallMoved(memOp, memOp', p, Resting)
  BY <1>1, CallOnly
<1>3. ASSUME undisturbed' PROVE Alone' /\ Gone' /\ Listed'
  <2>1. Alone /\ Gone /\ Listed /\ memOp[p].at \notin {"unlist", "unlisting"}
    BY <1>3 DEF MemoryInv, Tidy
  <2>2. \A q \in Processes : memOp'[q].at = "idle" \/ (memOp'[q] = memOp[q] /\ q # p)
    BY <1>1, <1>2 DEF CallMoved
  <2>3. Alone'
    BY <2>1, <2>2 DEF Alone
  <2>4. \A q \in Processes, t \in Topics : Unlists(memOp[q], t) => memOp'[q] = memOp[q]
    BY <1>2, <2>1 DEF CallMoved, Unlists
  <2>5. Listed'
    BY <2>1, <2>4 DEF Listed
  <2> QED BY <2>1, <2>3, <2>5, <1>2
<1> QED BY <1>2, <1>3 DEF MemoryInv, Tidy

LEMMA DeclineKeeps == ASSUME MemoryInv, NEW p \in Processes, DeclineMemory(p) PROVE MemoryInv'
<1>1. /\ memOp' = [memOp EXCEPT ![p] = Resting] /\ memOp[p].at \notin {"unlist", "unlisting"}
      /\ UNCHANGED <<memory, told, lost, erased>> /\ undisturbed' = undisturbed
  BY DEF DeclineMemory, Step
<1>2. undisturbed \in BOOLEAN
  BY DEF MemoryInv, MemoryShape
<1> QED BY <1>1, <1>2, RestKeeps

LEMMA StopKeeps == ASSUME MemoryInv, NEW p \in Processes, StopMidway(p) PROVE MemoryInv'
<1>1. /\ memOp' = [memOp EXCEPT ![p] = Resting] /\ undisturbed' = FALSE
      /\ UNCHANGED <<memory, told, lost, erased>>
  BY DEF StopMidway, Step, Fault
<1> QED BY <1>1, RestKeeps

LEMMA HandKeeps ==
    ASSUME MemoryInv, NEW t \in MemoryFiles, NEW l \in memory[t].lines, HandEdit(t, l) PROVE MemoryInv'
<1> DEFINE n == [memory[t] EXCEPT !.lines = memory[t].lines \ {l}]
<1>1. /\ memory' = [memory EXCEPT ![t] = n] /\ told' = told \ {<<t, l>>}
      /\ UNCHANGED <<memOp, lost, erased>> /\ undisturbed' = FALSE
  BY DEF HandEdit, Fault
<1>2. memory \in [MemoryFiles -> MemFiles] /\ memory[t] \in MemFiles /\ memory[t].lines \ {l} \in SUBSET Lines
  BY DEF MemoryInv, MemoryShape, MemFiles
<1>3. /\ n \in MemFiles /\ n.lines = memory[t].lines \ {l}
      /\ n.exists = memory[t].exists /\ n.meaningful = memory[t].meaningful
  BY <1>2, FileKinds
<1> HIDE DEF n
<1>4. memory' \in [MemoryFiles -> MemFiles] /\ memory'[t] = n
      /\ \A f \in MemoryFiles \ {t} : memory'[f] = memory[f]
  BY <1>1, <1>2, <1>3
<1>5. MemoryShape'
  BY <1>1, <1>4 DEF MemoryInv, MemoryShape
<1>6. FilesSane'
  BY <1>3, <1>4 DEF MemoryInv, FilesSane
<1>7. \A f \in MemoryFiles : memory'[f].lines \subseteq memory[f].lines /\ memory'[f].meaningful = memory[f].meaningful
  BY <1>3, <1>4
<1>8. \A p \in Processes : memOp[p].topic \in MemoryFiles
  BY DEF MemoryInv, MemoryShape, Ops
<1>9. OpsSane'
  BY <1>1, <1>7, <1>8, LineKinds DEF MemoryInv, OpsSane, OpSane
<1>10. SavedIsKept'
  <2>1. \A e \in told : e = <<e[1], e[2]>> /\ e[1] \in MemoryFiles
    BY DEF MemoryInv, MemoryShape
  <2> QED BY <2>1, <1>1, <1>3, <1>4 DEF MemoryInv, SavedIsKept
<1> QED BY <1>1, <1>5, <1>6, <1>9, <1>10 DEF MemoryInv, Tidy

-----------------------------------------------------------------------------
(* The steps that write a file. *)

LEMMA MovedSeen ==
    ASSUME NEW ops, NEW new, NEW p, NEW x, NEW f, CallMoved(ops, new, p, x),
           ops \in [Processes -> Ops], new \in [Processes -> Ops]
    PROVE  Seen(ops, new, p, x, f, {})
BY DEF CallMoved, Seen

\* A file is written by a call that goes on to x: the other calls have the lines it added to see.
LEMMA FileWritten ==
    ASSUME MemoryInv, NEW p \in Processes, NEW x \in Ops, x.at \notin Rewriting, OpSane(x, memory),
           NEW f \in MemoryFiles, NEW n \in MemFiles, NEW added \in SUBSET Lines,
           memory' = [memory EXCEPT ![f] = n], n.lines \subseteq memory[f].lines \union added,
           n.lines # {} => n.exists /\ n.meaningful,
           memOp' \in [Processes -> Ops], Seen(memOp, memOp', p, x, f, added)
    PROVE  /\ memory' \in [MemoryFiles -> MemFiles] /\ memory'[f] = n
           /\ \A g \in MemoryFiles \ {f} : memory'[g] = memory[g]
           /\ FilesSane' /\ OpsSane'
           /\ memOp'[p] = x /\ \A q \in Processes \ {p} : memOp'[q].at = memOp[q].at
<1>1. memory' \in [MemoryFiles -> MemFiles] /\ memory'[f] = n /\ \A g \in MemoryFiles \ {f} : memory'[g] = memory[g]
  BY DEF MemoryInv, MemoryShape
<1>2. FilesSane'
  BY <1>1 DEF MemoryInv, FilesSane
<1>3. memOp'[p] = x /\ \A q \in Processes \ {p} : memOp'[q].at = memOp[q].at
  BY DEF Seen
<1>4. OpSane(x, memory')
  BY DEF OpSane, Rewriting
<1>5. ASSUME NEW q \in Processes \ {p} PROVE OpSane(memOp'[q], memory')
  <2>1. /\ memOp'[q].at = memOp[q].at /\ memOp'[q].topic = memOp[q].topic /\ memOp'[q].line = memOp[q].line
        /\ memOp'[q].new = memOp[q].new
        /\ memOp'[q].read = memOp[q].read /\ memOp[q].since \subseteq memOp'[q].since
        /\ (memOp[q].at \in Rewriting /\ memOp[q].topic = f) => added \subseteq memOp'[q].since
    BY DEF Seen
  <2>2. OpSane(memOp[q], memory) /\ memOp[q].topic \in MemoryFiles
    BY DEF MemoryInv, OpsSane, MemoryShape, Ops
  <2>3. ASSUME memOp[q].at \in Rewriting
        PROVE  memory'[memOp[q].topic].lines \subseteq memOp'[q].read \union memOp'[q].since
    BY <1>1, <2>1, <2>2, <2>3 DEF OpSane
  <2> QED BY <2>1, <2>2, <2>3 DEF OpSane
<1>6. OpsSane'
  BY <1>3, <1>4, <1>5 DEF OpsSane
<1> QED BY <1>1, <1>2, <1>3, <1>6

\* Entries are pairs.
LEMMA EntryKinds ==
    ASSUME MemoryInv
    PROVE  /\ \A e \in told : e = <<e[1], e[2]>> /\ e[1] \in MemoryFiles /\ e[2] \in FactLines
           /\ \A e \in erased : e = <<e[1], e[2]>> /\ e[1] \in MemoryFiles /\ e[2] \in Lines
BY DEF MemoryInv, MemoryShape

\* Under an undisturbed history, the call of p is the only one.
LEMMA OthersIdle ==
    ASSUME MemoryInv, undisturbed, NEW p \in Processes, memOp[p].at # "idle"
    PROVE  Alone /\ Gone /\ Listed /\ \A q \in Processes \ {p} : memOp[q].at = "idle"
BY DEF MemoryInv, Tidy, Alone

LEMMA EnsureKeeps == ASSUME MemoryInv, NEW p \in Processes, EnsureIndexPointer(p) PROVE MemoryInv'
<1> DEFINE t == memOp[p].topic
           pointer == Pointer(t)
           i == memory[NoTopic]
<1>1. memOp[p].at = "pointer" /\ UNCHANGED <<told, lost, undisturbed>>
  BY DEF EnsureIndexPointer
<1>2. memOp \in [Processes -> Ops] /\ memory \in [MemoryFiles -> MemFiles] /\ undisturbed \in BOOLEAN
  BY DEF MemoryInv, MemoryShape
<1>3. t \in Topics
  BY <1>1 DEF MemoryInv, OpsSane, OpSane
<1>4. CASE pointer \in i.lines
  <2>1. UNCHANGED <<memory, told, lost, erased>> /\ memOp' = [memOp EXCEPT ![p] = Resting]
    BY <1>1, <1>4 DEF EnsureIndexPointer, Step
  <2> QED BY <2>1, <1>1, <1>2, RestKeeps
<1>5. CASE pointer \notin i.lines
  <2> DEFINE n == Document(i.lines \union {pointer})
  <2>1. /\ memory' = [memory EXCEPT ![NoTopic] = n]
        /\ memOp' = SeenByNone(NoTopic, {pointer}, [memOp EXCEPT ![p] = Resting])
        /\ erased' = erased \ {<<NoTopic, pointer>>}
    BY <1>5 DEF EnsureIndexPointer
  <2>2. /\ NoTopic \in MemoryFiles /\ {pointer} \in SUBSET Lines /\ t # NoTopic
        /\ pointer \notin FactLines
    BY <1>3, LineKinds
  <2>3. i.lines \union {pointer} \in SUBSET Lines
    BY <1>2, <2>2 DEF MemFiles
  <2>4. n \in MemFiles /\ n.lines = i.lines \union {pointer} /\ n.exists /\ n.meaningful
    BY <2>3, FileKinds
  <2> HIDE DEF n
  <2>5. Resting \in Ops /\ Resting.at = "idle" /\ OpSane(Resting, memory)
    BY OpKinds DEF OpSane, Rewriting
  <2>6. memOp' \in [Processes -> Ops] /\ Seen(memOp, memOp', p, Resting, NoTopic, {pointer})
    BY <1>2, <2>1, <2>2, <2>5, CallWrites DEF Rewriting
  <2>7. /\ memory' \in [MemoryFiles -> MemFiles] /\ memory'[NoTopic] = n
        /\ \A g \in MemoryFiles \ {NoTopic} : memory'[g] = memory[g]
        /\ FilesSane' /\ OpsSane'
        /\ memOp'[p] = Resting /\ \A q \in Processes \ {p} : memOp'[q].at = memOp[q].at
    BY <2>1, <2>2, <2>4, <2>5, <2>6, FileWritten DEF Rewriting
  <2>8. MemoryShape'
    BY <1>1, <2>1, <2>6, <2>7 DEF MemoryInv, MemoryShape
  <2>9. SavedIsKept'
    BY <1>1, <2>4, <2>7, EntryKinds DEF MemoryInv, SavedIsKept
  <2>11. ASSUME undisturbed PROVE Alone' /\ Gone' /\ Listed'
    <3>1. Alone /\ Gone /\ Listed /\ \A q \in Processes \ {p} : memOp[q].at = "idle"
      BY <2>11, <1>1, OthersIdle
    <3>2. \A q \in Processes : memOp'[q].at = "idle"
      BY <3>1, <2>5, <2>7
    <3>3. Alone'
      BY <3>2 DEF Alone
    <3>4. Gone'
      BY <3>1, <2>1, <2>4, <2>7, EntryKinds DEF Gone
    <3>5. memory'[t].lines # {}
      BY <3>1, <1>1, <2>7, <2>2, <1>3, LineKinds DEF Alone
    <3>6. \A u \in Topics : u # t => (Pointer(u) \in n.lines => Pointer(u) \in i.lines)
      BY <2>4, <1>3, LineKinds
    <3>7. \A u \in Topics : Pointer(u) \in i.lines => memory[u].lines # {}
      BY <3>1, <1>1 DEF Listed, Unlists
    <3>8. Listed'
      BY <3>5, <3>6, <3>7, <2>7, LineKinds DEF Listed
    <3> QED BY <3>3, <3>4, <3>8
  <2> QED BY <1>1, <2>7, <2>8, <2>9, <2>11 DEF MemoryInv, Tidy
<1> QED BY <1>4, <1>5

LEMMA AppendKeeps == ASSUME MemoryInv, NEW p \in Processes, AppendBullet(p) PROVE MemoryInv'
<1> DEFINE op == memOp[p]
           t == op.topic
           l == op.line
           file == memory[t]
           done == IF t = NoTopic THEN Resting ELSE [op EXCEPT !.at = "pointer"]
<1>1. op.at = "save" /\ undisturbed' = undisturbed
  BY DEF AppendBullet
<1>2. /\ memOp \in [Processes -> Ops] /\ memory \in [MemoryFiles -> MemFiles] /\ undisturbed \in BOOLEAN
      /\ op \in Ops /\ t \in MemoryFiles /\ file \in MemFiles
  BY DEF MemoryInv, MemoryShape, Ops
<1>3. l \in FactLines /\ l \in Lines /\ \A u \in Topics : Pointer(u) # l
  BY <1>1, LineKinds DEF MemoryInv, OpsSane, OpSane
<1>4. /\ done \in Ops /\ done.at \in {"idle", "pointer"} /\ OpSane(done, memory)
      /\ done.at = "pointer" => done.topic = t
  <2>1. CASE t = NoTopic
    BY <2>1, OpKinds DEF OpSane, Rewriting
  <2>2. CASE t # NoTopic
    <3>1. done = [op EXCEPT !.at = "pointer"] /\ t \in Topics
      BY <2>2, <1>2 DEF MemoryFiles
    <3>2. done \in Ops /\ done.at = "pointer" /\ done.topic = t
      BY <3>1, <1>2, OpKinds
    <3> HIDE DEF done
    <3> QED BY <3>1, <3>2 DEF OpSane, Rewriting
  <2> QED BY <2>1, <2>2
<1>5. CASE l \in file.lines /\ memOp' = [memOp EXCEPT ![p] = done] /\ told' = told \union {<<t, l>>}
           /\ lost' = lost \ {<<t, l>>}
           /\ UNCHANGED <<memory, erased>>
  <2> HIDE DEF done
  <2>1. memOp' \in [Processes -> Ops] /\ CallMoved(memOp, memOp', p, done)
    BY <1>2, <1>4, <1>5, CallMoves
  <2>2. MemoryShape' /\ FilesSane'
    BY <1>1, <1>2, <1>3, <1>5, <2>1 DEF MemoryInv, MemoryShape, FilesSane
  <2>3. OpsSane'
    BY <1>4, <1>5, <2>1 DEF MemoryInv, OpsSane, CallMoved
  <2>4. SavedIsKept'
    BY <1>5 DEF MemoryInv, SavedIsKept
  <2>5. ASSUME undisturbed PROVE Alone' /\ Gone' /\ Listed'
    <3>1. Alone /\ Gone /\ Listed /\ \A q \in Processes \ {p} : memOp[q].at = "idle"
      BY <2>5, <1>1, OthersIdle
    <3>2. memOp'[p] = done /\ \A q \in Processes \ {p} : memOp'[q].at = "idle"
      BY <2>1, <3>1 DEF CallMoved
    <3>3. Alone'
      BY <3>2, <1>4, <1>5 DEF Alone
    <3>4. Gone'
      BY <3>1, <1>5 DEF Gone
    <3>5. Listed'
      BY <3>1, <1>1, <1>5 DEF Listed, Unlists
    <3> QED BY <3>3, <3>4, <3>5
  <2> QED BY <1>1, <2>2, <2>3, <2>4, <2>5 DEF MemoryInv, Tidy
<1>6. CASE memOp' = [memOp EXCEPT ![p] = Resting] /\ UNCHANGED <<memory, told, lost, erased>>
  BY <1>1, <1>2, <1>6, RestKeeps
<1>7. CASE /\ memory' = [memory EXCEPT ![t] = Document(file.lines \union {l})]
           /\ memOp' = SeenByNone(t, {l}, [memOp EXCEPT ![p] = done])
           /\ told' = told \union {<<t, l>>} /\ lost' = lost \ {<<t, l>>} /\ erased' = erased \ {<<t, l>>}
  <2> DEFINE n == Document(file.lines \union {l})
  <2>1. file.lines \union {l} \in SUBSET Lines /\ {l} \in SUBSET Lines
    BY <1>2, <1>3 DEF MemFiles
  <2>2. n \in MemFiles /\ n.lines = file.lines \union {l} /\ n.exists /\ n.meaningful
    BY <2>1, FileKinds
  <2> HIDE DEF n, done
  <2>3. done.at \notin Rewriting
    BY <1>4 DEF Rewriting
  <2>4. memOp' \in [Processes -> Ops] /\ Seen(memOp, memOp', p, done, t, {l})
    BY <1>2, <1>4, <1>7, <2>1, <2>3, CallWrites
  <2>5. memory' = [memory EXCEPT ![t] = n]
    BY <1>7 DEF n
  <2>6. /\ memory' \in [MemoryFiles -> MemFiles] /\ memory'[t] = n
        /\ \A g \in MemoryFiles \ {t} : memory'[g] = memory[g]
        /\ FilesSane' /\ OpsSane'
        /\ memOp'[p] = done /\ \A q \in Processes \ {p} : memOp'[q].at = memOp[q].at
    BY <1>2, <1>4, <2>1, <2>2, <2>3, <2>4, <2>5, FileWritten
  <2>7. MemoryShape'
    <3>1. told' \subseteq MemoryFiles \X FactLines /\ erased' \subseteq MemoryFiles \X Lines
      BY <1>2, <1>3, <1>7 DEF MemoryInv, MemoryShape
    <3> QED BY <3>1, <1>1, <1>2, <2>4, <2>6 DEF MemoryShape
  <2>8. SavedIsKept'
    <3>1. ASSUME NEW e \in told' PROVE e[2] \in memory'[e[1]].lines \/ e \in lost'
      <4>1. CASE e = <<t, l>>
        BY <4>1, <2>2, <2>6
      <4>2. CASE e \in told /\ e # <<t, l>>
        <5>1. e[1] \in MemoryFiles /\ (e[2] \in memory[e[1]].lines \/ e \in lost)
          BY <4>2, EntryKinds DEF MemoryInv, SavedIsKept
        <5>2. memory[e[1]].lines \subseteq memory'[e[1]].lines
          BY <5>1, <2>2, <2>6
        <5> QED BY <4>2, <5>1, <5>2, <1>7
      <4> QED BY <4>1, <4>2, <1>7
    <3> QED BY <3>1 DEF SavedIsKept
  <2>10. ASSUME undisturbed PROVE Alone' /\ Gone' /\ Listed'
    <3>1. Alone /\ Gone /\ Listed /\ \A q \in Processes \ {p} : memOp[q].at = "idle"
      BY <2>10, <1>1, OthersIdle
    <3>2. memOp'[p] = done /\ \A q \in Processes \ {p} : memOp'[q].at = "idle"
      BY <2>6, <3>1
    <3>3. Alone'
      BY <3>2, <1>4, <2>2, <2>6 DEF Alone
    <3>4. Gone'
      <4>1. ASSUME NEW e \in erased, e # <<t, l>> PROVE e[2] \notin memory'[e[1]].lines
        <5>1. e = <<e[1], e[2]>> /\ e[1] \in MemoryFiles /\ e[2] \notin memory[e[1]].lines
          BY <3>1, <4>1, EntryKinds DEF Gone
        <5> QED BY <4>1, <5>1, <2>2, <2>6
      <4>2. ASSUME NEW e \in erased, e[1] = NoTopic PROVE memory'[NoTopic].meaningful
        BY <3>1, <4>2, <2>2, <2>6, LineKinds DEF Gone
      <4> QED BY <4>1, <4>2, <1>7 DEF Gone
    <3>5. \A f \in MemoryFiles : /\ memory[f].lines \subseteq memory'[f].lines
                                 /\ memory'[f].lines \subseteq memory[f].lines \union {l}
      BY <2>2, <2>6, <1>2
    <3>6. \A u \in Topics : Pointer(u) \in memory'[NoTopic].lines => Pointer(u) \in memory[NoTopic].lines
      BY <3>5, <1>3, LineKinds
    <3>7. \A u \in Topics : Pointer(u) \in memory[NoTopic].lines => memory[u].lines # {}
      BY <3>1, <1>1 DEF Listed, Unlists
    <3>8. Listed'
      BY <3>5, <3>6, <3>7, LineKinds DEF Listed
    <3> QED BY <3>3, <3>4, <3>8
  <2> QED BY <1>1, <2>6, <2>7, <2>8, <2>10 DEF MemoryInv, Tidy
<1>8. QED
  <2> HIDE DEF done
  <2>1. \/ l \in file.lines /\ Step(p, done) /\ told' = told \union {<<t, l>>}
           /\ lost' = lost \ {<<t, l>>} /\ UNCHANGED <<memory, erased>>
        \/ Step(p, Resting) /\ UNCHANGED <<memory, told, lost, erased>>
        \/ /\ memory' = [memory EXCEPT ![t] = Document(file.lines \union {l})]
           /\ memOp' = SeenByNone(t, {l}, [memOp EXCEPT ![p] = done])
           /\ told' = told \union {<<t, l>>} /\ lost' = lost \ {<<t, l>>} /\ erased' = erased \ {<<t, l>>}
    BY Zenon DEF AppendBullet, done
  <2> QED BY <2>1, <1>5, <1>6, <1>7 DEF Step

\* An append that is cut short: no line comes or goes.
LEMMA AppendCutKeeps ==
    ASSUME MemoryInv, NEW p \in Processes, NEW content \in BOOLEAN, AppendCutShort(p, content) PROVE MemoryInv'
<1> DEFINE op == memOp[p]
           f == IF op.at = "pointer" THEN NoTopic ELSE op.topic
           file == memory[f]
           n == [exists |-> TRUE, meaningful |-> (file.meaningful \/ content), lines |-> file.lines]
<1>1. /\ memOp \in [Processes -> Ops] /\ memory \in [MemoryFiles -> MemFiles]
      /\ f \in MemoryFiles /\ file \in MemFiles
  <2>1. memOp \in [Processes -> Ops] /\ memory \in [MemoryFiles -> MemFiles] /\ op \in Ops
    BY DEF MemoryInv, MemoryShape
  <2>2. f \in MemoryFiles
    BY <2>1, LineKinds DEF Ops
  <2> QED BY <2>1, <2>2
<1> HIDE DEF f
<1>2. /\ memOp' = [memOp EXCEPT ![p] = Resting] /\ undisturbed' = FALSE /\ UNCHANGED <<told, lost, erased>>
      /\ memory' = [memory EXCEPT ![f] = n]
  BY <1>1 DEF AppendCutShort, Step, Fault, f
<1>3. n \in MemFiles /\ n.lines = file.lines /\ n.exists
  BY <1>1 DEF MemFiles
<1>4. n.lines # {} => n.meaningful
  BY <1>1 DEF MemoryInv, FilesSane
<1> HIDE DEF n
<1>5. Resting \in Ops /\ Resting.at \notin Rewriting /\ OpSane(Resting, memory)
  BY OpKinds DEF OpSane, Rewriting
<1>6. memOp' \in [Processes -> Ops] /\ Seen(memOp, memOp', p, Resting, f, {})
  BY <1>1, <1>2, <1>5, CallMoves, MovedSeen
<1>7. /\ {} \in SUBSET Lines /\ n.lines \subseteq memory[f].lines \union {}
      /\ n.lines # {} => n.exists /\ n.meaningful
  BY <1>3, <1>4
<1>8. /\ memory' \in [MemoryFiles -> MemFiles] /\ memory'[f] = n
      /\ \A g \in MemoryFiles \ {f} : memory'[g] = memory[g]
      /\ FilesSane' /\ OpsSane'
  BY <1>1, <1>2, <1>3, <1>5, <1>6, <1>7, FileWritten
<1>9. MemoryShape'
  BY <1>2, <1>6, <1>8 DEF MemoryInv, MemoryShape
<1>10. SavedIsKept'
  <2>1. \A g \in MemoryFiles : memory'[g].lines = memory[g].lines
    BY <1>3, <1>8
  <2> QED BY <1>2, <2>1, EntryKinds DEF MemoryInv, SavedIsKept
<1> QED BY <1>2, <1>8, <1>9, <1>10 DEF MemoryInv, Tidy

\* What a call writes again: lines, without the one it is about.
LEMMA RewrittenAre ==
    ASSUME NEW op \in Ops
    PROVE  /\ RewrittenLines(op) = (op.read \ {op.line}) \union ({op.new} \ {NoLine})
           /\ op.new = NoLine \/ (op.new \in RewrittenLines(op) /\ op.new \in FactLines)
           /\ RewrittenLines(op) \in SUBSET Lines
           /\ {op.line} \ {NoLine} \in SUBSET Lines /\ {op.new} \ {NoLine} \in SUBSET FactLines
<1>1. op.new \in FactLines \union {NoLine} /\ op.read \in SUBSET Lines /\ op.line \in Lines \union {NoLine}
  BY DEF Ops
<1>2. RewrittenLines(op) = (op.read \ {op.line}) \union ({op.new} \ {NoLine})
  BY DEF RewrittenLines
<1> QED BY <1>1, <1>2, LineKinds

\* Whatever way the call of p goes on, its file has exactly the rewritten lines.
Lands(p, n, x, added) ==
    LET op == memOp[p]  lines == RewrittenLines(op)
    IN  /\ op.at \in Rewriting /\ undisturbed' = undisturbed /\ Landed(op)
        /\ memory' = [memory EXCEPT ![op.topic] = n]
        /\ n.lines = lines /\ lines \subseteq memory[op.topic].lines \union added
        /\ lines # {} => n.exists /\ n.meaningful
        /\ (op.at # "open" /\ op.topic = NoTopic) => n.meaningful
        /\ memOp' \in [Processes -> Ops] /\ Seen(memOp, memOp', p, x, op.topic, added)
        /\ OpSane(x, memory) /\ x.at \in {"idle", "unlist"} /\ (x.at = "unlist" => x.topic = op.topic)
        /\ x.at = "idle" => op.topic = NoTopic \/ lines # {}

\* The call had read its file as it is, and nothing removed comes back: an opening had
\* found an index that nothing was ever removed from.
LEMMA LandsTidy ==
    ASSUME MemoryInv, NEW p \in Processes, NEW n \in MemFiles, NEW x \in Ops, NEW added \in SUBSET Lines,
           Lands(p, n, x, added), undisturbed,
           memory'[memOp[p].topic] = n, \A g \in MemoryFiles \ {memOp[p].topic} : memory'[g] = memory[g],
           memOp'[p] = x, \A q \in Processes \ {p} : memOp'[q].at = memOp[q].at
    PROVE  Alone' /\ Gone' /\ Listed'
<1> DEFINE op == memOp[p]
           t == op.topic
           lines == RewrittenLines(op)
           old == memory[t].lines
<1>1. /\ op.at \in Rewriting /\ n.lines = lines /\ (lines # {} => n.exists /\ n.meaningful)
      /\ (op.at # "open" /\ t = NoTopic) => n.meaningful
      /\ x.at \in {"idle", "unlist"} /\ (x.at = "unlist" => x.topic = t)
      /\ x.at = "idle" => t = NoTopic \/ lines # {}
  BY DEF Lands
<1>2. op \in Ops /\ t \in MemoryFiles /\ OpSane(op, memory)
  BY DEF MemoryInv, MemoryShape, OpsSane, Ops
<1>3. /\ lines = (op.read \ {op.line}) \union ({op.new} \ {NoLine}) /\ lines \in SUBSET Lines
      /\ op.new = NoLine \/ (op.new \in lines /\ op.new \in FactLines)
  BY <1>2, RewrittenAre
<1>4. erased' = (erased \union {<<t, l>> : l \in {op.line} \ {NoLine}}) \ {<<t, l>> : l \in {op.new} \ {NoLine}}
  BY DEF Lands, Landed
<1> HIDE DEF lines
<1>5. Alone /\ Gone /\ Listed /\ \A q \in Processes \ {p} : memOp[q].at = "idle"
  <2>1. op.at # "idle"
    BY <1>1 DEF Rewriting
  <2> QED BY <2>1, OthersIdle
<1>6. memOp'[p] = x /\ \A q \in Processes \ {p} : memOp'[q].at = "idle"
  BY <1>5
<1>7. Alone'
  BY <1>1, <1>6 DEF Alone
<1>8. op.at \in {"edit", "unlisting"} => op.read = old
  BY <1>5 DEF Alone
<1>9. op.at = "open" => /\ t = NoTopic /\ op.new = NoLine /\ op.line = NoLine /\ op.read \subseteq FactLines
                        /\ ~memory[NoTopic].meaningful /\ old = {}
  <2> SUFFICES ASSUME op.at = "open"
               PROVE  /\ t = NoTopic /\ op.new = NoLine /\ op.line = NoLine /\ op.read \subseteq FactLines
                      /\ ~memory[NoTopic].meaningful /\ old = {}
    OBVIOUS
  <2>1. t = NoTopic /\ op.new = NoLine /\ op.line = NoLine /\ op.read \subseteq FactLines
    BY <1>2 DEF OpSane
  <2>2. ~memory[NoTopic].meaningful
    BY <1>5 DEF Alone
  <2> QED BY <2>1, <2>2, LineKinds DEF MemoryInv, FilesSane
<1>10. op.at \in {"edit", "unlisting", "open"}
  BY <1>1 DEF Rewriting
<1>11. \A e \in erased' : \/ e = <<t, op.line>> /\ op.line # NoLine /\ e \notin {<<t, l>> : l \in {op.new} \ {NoLine}}
                          \/ e \in erased /\ e \notin {<<t, l>> : l \in {op.new} \ {NoLine}}
  BY <1>4
<1>12. Gone'
  <2>1. ASSUME NEW e \in erased' PROVE e[2] \notin memory'[e[1]].lines
    <3>1. CASE e = <<t, op.line>> /\ op.line # NoLine /\ e \notin {<<t, l>> : l \in {op.new} \ {NoLine}}
      BY <1>1, <1>3, <3>1
    <3>2. CASE e \in erased /\ e \notin {<<t, l>> : l \in {op.new} \ {NoLine}}
      <4>1. e = <<e[1], e[2]>> /\ e[1] \in MemoryFiles /\ e[2] \notin memory[e[1]].lines
        BY <1>5, <3>2, EntryKinds DEF Gone
      <4>2. CASE e[1] = t /\ op.at = "open"
        BY <1>5, <1>9, <3>2, <4>2 DEF Gone
      <4>3. CASE e[1] = t /\ op.at # "open"
        <5>1. op.read = old /\ e[2] \notin old
          BY <1>8, <1>10, <4>1, <4>3
        <5>2. e[2] \notin {op.new} \ {NoLine}
          BY <3>2, <4>1, <4>3
        <5> QED BY <1>1, <1>3, <4>3, <5>1, <5>2
      <4>4. CASE e[1] # t
        BY <4>1, <4>4
      <4> QED BY <4>2, <4>3, <4>4
    <3> QED BY <1>11, <3>1, <3>2
  <2>2. ASSUME NEW e \in erased', e[1] = NoTopic PROVE memory'[NoTopic].meaningful
    <3>1. CASE op.at = "open"
      BY <1>5, <1>9, <1>11, <2>2, <3>1 DEF Gone
    <3>2. CASE op.at # "open" /\ t = NoTopic
      BY <1>1, <3>2
    <3>3. CASE t # NoTopic
      BY <1>5, <1>11, <2>2, <3>3, LineKinds DEF Gone
    <3> QED BY <3>1, <3>2, <3>3
  <2> QED BY <2>1, <2>2 DEF Gone
<1>13. \A u \in Topics : Pointer(u) \in lines => Pointer(u) \in old /\ Pointer(u) # op.line
  <2> SUFFICES ASSUME NEW u \in Topics, Pointer(u) \in lines
               PROVE  Pointer(u) \in old /\ Pointer(u) # op.line
    OBVIOUS
  <2>1. Pointer(u) \in op.read /\ Pointer(u) # op.line
    BY <1>3, LineKinds
  <2> QED BY <1>8, <1>9, <1>10, <2>1, LineKinds
<1>14. ASSUME NEW u \in Topics, Pointer(u) \in memory'[NoTopic].lines
       PROVE  memory'[u].lines # {} \/ Unlists(x, u)
  <2>1. Pointer(u) \in memory[NoTopic].lines /\ (t = NoTopic => Pointer(u) # op.line)
    BY <1>1, <1>13, <1>14, LineKinds
  <2>2. ~Unlists(op, u)
    <3>1. op.at # "unlist"
      BY <1>10
    <3>2. op.at = "unlisting" => t = NoTopic
      BY <1>2 DEF OpSane
    <3> QED BY <2>1, <3>1, <3>2 DEF Unlists
  <2>3. \A q \in Processes : ~Unlists(memOp[q], u)
    BY <1>5, <2>2 DEF Unlists
  <2>4. memory[u].lines # {}
    BY <1>5, <2>1, <2>3 DEF Listed
  <2>5. CASE u = t
    BY <1>1, <2>5, LineKinds DEF Unlists
  <2>6. CASE u # t
    BY <2>4, <2>6, LineKinds
  <2> QED BY <2>5, <2>6
<1>15. Listed'
  BY <1>14 DEF Listed
<1> QED BY <1>7, <1>12, <1>15

LEMMA LandsKeeps ==
    ASSUME MemoryInv, NEW p \in Processes, NEW n \in MemFiles, NEW x \in Ops, NEW added \in SUBSET Lines,
           Lands(p, n, x, added)
    PROVE  MemoryInv'
<1> DEFINE op == memOp[p]
           t == op.topic
           lines == RewrittenLines(op)
           old == memory[t].lines
           put == {<<t, l>> : l \in {op.new} \ {NoLine}}
           removed == {<<t, l>> : l \in {op.line} \ {NoLine}}
<1>1. /\ memory' = [memory EXCEPT ![t] = n] /\ n.lines = lines /\ lines \subseteq old \union added
      /\ (lines # {} => n.exists /\ n.meaningful) /\ undisturbed' = undisturbed /\ OpSane(x, memory)
      /\ memOp' \in [Processes -> Ops] /\ Seen(memOp, memOp', p, x, t, added)
  BY DEF Lands
<1>2. op \in Ops /\ t \in MemoryFiles /\ old \subseteq op.read \union op.since
  BY DEF MemoryInv, MemoryShape, OpsSane, OpSane, Ops, Lands
<1>3. /\ lines = (op.read \ {op.line}) \union ({op.new} \ {NoLine})
      /\ {op.line} \ {NoLine} \in SUBSET Lines /\ {op.new} \ {NoLine} \in SUBSET FactLines
  BY <1>2, RewrittenAre
<1>4. /\ told' = (told \ removed) \union put
      /\ lost' = (lost \union {<<t, l>> : l \in op.since \ lines}) \ put
      /\ erased' = (erased \union removed) \ put
  BY DEF Lands, Landed, Overtaken
<1> HIDE DEF lines
<1>5. x.at \notin Rewriting
  BY DEF Lands, Rewriting
<1>6. n.lines \subseteq memory[t].lines \union added /\ (n.lines # {} => n.exists /\ n.meaningful)
  BY <1>1
<1>7. /\ memory' \in [MemoryFiles -> MemFiles] /\ memory'[t] = n
      /\ \A g \in MemoryFiles \ {t} : memory'[g] = memory[g]
      /\ FilesSane' /\ OpsSane'
      /\ memOp'[p] = x /\ \A q \in Processes \ {p} : memOp'[q].at = memOp[q].at
  BY <1>1, <1>2, <1>5, <1>6, FileWritten
<1>8. MemoryShape'
  <2>1. told' \subseteq MemoryFiles \X FactLines /\ erased' \subseteq MemoryFiles \X Lines
    BY <1>2, <1>3, <1>4, LineKinds DEF MemoryInv, MemoryShape
  <2> QED BY <1>1, <1>7, <2>1 DEF MemoryInv, MemoryShape
<1>9. SavedIsKept'
  <2>1. ASSUME NEW e \in told' PROVE e[2] \in memory'[e[1]].lines \/ e \in lost'
    <3>1. CASE e \in put
      BY <1>1, <1>3, <1>7, <3>1
    <3>2. CASE e \in told \ removed /\ e \notin put
      <4>1. e = <<e[1], e[2]>> /\ e[1] \in MemoryFiles /\ e[2] \in FactLines
        BY <3>2, EntryKinds
      <4>2. e[2] \in memory[e[1]].lines \/ e \in lost
        BY <3>2 DEF MemoryInv, SavedIsKept
      <4>3. CASE e[1] # t
        BY <1>4, <1>7, <3>2, <4>1, <4>2, <4>3
      <4>4. CASE e[1] = t /\ e[2] \in old
        <5>1. e[2] # op.line
          BY <3>2, <4>1, <4>4, LineKinds
        <5>2. CASE e[2] \in op.read
          BY <1>1, <1>3, <1>7, <4>4, <5>1, <5>2
        <5>3. CASE e[2] \in op.since
          BY <1>1, <1>4, <1>7, <3>2, <4>1, <4>4, <5>3
        <5> QED BY <1>2, <4>4, <5>2, <5>3
      <4>5. CASE e \in lost
        BY <1>4, <3>2, <4>5
      <4> QED BY <4>2, <4>3, <4>4, <4>5
    <3> QED BY <1>4, <3>1, <3>2
  <2> QED BY <2>1 DEF SavedIsKept
<1>10. undisturbed' => Alone' /\ Gone' /\ Listed'
  BY <1>1, <1>7, LandsTidy
<1> QED BY <1>7, <1>8, <1>9, <1>10 DEF MemoryInv, Tidy

LEMMA RewriteKeeps == ASSUME MemoryInv, NEW p \in Processes, RewriteMemory(p) PROVE MemoryInv'
<1> DEFINE op == memOp[p]
           t == op.topic
           lines == RewrittenLines(op)
           n == Rewritten(op)
           added == lines \ memory[t].lines
<1>1. /\ WritesOver(op) /\ Landed(op) /\ memory' = [memory EXCEPT ![t] = n] /\ undisturbed' = undisturbed
      /\ memOp' = SeenByNone(t, added, [memOp EXCEPT ![p] = Resting])
  BY DEF RewriteMemory
<1>2. memOp \in [Processes -> Ops] /\ op \in Ops /\ OpSane(op, memory)
  BY DEF MemoryInv, MemoryShape, OpsSane
<1>3. lines \in SUBSET Lines /\ added \in SUBSET Lines
  BY <1>2, RewrittenAre
<1>4. /\ n \in MemFiles /\ n.lines = lines /\ (lines # {} => n.exists /\ n.meaningful)
      /\ op.at # "open" => n.meaningful
  BY <1>3 DEF Rewritten, MemFiles
<1>5. Resting \in Ops /\ Resting.at = "idle" /\ Resting.at \notin Rewriting /\ OpSane(Resting, memory)
  BY OpKinds DEF OpSane, Rewriting
<1>6. op.at \in Rewriting /\ (t = NoTopic \/ lines # {})
  <2>1. op.at \in {"unlisting", "open"} => t = NoTopic
    BY <1>2 DEF OpSane
  <2> QED BY <1>1, <2>1 DEF WritesOver, Rewriting
<1>7. memOp' \in [Processes -> Ops] /\ Seen(memOp, memOp', p, Resting, t, added)
  <2> HIDE DEF added
  <2> QED BY <1>1, <1>2, <1>3, <1>5, CallWrites
<1>8. lines \subseteq memory[t].lines \union added
  OBVIOUS
<1> HIDE DEF lines, added, n
<1>9. Lands(p, n, Resting, added)
  BY <1>1, <1>4, <1>5, <1>6, <1>7, <1>8 DEF Lands, lines
<1> QED BY <1>3, <1>4, <1>5, <1>9, LandsKeeps

LEMMA DissolveKeeps == ASSUME MemoryInv, NEW p \in Processes, DissolveTopic(p) PROVE MemoryInv'
<1> DEFINE op == memOp[p]
           t == op.topic
           x == [op EXCEPT !.at = "unlist"]
<1>1. /\ op.at = "edit" /\ t # NoTopic /\ RewrittenLines(op) = {} /\ undisturbed' = undisturbed
      /\ \/ memory' = [memory EXCEPT ![t] = NoMemoryFile] /\ Landed(op) /\ memOp' = [memOp EXCEPT ![p] = x]
         \/ memOp' = [memOp EXCEPT ![p] = Resting] /\ UNCHANGED <<memory, told, lost, erased>>
  BY DEF DissolveTopic, Step
<1>2. memOp \in [Processes -> Ops] /\ op \in Ops /\ undisturbed \in BOOLEAN
  BY DEF MemoryInv, MemoryShape
<1>3. CASE memOp' = [memOp EXCEPT ![p] = Resting] /\ UNCHANGED <<memory, told, lost, erased>>
  BY <1>1, <1>2, <1>3, RestKeeps
<1>4. CASE memory' = [memory EXCEPT ![t] = NoMemoryFile] /\ Landed(op) /\ memOp' = [memOp EXCEPT ![p] = x]
  <2>1. x \in Ops /\ x.at = "unlist" /\ x.topic = t
    BY <1>2, OpKinds
  <2>2. t \in Topics
    BY <1>1, <1>2 DEF MemoryFiles, Ops
  <2> HIDE DEF x
  <2>3. OpSane(x, memory)
    BY <2>1, <2>2 DEF OpSane, Rewriting
  <2>4. memOp' \in [Processes -> Ops] /\ Seen(memOp, memOp', p, x, t, {})
    BY <1>2, <1>4, <2>1, CallMoves, MovedSeen
  <2>5. NoMemoryFile \in MemFiles /\ NoMemoryFile.lines = RewrittenLines(op) /\ {} \in SUBSET Lines
    BY <1>1, FileKinds
  <2>6. op.at \in Rewriting
    BY <1>1 DEF Rewriting
  <2>7. Lands(p, NoMemoryFile, x, {})
    BY <1>1, <1>4, <2>1, <2>3, <2>4, <2>5, <2>6 DEF Lands
  <2> QED BY <2>1, <2>5, <2>7, LandsKeeps
<1> QED BY <1>1, <1>3, <1>4

\* A write over a file that is cut short: what it had and has no more is listed.
LEMMA RewriteCutKeeps ==
    ASSUME MemoryInv, NEW p \in Processes, NEW kept, NEW content \in BOOLEAN, RewriteCutShort(p, kept, content)
    PROVE  MemoryInv'
<1> DEFINE op == memOp[p]
           t == op.topic
           old == memory[t].lines
           added == kept \ old
           n == [exists |-> TRUE, meaningful |-> content, lines |-> kept]
<1>1. /\ kept \subseteq RewrittenLines(op) /\ (kept # {} => content) /\ undisturbed' = FALSE
      /\ memory' = [memory EXCEPT ![t] = n] /\ lost' = lost \union {<<t, l>> : l \in old \ kept}
      /\ memOp' = SeenByNone(t, added, [memOp EXCEPT ![p] = Resting]) /\ UNCHANGED <<told, erased>>
  BY DEF RewriteCutShort, Fault
<1>2. memOp \in [Processes -> Ops] /\ op \in Ops /\ t \in MemoryFiles
  BY DEF MemoryInv, MemoryShape, Ops
<1>3. kept \in SUBSET Lines /\ added \in SUBSET Lines
  BY <1>1, <1>2, RewrittenAre
<1>4. n \in MemFiles /\ n.lines = kept /\ (n.lines # {} => n.exists /\ n.meaningful)
  BY <1>1, <1>3 DEF MemFiles
<1>5. Resting \in Ops /\ Resting.at \notin Rewriting /\ OpSane(Resting, memory)
  BY OpKinds DEF OpSane, Rewriting
<1>6. n.lines \subseteq memory[t].lines \union added
  BY <1>4
<1> HIDE DEF added, n
<1>7. memOp' \in [Processes -> Ops] /\ Seen(memOp, memOp', p, Resting, t, added)
  BY <1>1, <1>2, <1>3, <1>5, CallWrites
<1>8. /\ memory' \in [MemoryFiles -> MemFiles] /\ memory'[t] = n
      /\ \A g \in MemoryFiles \ {t} : memory'[g] = memory[g]
      /\ FilesSane' /\ OpsSane'
  BY <1>1, <1>2, <1>3, <1>4, <1>5, <1>6, <1>7, FileWritten
<1>9. MemoryShape'
  BY <1>1, <1>7, <1>8 DEF MemoryInv, MemoryShape
<1>10. SavedIsKept'
  <2>1. ASSUME NEW e \in told' PROVE e[2] \in memory'[e[1]].lines \/ e \in lost'
    <3>1. e = <<e[1], e[2]>> /\ e[1] \in MemoryFiles /\ (e[2] \in memory[e[1]].lines \/ e \in lost)
      BY <1>1, EntryKinds DEF MemoryInv, SavedIsKept
    <3>2. CASE e[1] = t /\ e[2] \in old
      BY <1>1, <1>4, <1>8, <3>1, <3>2
    <3>3. CASE e[1] # t \/ e \in lost
      BY <1>1, <1>8, <3>1, <3>3
    <3> QED BY <3>1, <3>2, <3>3
  <2> QED BY <2>1 DEF SavedIsKept
<1> QED BY <1>1, <1>8, <1>9, <1>10 DEF MemoryInv, Tidy

\* The index is read to take a pointer off it.
LEMMA UnlistKeeps == ASSUME MemoryInv, NEW p \in Processes, RemoveIndexPointer(p) PROVE MemoryInv'
<1> DEFINE t == memOp[p].topic
           pointer == Pointer(t)
           index == memory[NoTopic].lines
           y == [Resting EXCEPT !.at = "unlisting", !.line = pointer, !.read = index]
           x == IF pointer \in index THEN y ELSE Resting
<1>1. /\ memOp[p].at = "unlist" /\ memOp' = [memOp EXCEPT ![p] = x]
      /\ UNCHANGED <<memory, told, lost, erased, undisturbed>>
  BY DEF RemoveIndexPointer, Step
<1>2. undisturbed \in BOOLEAN /\ index \in SUBSET Lines
  BY LineKinds DEF MemoryInv, MemoryShape, MemFiles
<1>3. t \in Topics /\ pointer \in Lines
  BY <1>1, LineKinds DEF MemoryInv, OpsSane, OpSane
<1>4. Resting \in Ops /\ Resting.at = "idle" /\ OpSane(Resting, memory)
  BY OpKinds DEF OpSane, Rewriting
<1>5. /\ y \in Ops /\ y.at = "unlisting" /\ y.topic = NoTopic /\ y.new = NoLine /\ y.line = pointer
      /\ y.read = index
  <2> HIDE DEF pointer, index
  <2> QED BY <1>2, <1>3, LineKinds DEF Resting, Ops, Rewriting
<1> HIDE DEF y
<1>6. OpSane(y, memory)
  BY <1>3, <1>5 DEF OpSane
<1>7. x \in Ops /\ OpSane(x, memory)
  BY <1>4, <1>5, <1>6
<1>8. MemoryShape' /\ FilesSane' /\ OpsSane' /\ SavedIsKept' /\ Gone' = Gone /\ CallMoved(memOp, memOp', p, x)
  <2> HIDE DEF x
  <2> QED BY <1>1, <1>2, <1>7, CallOnly
<1>9. ASSUME undisturbed PROVE Alone' /\ Gone' /\ Listed'
  <2>1. Alone /\ Gone /\ Listed /\ \A q \in Processes \ {p} : memOp[q].at = "idle"
    BY <1>1, <1>9, OthersIdle
  <2>2. memOp'[p] = x /\ \A q \in Processes \ {p} : memOp'[q].at = "idle"
    BY <1>8, <2>1 DEF CallMoved
  <2>3. Alone'
    BY <1>1, <1>4, <1>5, <2>2 DEF Alone
  <2>4. ASSUME NEW u \in Topics, Pointer(u) \in index PROVE memory[u].lines # {} \/ Unlists(x, u)
    <3>1. CASE u = t
      BY <1>5, <2>4, <3>1 DEF Unlists
    <3>2. CASE u # t
      <4>1. \A q \in Processes : ~Unlists(memOp[q], u)
        BY <1>1, <2>1, <3>2 DEF Unlists
      <4> QED BY <2>1, <2>4, <4>1 DEF Listed
    <3> QED BY <3>1, <3>2
  <2>5. Listed'
    BY <1>1, <2>2, <2>4 DEF Listed
  <2> QED BY <1>8, <2>1, <2>3, <2>5
<1> QED BY <1>1, <1>8, <1>9 DEF MemoryInv, Tidy

-----------------------------------------------------------------------------

LEMMA MemoryKept == MemoryInv /\ [MemoryNext]_memoryVars => MemoryInv'
<1> SUFFICES ASSUME MemoryInv, [MemoryNext]_memoryVars PROVE MemoryInv'
  OBVIOUS
<1>1. ASSUME NEW p \in Processes, NEW copied \in {Legacy, {}}, OpenMemory(p, copied) PROVE MemoryInv'
  BY <1>1, OpenKeeps
<1>2. ASSUME NEW p \in Processes, NEW t \in MemoryFiles, NEW w \in Facts, SaveMemory(p, t, w) PROVE MemoryInv'
  BY <1>2, SaveKeeps
<1>3. ASSUME NEW p \in Processes, NEW t \in MemoryFiles, NEW w \in Facts \union {{s} : s \in Topics},
             NEW new \in {NoLine} \union {Fact(v) : v \in Facts}, EditMemory(p, t, w, new)
      PROVE  MemoryInv'
  <2>1. new \in FactLines \union {NoLine}
    BY DEF FactLines
  <2> QED BY <2>1, <1>3, EditKeeps
<1>4. ASSUME NEW p \in Processes, DeclineMemory(p) \/ StopMidway(p) PROVE MemoryInv'
  BY <1>4, DeclineKeeps, StopKeeps
<1>5. ASSUME NEW p \in Processes, AppendBullet(p) \/ EnsureIndexPointer(p) PROVE MemoryInv'
  BY <1>5, AppendKeeps, EnsureKeeps
<1>6. ASSUME NEW p \in Processes, RewriteMemory(p) \/ DissolveTopic(p) \/ RemoveIndexPointer(p) PROVE MemoryInv'
  BY <1>6, RewriteKeeps, DissolveKeeps, UnlistKeeps
<1>7. ASSUME NEW p \in Processes, NEW content \in BOOLEAN, AppendCutShort(p, content) PROVE MemoryInv'
  BY <1>7, AppendCutKeeps
<1>8. ASSUME NEW p \in Processes, NEW kept \in SUBSET RewrittenLines(memOp[p]), NEW content \in BOOLEAN,
             RewriteCutShort(p, kept, content)
      PROVE  MemoryInv'
  BY <1>8, RewriteCutKeeps
<1>9. ASSUME NEW t \in MemoryFiles, NEW l \in memory[t].lines, HandEdit(t, l) PROVE MemoryInv'
  BY <1>9, HandKeeps
<1>10. CASE UNCHANGED memoryVars
  BY <1>10 DEF memoryVars, MemoryInv, MemoryShape, FilesSane, OpsSane, SavedIsKept, Tidy, Alone, Gone, Listed
<1> QED BY <1>1, <1>2, <1>3, <1>4, <1>5, <1>6, <1>7, <1>8, <1>9, <1>10 DEF MemoryNext

LEMMA MemoryTells == MemoryInv => MemoryIsTrue
<1> SUFFICES ASSUME MemoryInv PROVE MemoryIsTrue
  OBVIOUS
<1>1. ASSUME undisturbed, NEW t \in Topics, Pointer(t) \in memory[NoTopic].lines,
             \A p \in Processes : memOp[p].at = "idle"
      PROVE  RecallMemory(t) # {}
  <2>1. memory[t].lines # {}
    BY <1>1 DEF MemoryInv, Tidy, Listed, Unlists
  <2>2. memory[t].exists
    BY <2>1, LineKinds DEF MemoryInv, FilesSane
  <2> QED BY <2>1, <2>2 DEF RecallMemory
<1>2. IndexIsTidy
  BY <1>1 DEF IndexIsTidy, MemoryInv, Tidy, Gone
<1> QED BY <1>2 DEF MemoryIsTrue, MemoryInv

\* An entry the model was told is saved is in its file, or was lost to one of two things:
\* a write of the file from an older read of it, by an edit, a dissolved topic or an
\* opening session, or a write over the file that was cut short.  As long as no calls
\* overlap and none fails, nothing removed comes back and the index lists no empty topic.
THEOREM MemoryAlwaysTrue == MemorySpec => []MemoryIsTrue
<1>1. MemoryInit => MemoryInv
  BY MemoryStarts
<1>2. MemoryInv /\ [MemoryNext]_memoryVars => MemoryInv'
  BY MemoryKept
<1>3. MemoryInv => MemoryIsTrue
  BY MemoryTells
<1> QED BY <1>1, <1>2, <1>3, PTL DEF MemorySpec

\* What a session has at hand is what its files and its conversation hold: its to-dos, its
\* skills, and its memory but for the two losses that SavedIsKept names.
THEOREM AtHandAlwaysTrue == MemorySpec /\ ListSpec /\ SkillsSpec => []AtHandIsTrue
<1>1. MemoryIsTrue /\ ChecklistIsTrue /\ SkillsComeOnce => AtHandIsTrue
  BY DEF AtHandIsTrue
<1> QED BY <1>1, MemoryAlwaysTrue, ListAlwaysTrue, SkillsAlwaysOnce, PTL

-----------------------------------------------------------------------------
(* The gates of the shell: what is read-only is no destructive delete.     *)

\* A delete that the backstop finds in some segment stands, in command position, on a word
\* that the read-only gate takes for a change, whatever its switches are.
LEMMA GatesAgreeOn ==
    ASSUME NEW cmd, DestructiveDelete(cmd)
    PROVE  ~IsReadOnlyShell(cmd)
<1> DEFINE segments == Segments(cmd)
<1>1. PICK s \in DOMAIN segments : \E i \in DOMAIN Marked(segments[s]) :
          /\ Marked(segments[s])[i].commandPos
          /\ \/ Normalized(Marked(segments[s])[i].word) = <<"rm">>
             \/ Normalized(Marked(segments[s])[i].word) \in PowerShellDeletes
  BY DEF DestructiveDelete
<1> DEFINE segment == Marked(segments[s])
<1>2. PICK i \in DOMAIN segment :
          /\ segment[i].commandPos
          /\ Normalized(segment[i].word) = <<"rm">> \/ Normalized(segment[i].word) \in PowerShellDeletes
  BY <1>1
<1> HIDE DEF segment
<1>3. Mutates(segment, i)
  BY <1>2 DEF Mutates, DestructiveWords
<1> HIDE DEF segments
<1>4. \E t \in DOMAIN segments : \E j \in DOMAIN Marked(segments[t]) : Mutates(Marked(segments[t]), j)
  BY <1>3 DEF segment
<1> QED BY <1>4 DEF IsReadOnlyShell, segments

\* No command is a look for one gate and a recursive, forced delete for the other.
THEOREM GatesAlwaysAgree == ShellSpec => []GatesAgree
<1>1. ShellInit => GatesAgree
  BY GatesAgreeOn DEF GatesAgree
<1>2. GatesAgree /\ [ShellNext]_shellVars => GatesAgree'
  BY GatesAgreeOn DEF GatesAgree
<1> QED BY <1>1, <1>2, PTL DEF ShellSpec

-----------------------------------------------------------------------------
(* The places of a string.                                                 *)

\* One more place to look at.
Taken(t, part, found, i) ==
    IF /\ SubSeq(t, i, i + Len(part) - 1) = part
       /\ found = <<>> \/ i >= Last(found) + Len(part)
    THEN Append(found, i) ELSE found

MatchesSoFar(run, t, part, m) ==
    /\ run \in [0 .. m -> Seq(Nat)] /\ run[0] = <<>>
    /\ \A i \in 1 .. m : run[i] = Taken(t, part, run[i - 1], i)

\* The places found are the last of a run over the places of the text.
LEMMA MatchesRun ==
    ASSUME NEW t, NEW part, NEW m \in Nat, 1 .. m = 1 .. (Len(t) - Len(part) + 1)
    PROVE  \E run : MatchesSoFar(run, t, part, m) /\ run[m] = Matches(t, part)
<1> DEFINE X == Seq(Nat)
           base == <<>>
           seq == [i \in 1 .. (Len(t) - Len(part) + 1) |-> i]
           step == [i \in 1 .. m |-> [q \in X |-> Taken(t, part, q, i)]]
           body(g) == [s \in SUBSET (1 .. m) |-> IF s = {} THEN base ELSE Taken(t, part, g[s \ {Max(s)}], seq[Max(s)])]
           iter == CHOOSE iter : iter = body(iter)
<1>1. DOMAIN seq = 1 .. m /\ \A i \in 1 .. m : seq[i] = i
  OBVIOUS
<1>2. Matches(t, part) = iter[1 .. m]
  BY <1>1 DEF Matches, FoldLeft, MapThenFoldSet, Taken
<1>3. \A i \in 1 .. m, q \in X : Taken(t, part, q, i) \in X
  BY DEF Taken
<1>4. base \in X
  OBVIOUS
<1>5. /\ \A i \in 1 .. m : step[i] \in [X -> X]
      /\ \A i \in 1 .. m, q \in X : step[i][q] = Taken(t, part, q, i)
  BY <1>3
<1> HIDE DEF X, step, seq, base
<1>6. PICK g \in SolutionsOf(base, step, m, X) : TRUE
  <2>1. SolutionsOf(base, step, m, X) # {}
    <3>1. FoldSteps(step, m, X)
      BY <1>5 DEF FoldSteps
    <3> QED BY <1>1, <1>4, <3>1, FoldSolution
  <2> QED BY <2>1
<1>7. g = body(g)
  <2>1. ASSUME NEW s \in SUBSET (1 .. m)
        PROVE  g[s] = body(g)[s]
    BY <1>1, <1>5, <1>6 DEF SolutionsOf
  <2> HIDE DEF body
  <2>2. body(g) = [s \in SUBSET (1 .. m) |-> body(g)[s]]
    BY DEF body
  <2> QED BY <1>6, <2>1, <2>2 DEF SolutionsOf
<1>8. iter = body(iter)
  <2> HIDE DEF body
  <2> QED BY <1>7
<1> HIDE DEF iter
<1>9. iter[{}] = base
  BY <1>8
<1>10. \A s \in SUBSET (1 .. m) : s # {} /\ iter[s \ {Max(s)}] \in X => iter[s] = step[Max(s)][iter[s \ {Max(s)}]]
  <2>1. \A s \in SUBSET (1 .. m) : s # {} =>
            iter[s] = Taken(t, part, iter[s \ {Max(s)}], Max(s)) /\ Max(s) \in 1 .. m
    BY <1>1, <1>8, MaxIn
  <2> QED BY <1>1, <1>5, <2>1, ZenonT(30)
<1> HIDE DEF body
<1>11. PICK run \in RunOf(base, step, m, X) : run[m] = iter[1 .. m]
  <2>1. Solves(iter, base, step, m, X)
    BY <1>9, <1>10 DEF Solves
  <2>2. FoldSteps(step, m, X)
    BY <1>5 DEF FoldSteps
  <2> QED BY <1>4, <2>1, <2>2, FoldIsRun
<1>12. \A i \in 1 .. m : run[i] = Taken(t, part, run[i - 1], i)
  <2>1. \A i \in 1 .. m : i - 1 \in 0 .. m /\ run[i - 1] \in X
    BY <1>11 DEF RunOf
  <2> QED BY <1>5, <1>11, <2>1 DEF RunOf
<1> QED BY <1>2, <1>11, <1>12 DEF RunOf, MatchesSoFar, X, base

\* What is found is there, and if nothing is found it is nowhere.
LEMMA MatchesAre ==
    ASSUME NEW t \in Seq(Letters), NEW part \in Seq(Letters), part # <<>>
    PROVE  /\ Matches(t, part) \in Seq(Nat)
           /\ \A j \in 1 .. Len(Matches(t, part)) :
                  /\ Matches(t, part)[j] \in 1 .. (Len(t) - Len(part) + 1)
                  /\ SubSeq(t, Matches(t, part)[j], Matches(t, part)[j] + Len(part) - 1) = part
           /\ FoundIn(t, part) => Matches(t, part) # <<>>
<1> DEFINE n == Len(part)
           m == IF Len(t) - n + 1 > 0 THEN Len(t) - n + 1 ELSE 0
           There(i) == SubSeq(t, i, i + n - 1) = part
           Good(q) == \A j \in 1 .. Len(q) : q[j] \in 1 .. m /\ There(q[j])
<1>1. m \in Nat /\ 1 .. m = 1 .. (Len(t) - n + 1) /\ n \in Nat
  BY LenProperties
<1> HIDE DEF m
<1>0. PICK run : MatchesSoFar(run, t, part, m) /\ run[m] = Matches(t, part)
  BY <1>1, MatchesRun
<1>2. /\ run \in [0 .. m -> Seq(Nat)] /\ run[0] = <<>> /\ run[m] = Matches(t, part)
      /\ \A i \in 1 .. m : run[i] = Taken(t, part, run[i - 1], i)
  BY <1>0 DEF MatchesSoFar
<1> HIDE DEF n, There
<1> DEFINE P == {k \in 0 .. m : /\ Good(run[k]) /\ (run[k] = <<>> => \A i \in 1 .. k : ~There(i))}
<1>3. 0 \in P
  BY <1>1, <1>2
<1>4. ASSUME NEW k \in 0 .. m, k < m, k \in P
      PROVE  k + 1 \in P
  <2>1. k + 1 \in 1 .. m /\ (k + 1) - 1 = k /\ k + 1 \in 0 .. m /\ run[k] \in Seq(Nat) /\ run[k + 1] \in Seq(Nat)
    BY <1>1, <1>2, <1>4
  <2>2. run[k + 1] = Taken(t, part, run[k], k + 1)
    BY <1>2, <2>1
  <2>3. Good(run[k]) /\ (run[k] = <<>> => \A i \in 1 .. k : ~There(i))
    BY <1>4
  <2>4. CASE There(k + 1) /\ (run[k] = <<>> \/ k + 1 >= Last(run[k]) + n)
    <3>1. run[k + 1] = Append(run[k], k + 1)
      BY <2>2, <2>4 DEF Taken, There, n
    <3>2. run[k + 1] # <<>> /\ Len(run[k + 1]) = Len(run[k]) + 1 /\ run[k + 1][Len(run[k]) + 1] = k + 1
          /\ \A j \in 1 .. Len(run[k]) : run[k + 1][j] = run[k][j]
      BY <2>1, <3>1, AppendProperties
    <3>3. Good(run[k + 1])
      <4>1. \A j \in 1 .. Len(run[k + 1]) : j \in 1 .. Len(run[k]) \/ j = Len(run[k]) + 1
        BY <2>1, <3>2, LenProperties
      <4> QED BY <2>1, <2>3, <2>4, <3>2, <4>1
    <3> QED BY <2>1, <3>2, <3>3
  <2>5. CASE ~(There(k + 1) /\ (run[k] = <<>> \/ k + 1 >= Last(run[k]) + n))
    <3>1. run[k + 1] = run[k]
      BY <2>2, <2>5 DEF Taken, There, n
    <3>2. run[k] = <<>> => ~There(k + 1)
      BY <2>5
    <3>3. \A i \in 1 .. k + 1 : i \in 1 .. k \/ i = k + 1
      BY <1>4
    <3> QED BY <2>1, <2>3, <3>1, <3>2, <3>3
  <2> QED BY <2>4, <2>5
<1>5. 0 .. m \subseteq P
  <2> HIDE DEF P
  <2> QED BY <1>1, <1>3, <1>4, UpTo
<1>6. m \in P /\ Matches(t, part) \in Seq(Nat)
  <2>1. m \in 0 .. m
    BY <1>1
  <2> HIDE DEF P
  <2> QED BY <1>2, <1>5, <2>1
<1>7. Good(Matches(t, part)) /\ (Matches(t, part) = <<>> => \A i \in 1 .. m : ~There(i))
  BY <1>2, <1>6
<1> QED BY <1>1, <1>6, <1>7 DEF FoundIn, There, n

-----------------------------------------------------------------------------
(* Line ends, and splices.                                                 *)

\* A part of a list is a list of the same elements.
LEMMA PartOf ==
    ASSUME NEW W, NEW t \in Seq(W), NEW i \in Nat \ {0}, NEW j \in Int, j <= Len(t)
    PROVE  SubSeq(t, i, j) \in Seq(W)
<1>1. \A k \in i .. j : t[k] \in W
  <2>1. \A k \in i .. j : k \in 1 .. Len(t)
    BY LenProperties
  <2> QED BY <2>1, ElementOfSeq
<1> QED BY <1>1, SubSeqProperties

\* Both line ends are letters.
LEMMA LettersAre == "lf" \in Letters /\ "crlf" \in Letters
BY TextAssumption

\* The normal form of a text has its length and its places.
LEMMA LFIs ==
    ASSUME NEW t \in Seq(Letters)
    PROVE  /\ ToLF(t) \in Seq(Letters) /\ Len(ToLF(t)) = Len(t)
           /\ \A i \in 1 .. Len(t) : ToLF(t)[i] = IF t[i] = "crlf" THEN "lf" ELSE t[i]
<1>1. DOMAIN t = 1 .. Len(t) /\ Len(t) \in Nat /\ \A i \in 1 .. Len(t) : t[i] \in Letters
  BY LenProperties, ElementOfSeq
<1>2. ToLF(t) = [i \in 1 .. Len(t) |-> IF t[i] = "crlf" THEN "lf" ELSE t[i]]
  BY <1>1 DEF ToLF
<1>3. \A i \in 1 .. Len(t) : (IF t[i] = "crlf" THEN "lf" ELSE t[i]) \in Letters
  BY <1>1, LettersAre
<1> DEFINE n == Len(t)
           u == ToLF(t)
<1>4. u \in [1 .. n -> Letters] /\ \A i \in 1 .. n : u[i] = IF t[i] = "crlf" THEN "lf" ELSE t[i]
  BY <1>2, <1>3
<1>5. n \in Nat
  BY <1>1
<1> HIDE DEF u, n
<1>6. u \in Seq(Letters) /\ Len(u) = n
  BY <1>4, <1>5
<1> QED BY <1>4, <1>6 DEF u, n

\* A text written with the line ends of another is a text, of the same normal form.
LEMMA EncodedIs ==
    ASSUME NEW t \in Seq(Letters), NEW like
    PROVE  /\ Encoded(t, like) \in Seq(Letters)
           /\ t \in Seq(Letters \ {"crlf"}) => ToLF(Encoded(t, like)) = t
<1>1. DOMAIN t = 1 .. Len(t) /\ Len(t) \in Nat /\ \A i \in 1 .. Len(t) : t[i] \in Letters
  BY LenProperties, ElementOfSeq
<1>2. ToCRLF(t) = [i \in 1 .. Len(t) |-> IF t[i] = "lf" THEN "crlf" ELSE t[i]]
  BY <1>1 DEF ToCRLF
<1>3. \A i \in 1 .. Len(t) : (IF t[i] = "lf" THEN "crlf" ELSE t[i]) \in Letters
  BY <1>1, LettersAre
<1>4. /\ ToCRLF(t) \in Seq(Letters) /\ Len(ToCRLF(t)) = Len(t)
      /\ \A i \in 1 .. Len(t) : ToCRLF(t)[i] = IF t[i] = "lf" THEN "crlf" ELSE t[i]
  BY <1>1, <1>2, <1>3
<1>5. ASSUME t \in Seq(Letters \ {"crlf"}), NEW u \in {t, ToCRLF(t)}
      PROVE  ToLF(u) = t
  <2>1. \A i \in 1 .. Len(t) : t[i] # "crlf"
    BY <1>5, ElementOfSeq
  <2>2. u \in Seq(Letters) /\ Len(u) = Len(t)
    BY <1>4, <1>5
  <2>3. \A i \in 1 .. Len(t) : (IF u[i] = "crlf" THEN "lf" ELSE u[i]) = t[i]
    BY <1>4, <1>5, <2>1
  <2>4. ToLF(u) \in Seq(Letters) /\ Len(ToLF(u)) = Len(t) /\ \A i \in 1 .. Len(t) : ToLF(u)[i] = t[i]
    BY <2>2, <2>3, LFIs
  <2> QED BY <2>4, SeqEqual
<1> QED BY <1>4, <1>5 DEF Encoded

\* The normal form of a part is the part of the normal form.
LEMMA LFOfPart ==
    ASSUME NEW t \in Seq(Letters), NEW i \in Nat \ {0}, NEW j \in Int, j <= Len(t)
    PROVE  ToLF(SubSeq(t, i, j)) = SubSeq(ToLF(t), i, j)
<1>1. Len(t) \in Nat /\ \A k \in i .. j : t[k] \in Letters /\ ToLF(t)[k] \in Letters
  <2>1. Len(t) \in Nat /\ \A k \in i .. j : k \in 1 .. Len(t)
    BY LenProperties
  <2>2. \A k \in 1 .. Len(t) : t[k] \in Letters /\ ToLF(t)[k] \in Letters
    BY LFIs, ElementOfSeq
  <2> QED BY <2>1, <2>2
<1> DEFINE p == SubSeq(t, i, j)
           q == SubSeq(ToLF(t), i, j)
<1>2. /\ p \in Seq(Letters) /\ Len(p) = IF i <= j THEN j - i + 1 ELSE 0
      /\ \A k \in 1 .. j - i + 1 : p[k] = t[i + k - 1]
  BY <1>1, SubSeqProperties
<1>3. /\ q \in Seq(Letters) /\ Len(q) = IF i <= j THEN j - i + 1 ELSE 0
      /\ \A k \in 1 .. j - i + 1 : q[k] = ToLF(t)[i + k - 1]
  BY <1>1, SubSeqProperties
<1> HIDE DEF p, q
<1>4. /\ ToLF(p) \in Seq(Letters) /\ Len(ToLF(p)) = Len(p)
      /\ \A k \in 1 .. Len(p) : ToLF(p)[k] = IF p[k] = "crlf" THEN "lf" ELSE p[k]
  BY <1>2, LFIs
<1>5. ASSUME NEW k \in 1 .. Len(p)
      PROVE  ToLF(p)[k] = q[k]
  <2>1. k \in 1 .. j - i + 1 /\ i + k - 1 \in 1 .. Len(t)
    BY <1>1, <1>2, <1>5
  <2> QED BY <1>2, <1>3, <1>4, <2>1, LFIs
<1>6. ToLF(p) = q
  BY <1>2, <1>3, <1>4, <1>5, SeqEqual
<1> QED BY <1>6 DEF p, q

\* What a splice is made of.
Pieces(t, positions, n, new) ==
    [k \in 1 .. Len(positions) + 1 |->
        (IF k = 1 THEN <<>> ELSE new)
            \o SubSeq(t, IF k = 1 THEN 1 ELSE positions[k - 1] + n,
                         IF k > Len(positions) THEN Len(t) ELSE positions[k] - 1)]

\* Positions at which n letters are inside a text.
Inside(positions, t, n) == \A j \in 1 .. Len(positions) : positions[j] \in 1 .. (Len(t) - n + 1)

\* The pieces of a splice are texts, and so is what they make.
LEMMA PiecesAre ==
    ASSUME NEW t \in Seq(Letters), NEW new \in Seq(Letters), NEW n \in Nat, NEW positions \in Seq(Nat),
           Inside(positions, t, n)
    PROVE  /\ Pieces(t, positions, n, new) \in Seq(Seq(Letters))
           /\ Len(Pieces(t, positions, n, new)) = Len(positions) + 1
           /\ Spliced(t, positions, n, new) = FlattenSeq(Pieces(t, positions, n, new))
           /\ Spliced(t, positions, n, new) \in Seq(Letters)
<1> DEFINE p == Pieces(t, positions, n, new)
<1>1. Len(t) \in Nat /\ Len(positions) \in Nat
  BY LenProperties
<1>0. \A j \in 1 .. Len(positions) : positions[j] \in 1 .. (Len(t) - n + 1)
  BY DEF Inside
<1>2. ASSUME NEW k \in 1 .. Len(positions) + 1
      PROVE  p[k] \in Seq(Letters)
  <2> DEFINE from == IF k = 1 THEN 1 ELSE positions[k - 1] + n
             to == IF k > Len(positions) THEN Len(t) ELSE positions[k] - 1
             lead == IF k = 1 THEN <<>> ELSE new
  <2>1. from \in Nat \ {0}
    <3>1. CASE k # 1
      <4>1. k - 1 \in 1 .. Len(positions)
        BY <1>1, <1>2, <3>1
      <4>2. positions[k - 1] \in Nat \ {0}
        BY <1>0, <1>1, <4>1
      <4> QED BY <3>1, <4>2
    <3> QED BY <3>1
  <2>2. to \in Int /\ to <= Len(t)
    <3>1. CASE ~(k > Len(positions))
      <4>1. k \in 1 .. Len(positions)
        BY <1>1, <1>2, <3>1
      <4>2. positions[k] \in Int /\ positions[k] <= Len(t) - n + 1
        BY <1>0, <1>1, <4>1
      <4> QED BY <1>1, <3>1, <4>2
    <3> QED BY <1>1, <3>1
  <2>3. SubSeq(t, from, to) \in Seq(Letters)
    <3> HIDE DEF from, to
    <3> QED BY <2>1, <2>2, PartOf
  <2>4. lead \in Seq(Letters)
    BY EmptySeq
  <2>5. p[k] = lead \o SubSeq(t, from, to)
    BY <1>2 DEF Pieces
  <2> HIDE DEF lead, from, to, p
  <2> QED BY <2>3, <2>4, <2>5, ConcatProperties
<1>3. p \in Seq(Seq(Letters)) /\ Len(p) = Len(positions) + 1
  <2>1. p = [k \in 1 .. Len(positions) + 1 |-> p[k]]
    BY DEF Pieces
  <2> HIDE DEF p
  <2> QED BY <1>1, <1>2, <2>1
<1>4. Spliced(t, positions, n, new) = FlattenSeq(p)
  BY DEF Spliced, Pieces
<1>5. FlattenSeq(p) \in Seq(Letters)
  BY <1>3, FlattenRun
<1> QED BY <1>3, <1>4, <1>5

\* With one place, a splice changes that place alone.
LEMMA SplicedOnce ==
    ASSUME NEW t \in Seq(Letters), NEW new \in Seq(Letters), NEW n \in Nat,
           NEW at \in 1 .. (Len(t) - n + 1)
    PROVE  Spliced(t, <<at>>, n, new) = SubSeq(t, 1, at - 1) \o new \o SubSeq(t, at + n, Len(t))
<1> DEFINE positions == <<at>>
           p == Pieces(t, positions, n, new)
           head == SubSeq(t, 1, at - 1)
           tail == SubSeq(t, at + n, Len(t))
<1>1. Len(t) \in Nat /\ positions \in Seq(Nat) /\ Len(positions) = 1 /\ positions[1] = at
  BY LenProperties
<1>2. head \in Seq(Letters) /\ tail \in Seq(Letters)
  BY <1>1, PartOf
<1> HIDE DEF positions
<1>3. p[1] = <<>> \o head /\ p[2] = new \o tail
  <2>1. 1 \in 1 .. Len(positions) + 1 /\ 2 \in 1 .. Len(positions) + 1 /\ 2 - 1 = 1
        /\ ~(1 > Len(positions)) /\ 2 > Len(positions)
    BY <1>1
  <2> QED BY <1>1, <2>1 DEF Pieces
<1>10. Inside(positions, t, n)
  BY <1>1 DEF Inside
<1>4. p \in Seq(Seq(Letters)) /\ Len(p) = 2 /\ Spliced(t, positions, n, new) = FlattenSeq(p)
  <2>1. /\ p \in Seq(Seq(Letters)) /\ Len(p) = Len(positions) + 1
        /\ Spliced(t, positions, n, new) = FlattenSeq(p)
    BY <1>1, <1>10, PiecesAre
  <2> HIDE DEF p
  <2> QED BY <1>1, <2>1
<1> HIDE DEF p, head, tail
<1>5. PICK run \in [0 .. Len(p) -> Seq(Letters)] :
          /\ run[0] = <<>> /\ run[Len(p)] = FlattenSeq(p)
          /\ \A k \in 1 .. Len(p) : run[k] = run[k - 1] \o p[k]
  BY <1>4, FlattenRun
<1>6. run[1] = run[0] \o p[1] /\ run[2] = run[1] \o p[2]
  <2>1. 1 \in 1 .. Len(p) /\ 2 \in 1 .. Len(p) /\ 1 - 1 = 0 /\ 2 - 1 = 1
    BY <1>4
  <2> QED BY <1>5, <2>1
<1>7. run[1] = head
  BY <1>2, <1>3, <1>5, <1>6, ConcatEmptySeq
<1>8. FlattenSeq(p) = head \o (new \o tail)
  BY <1>3, <1>4, <1>5, <1>6, <1>7
<1>9. head \o (new \o tail) = (head \o new) \o tail
  <2>1. head \in Seq(Letters) /\ new \in Seq(Letters) /\ tail \in Seq(Letters)
    BY <1>2
  <2> QED BY <2>1, ConcatAssociative, SMTT(30)
<1> QED BY <1>4, <1>8, <1>9 DEF positions, head, tail

\* The first occurrence of a string is inside the text.
LEMMA FirstReplaced ==
    ASSUME NEW r \in Seq(Letters), NEW s \in Seq(Letters), NEW t \in Seq(Letters)
    PROVE  ReplaceFirstSubSeq(r, s, t) \in Seq(Letters)
<1> SUFFICES ASSUME s \in SubSeqs(t)
             PROVE  ReplaceSubSeqAt(IndexFirstSubSeq(s, t), r, s, t) \in Seq(Letters)
  BY DEF ReplaceFirstSubSeq
<1> DEFINE Ends(i) == s \in SubSeqs(SubSeq(t, 1, i))
           S == {i \in 0 .. Len(t) : Ends(i)}
<1>1. Len(t) \in Nat /\ Len(s) \in Nat /\ SubSeq(t, 1, Len(t)) = t
  BY LenProperties, SubSeqFull
<1>2. Len(t) \in S /\ S \in SUBSET Nat
  <2>1. Ends(Len(t))
    BY <1>1, Zenon
  <2>2. Len(t) \in 0 .. Len(t)
    BY <1>1
  <2> HIDE DEF Ends
  <2> QED BY <2>1, <2>2
<1>3. PICK first \in S : \A j \in S : first <= j
  <2> HIDE DEF S
  <2> QED BY <1>2, LeastNumber
<1> DEFINE First(i) == Ends(i) /\ \A j \in 0 .. i - 1 : s \notin SubSeqs(SubSeq(t, 1, j))
           last_ == CHOOSE i \in 0 .. Len(t) : First(i)
<1>4. first \in 0 .. Len(t) /\ First(first)
  BY <1>1, <1>3
<1>5. last_ \in 0 .. Len(t) /\ First(last_)
  <2> HIDE DEF First
  <2> QED BY <1>4
<1>6. IndexFirstSubSeq(s, t) = last_ - (Len(s) - 1)
  BY DEF IndexFirstSubSeq
<1> HIDE DEF last_
<1>7. Len(s) <= last_
  <2> DEFINE q == SubSeq(t, 1, last_)
  <2>1. q \in Seq(Letters) /\ Len(q) = last_
    <3>1. \A k \in 1 .. last_ : t[k] \in Letters
      BY <1>1, <1>5, ElementOfSeq
    <3> QED BY <1>5, <3>1, SubSeqProperties
  <2>2. s \in SubSeqs(q)
    BY <1>5
  <2> HIDE DEF q
  <2>3. PICK i \in 0 .. Len(q), j \in 0 .. Len(q) : s = SubSeq(q, i + 1, j)
    BY <2>2 DEF SubSeqs
  <2>4. \A k \in i + 1 .. j : q[k] \in Letters
    <3>1. \A k \in i + 1 .. j : k \in 1 .. Len(q)
      BY <1>5, <2>1, <2>3
    <3> QED BY <2>1, <3>1, ElementOfSeq
  <2>5. Len(SubSeq(q, i + 1, j)) = IF i + 1 <= j THEN j - (i + 1) + 1 ELSE 0
    <3>1. i + 1 \in Int /\ j \in Int
      BY <1>5, <2>1, <2>3
    <3> QED BY <2>4, <3>1, SubSeqProperties
  <2> QED BY <1>5, <2>1, <2>3, <2>5
<1> DEFINE at == IndexFirstSubSeq(s, t)
<1>8. at \in Nat \ {0} /\ at - 1 \in Int /\ at - 1 <= Len(t) /\ at + Len(s) \in Nat \ {0}
  BY <1>1, <1>5, <1>6, <1>7
<1> HIDE DEF at
<1> DEFINE head == SubSeq(t, 1, at - 1)
           tail == SubSeq(t, at + Len(s), Len(t))
<1>9. head \in Seq(Letters) /\ tail \in Seq(Letters)
  BY <1>1, <1>8, PartOf
<1> HIDE DEF head, tail
<1>10. (head \o r) \o tail \in Seq(Letters)
  BY <1>9, ConcatProperties
<1> QED BY <1>10 DEF ReplaceSubSeqAt, at, head, tail

-----------------------------------------------------------------------------
(* Splitting a text at its line ends, and joining it.                      *)

Bodies == Seq(Letters)

\* One more letter of a text that is split.
OneMoreLetter(lines, l) ==
    IF l = "lf" THEN Append(lines, <<>>) ELSE [lines EXCEPT ![Len(lines)] = Append(@, l)]

\* A letter more leaves a list of lines.
LEMMA LetterTyped ==
    ASSUME NEW lines \in Seq(Bodies), NEW l \in Letters
    PROVE  OneMoreLetter(lines, l) \in Seq(Bodies)
<1>1. CASE l = "lf"
  <2>1. <<>> \in Bodies
    BY EmptySeq DEF Bodies
  <2> HIDE DEF Bodies
  <2> QED BY <1>1, <2>1, AppendProperties DEF OneMoreLetter
<1>2. CASE l # "lf" /\ lines # <<>>
  <2>1. Len(lines) \in 1 .. Len(lines)
    BY <1>2, EmptySeq, LenProperties
  <2>2. lines[Len(lines)] \in Bodies
    BY <2>1, ElementOfSeq
  <2>3. Append(lines[Len(lines)], l) \in Bodies
    BY <2>2, AppendProperties DEF Bodies
  <2> HIDE DEF Bodies
  <2> QED BY <1>2, <2>1, <2>3, ExceptSeq DEF OneMoreLetter
<1>3. CASE l # "lf" /\ lines = <<>>
  <2>1. DOMAIN lines = {}
    BY <1>3
  <2>2. [lines EXCEPT ![Len(lines)] = Append(@, l)] = lines
    BY <1>3, <2>1
  <2> QED BY <1>3, <2>2 DEF OneMoreLetter
<1> QED BY <1>1, <1>2, <1>3

\* The lines of a text are the last of a run over its letters.
LEMMA SplitRun ==
    ASSUME NEW t \in Seq(Letters)
    PROVE  \E run \in [0 .. Len(t) -> Seq(Bodies)] :
              /\ run[0] = <<<<>>>> /\ run[Len(t)] = SplitAtLF(t)
              /\ \A i \in 1 .. Len(t) : run[i] = OneMoreLetter(run[i - 1], t[i])
<1> DEFINE X == Seq(Bodies)
           n == Len(t)
           base == <<<<>>>>
           step == [i \in 1 .. n |-> [q \in X |-> OneMoreLetter(q, t[i])]]
           body(g) == [s \in SUBSET (1 .. n) |-> IF s = {} THEN base ELSE OneMoreLetter(g[s \ {Max(s)}], t[Max(s)])]
           iter == CHOOSE iter : iter = body(iter)
<1>1. n \in Nat /\ DOMAIN t = 1 .. n /\ \A i \in 1 .. n : t[i] \in Letters
  BY LenProperties, ElementOfSeq
<1>2. SplitAtLF(t) = iter[1 .. n]
  BY <1>1 DEF SplitAtLF, FoldLeft, MapThenFoldSet, OneMoreLetter
<1>3. \A i \in 1 .. n, q \in X : OneMoreLetter(q, t[i]) \in X
  BY <1>1, LetterTyped
<1>4. base \in X
  BY DEF Bodies
<1> HIDE DEF X, base, n
<1>5. \A i \in 1 .. n : step[i] \in [X -> X] /\ \A q \in X : step[i][q] = OneMoreLetter(q, t[i])
  <2>1. ASSUME NEW i \in 1 .. n
        PROVE  step[i] = [q \in X |-> OneMoreLetter(q, t[i])]
    BY Zenon
  <2> HIDE DEF step
  <2> QED BY <1>3, <2>1
<1> HIDE DEF step
<1>6. PICK g \in SolutionsOf(base, step, n, X) : TRUE
  <2>1. SolutionsOf(base, step, n, X) # {}
    <3>1. FoldSteps(step, n, X)
      BY <1>5 DEF FoldSteps
    <3> QED BY <1>1, <1>4, <3>1, FoldSolution
  <2> QED BY <2>1
<1>7. g = body(g)
  <2>1. ASSUME NEW s \in SUBSET (1 .. n)
        PROVE  g[s] = body(g)[s]
    BY <1>1, <1>5, <1>6 DEF SolutionsOf
  <2> HIDE DEF body
  <2>2. body(g) = [s \in SUBSET (1 .. n) |-> body(g)[s]]
    BY DEF body
  <2> QED BY <1>6, <2>1, <2>2 DEF SolutionsOf
<1>8. iter = body(iter)
  <2> HIDE DEF body
  <2> QED BY <1>7
<1> HIDE DEF iter
<1>9. iter[{}] = base
  BY <1>8
<1>10. \A s \in SUBSET (1 .. n) : s # {} /\ iter[s \ {Max(s)}] \in X => iter[s] = step[Max(s)][iter[s \ {Max(s)}]]
  <2>1. \A s \in SUBSET (1 .. n) : s # {} => iter[s] = OneMoreLetter(iter[s \ {Max(s)}], t[Max(s)]) /\ Max(s) \in 1 .. n
    BY <1>1, <1>8, MaxIn
  <2> QED BY <1>1, <1>5, <2>1
<1> HIDE DEF body
<1>11. PICK run \in RunOf(base, step, n, X) : run[n] = iter[1 .. n]
  <2>1. Solves(iter, base, step, n, X)
    BY <1>9, <1>10 DEF Solves
  <2>2. FoldSteps(step, n, X)
    BY <1>5 DEF FoldSteps
  <2> QED BY <1>1, <1>4, <2>1, <2>2, FoldIsRun
<1>12. \A i \in 1 .. n : run[i] = OneMoreLetter(run[i - 1], t[i])
  <2>1. \A i \in 1 .. n : i - 1 \in 0 .. n /\ run[i - 1] \in X
    BY <1>1, <1>11 DEF RunOf
  <2> QED BY <1>5, <1>11, <2>1 DEF RunOf
<1> QED BY <1>2, <1>11, <1>12 DEF RunOf, X, base, n

\* The lines of a text with the line ends between them.
Links(lines) == [i \in DOMAIN lines |-> (IF i = 1 THEN <<>> ELSE <<"lf">>) \o lines[i]]

\* The links of a list of lines are texts, and so is what they make.
LEMMA LinksAre ==
    ASSUME NEW lines \in Seq(Bodies)
    PROVE  /\ Links(lines) \in Seq(Seq(Letters)) /\ Len(Links(lines)) = Len(lines)
           /\ \A i \in 1 .. Len(lines) : Links(lines)[i] = (IF i = 1 THEN <<>> ELSE <<"lf">>) \o lines[i]
           /\ Joined(lines) = FlattenSeq(Links(lines)) /\ Joined(lines) \in Seq(Letters)
<1>1. Len(lines) \in Nat /\ DOMAIN lines = 1 .. Len(lines)
  BY LenProperties
<1>2. ASSUME NEW i \in 1 .. Len(lines)
      PROVE  (IF i = 1 THEN <<>> ELSE <<"lf">>) \o lines[i] \in Seq(Letters)
  <2>1. lines[i] \in Seq(Letters)
    BY ElementOfSeq DEF Bodies
  <2>2. (IF i = 1 THEN <<>> ELSE <<"lf">>) \in Seq(Letters)
    BY LettersAre
  <2> QED BY <2>1, <2>2, ConcatProperties
<1>3. /\ Links(lines) \in Seq(Seq(Letters)) /\ Len(Links(lines)) = Len(lines)
      /\ \A i \in 1 .. Len(lines) : Links(lines)[i] = (IF i = 1 THEN <<>> ELSE <<"lf">>) \o lines[i]
  BY <1>1, <1>2 DEF Links
<1>4. Joined(lines) = FlattenSeq(Links(lines))
  BY DEF Joined, Links
<1>5. FlattenSeq(Links(lines)) \in Seq(Letters)
  BY <1>3, FlattenRun
<1> QED BY <1>3, <1>4, <1>5

\* An empty line more is a line end more; a letter more in the last line is one more.
LEMMA JoinedGrows ==
    ASSUME NEW lines \in Seq(Bodies), lines # <<>>, NEW l \in Letters
    PROVE  OneMoreLetter(lines, l) # <<>> /\ Joined(OneMoreLetter(lines, l)) = Joined(lines) \o <<l>>
<1> DEFINE longer == OneMoreLetter(lines, l)
           k == Links(lines)
           links == Links(longer)
           x == <<l>>
<1>1. Len(lines) \in Nat \ {0} /\ longer \in Seq(Bodies) /\ x \in Seq(Letters) /\ <<>> \in Bodies
  BY EmptySeq, LetterTyped DEF Bodies
<1>2. /\ k \in Seq(Seq(Letters)) /\ Len(k) = Len(lines)
      /\ \A i \in 1 .. Len(lines) : k[i] = (IF i = 1 THEN <<>> ELSE <<"lf">>) \o lines[i]
      /\ Joined(lines) = FlattenSeq(k)
  BY LinksAre
<1>3. /\ links \in Seq(Seq(Letters)) /\ Len(links) = Len(longer)
      /\ \A i \in 1 .. Len(longer) : links[i] = (IF i = 1 THEN <<>> ELSE <<"lf">>) \o longer[i]
      /\ Joined(longer) = FlattenSeq(links)
  BY <1>1, LinksAre
<1> HIDE DEF k, links
<1>4. CASE l = "lf"
  <2>1. longer = Append(lines, <<>>)
    BY <1>4 DEF OneMoreLetter
  <2>2. /\ Len(longer) = Len(lines) + 1 /\ longer[Len(lines) + 1] = <<>> /\ longer # <<>>
        /\ \A i \in 1 .. Len(lines) : longer[i] = lines[i]
    <3> HIDE DEF longer
    <3> QED BY <1>1, <2>1, AppendProperties
  <2> HIDE DEF longer
  <2>3. \A i \in 1 .. Len(k) : links[i] = k[i]
    <3>1. \A i \in 1 .. Len(lines) : i \in 1 .. Len(longer)
      BY <1>1, <2>2
    <3> QED BY <1>2, <1>3, <2>2, <3>1, ZenonT(30)
  <2>4. links[Len(k) + 1] = x
    <3>1. Len(k) + 1 \in 1 .. Len(longer) /\ Len(k) + 1 # 1
      BY <1>1, <1>2, <2>2
    <3>2. links[Len(k) + 1] = <<"lf">> \o <<>>
      BY <1>2, <1>3, <2>2, <3>1
    <3> QED BY <1>1, <1>4, <3>2, ConcatEmptySeq
  <2>5. Len(links) = Len(k) + 1
    BY <1>2, <1>3, <2>2
  <2> HIDE DEF x
  <2>6. FlattenSeq(links) = FlattenSeq(k) \o x
    BY <1>1, <1>2, <1>3, <2>3, <2>4, <2>5, ListGrows
  <2> QED BY <1>2, <1>3, <2>2, <2>6 DEF longer, x
<1>5. CASE l # "lf"
  <2> DEFINE m == Len(lines) - 1
             grown == Append(lines[Len(lines)], l)
  <2>1. m \in Nat /\ m + 1 = Len(lines) /\ Len(lines) \in 1 .. Len(lines)
    BY <1>1
  <2>2. lines[Len(lines)] \in Bodies
    BY <2>1, ElementOfSeq
  <2>3. grown \in Bodies /\ grown = lines[Len(lines)] \o x
    BY <2>2, AppendProperties, AppendIsConcat DEF Bodies
  <2>4. longer = [lines EXCEPT ![Len(lines)] = grown]
    BY <1>5 DEF OneMoreLetter
  <2> HIDE DEF longer, grown
  <2>5. /\ Len(longer) = Len(lines) /\ longer[Len(lines)] = grown
        /\ \A i \in 1 .. Len(lines) : i # Len(lines) => longer[i] = lines[i]
    <3>1. lines \in Seq(Bodies) /\ Len(lines) \in 1 .. Len(lines) /\ grown \in Bodies
      BY <2>1, <2>3
    <3> HIDE DEF Bodies
    <3> QED BY <2>4, <3>1, ExceptSeq
  <2>6. \A i \in 1 .. m : links[i] = k[i]
    <3>1. \A i \in 1 .. m : i \in 1 .. Len(lines) /\ i # Len(lines)
      BY <1>1
    <3> QED BY <1>2, <1>3, <2>5, <3>1, ZenonT(30)
  <2>7. links[m + 1] = k[m + 1] \o x
    <3> DEFINE lead == IF m + 1 = 1 THEN <<>> ELSE <<"lf">>
    <3>1. links[m + 1] = lead \o (lines[m + 1] \o x) /\ k[m + 1] = lead \o lines[m + 1]
      <4>1. m + 1 \in 1 .. Len(lines) /\ m + 1 \in 1 .. Len(longer)
        BY <2>1, <2>5
      <4>2. links[m + 1] = lead \o longer[m + 1] /\ k[m + 1] = lead \o lines[m + 1]
        BY <1>2, <1>3, <4>1
      <4> QED BY <2>1, <2>3, <2>5, <4>2
    <3>2. lead \in Seq(Letters) /\ lines[m + 1] \in Seq(Letters)
      BY <2>1, <2>2, LettersAre DEF Bodies
    <3> HIDE DEF lead, x, m
    <3>3. (lead \o lines[m + 1]) \o x = lead \o (lines[m + 1] \o x)
      <4> DEFINE v == lines[m + 1]
      <4>1. lead \in Seq(Letters) /\ v \in Seq(Letters) /\ x \in Seq(Letters)
        BY <1>1, <3>2
      <4> HIDE DEF v
      <4>2. (lead \o v) \o x = lead \o (v \o x)
        BY <4>1, ConcatAssociative, SMTT(30)
      <4> QED BY <4>2 DEF v
    <3> QED BY <3>1, <3>3
  <2>8. LastLonger(k, links, m, x)
    BY <1>2, <1>3, <2>1, <2>5, <2>6, <2>7 DEF LastLonger
  <2> HIDE DEF m, x
  <2>9. FlattenSeq(links) = FlattenSeq(k) \o x
    BY <1>1, <1>2, <1>3, <2>1, <2>8, LastGrows
  <2>10. longer # <<>>
    BY <1>1, <2>5, EmptySeq
  <2> QED BY <1>2, <1>3, <2>9, <2>10 DEF longer, x
<1> QED BY <1>4, <1>5

\* Joining what was split gives it back.
LEMMA SplitJoined ==
    ASSUME NEW t \in Seq(Letters)
    PROVE  SplitAtLF(t) \in Seq(Bodies) /\ SplitAtLF(t) # <<>> /\ Joined(SplitAtLF(t)) = t
<1> DEFINE n == Len(t)
<1>1. n \in Nat /\ \A i \in 1 .. n : t[i] \in Letters
  BY LenProperties, ElementOfSeq
<1>2. PICK run \in [0 .. n -> Seq(Bodies)] :
          /\ run[0] = <<<<>>>> /\ run[n] = SplitAtLF(t)
          /\ \A i \in 1 .. n : run[i] = OneMoreLetter(run[i - 1], t[i])
  BY SplitRun
<1>3. SubSeq(t, 1, n) = t
  BY SubSeqFull
<1> HIDE DEF n
<1> DEFINE P == {k \in 0 .. n : run[k] # <<>> /\ Joined(run[k]) = SubSeq(t, 1, k)}
<1>4. 0 \in P
  <2> DEFINE lines == run[0]
             links == Links(lines)
  <2>1. lines \in Seq(Bodies) /\ Len(lines) = 1 /\ lines[1] = <<>> /\ lines # <<>>
    <3>1. lines = <<<<>>>> /\ <<>> \in Bodies
      BY <1>2 DEF Bodies
    <3> HIDE DEF lines, Bodies
    <3> QED BY <3>1
  <2> HIDE DEF lines
  <2>2. /\ links \in Seq(Seq(Letters)) /\ Len(links) = 1 /\ Joined(lines) = FlattenSeq(links)
        /\ links[1] = <<>> \o <<>>
    <3>1. 1 \in 1 .. Len(lines)
      BY <2>1
    <3>2. links[1] = (IF 1 = 1 THEN <<>> ELSE <<"lf">>) \o lines[1]
      BY <2>1, <3>1, LinksAre
    <3> QED BY <2>1, <3>2, LinksAre
  <2> HIDE DEF links
  <2>3. links[1] = <<>>
    BY <2>2, ConcatEmptySeq, EmptySeq
  <2>4. FlattenSeq(links) = <<>>
    BY <2>2, <2>3, FlattenEmpties
  <2>5. SubSeq(t, 1, 0) = <<>>
    BY SubSeqEmpty
  <2> QED BY <1>1, <2>1, <2>2, <2>4, <2>5 DEF lines
<1>5. ASSUME NEW k \in 0 .. n, k < n, k \in P
      PROVE  k + 1 \in P
  <2>1. k + 1 \in 1 .. n /\ (k + 1) - 1 = k /\ k + 1 \in 0 .. n
    BY <1>1, <1>5
  <2>2. run[k + 1] = OneMoreLetter(run[k], t[k + 1]) /\ run[k] \in Seq(Bodies) /\ t[k + 1] \in Letters
    BY <1>1, <1>2, <2>1
  <2>3. run[k] # <<>> /\ Joined(run[k]) = SubSeq(t, 1, k)
    BY <1>5
  <2>4. run[k + 1] # <<>> /\ Joined(run[k + 1]) = SubSeq(t, 1, k) \o <<t[k + 1]>>
    BY <2>2, <2>3, JoinedGrows
  <2>5. SubSeq(t, 1, k + 1) = SubSeq(t, 1, k) \o <<t[k + 1]>>
    <3>1. 1 \in 1 .. Len(t) /\ k + 1 \in 1 .. Len(t)
      BY <1>1, <2>1 DEF n
    <3> QED BY <2>1, <3>1, SubSeqRecursiveSecond
  <2> QED BY <2>1, <2>4, <2>5
<1>6. 0 .. n \subseteq P
  <2> HIDE DEF P
  <2> QED BY <1>1, <1>4, <1>5, UpTo
<1> QED BY <1>1, <1>2, <1>3, <1>6

-----------------------------------------------------------------------------
(* Edits.                                                                  *)

EditRecords == [old : Seq(Letters), new : Seq(Letters), all : BOOLEAN]

\* What a change makes of a text is a text.
LEMMA AdjustedTyped ==
    ASSUME NEW current \in Seq(Letters), NEW old \in Seq(Letters),
           NEW adjusted \in Adjustments(current, SplitAtLF(current), SplitAtLF(old))
    PROVE  adjusted \in Seq(Letters)
<1> DEFINE lines == SplitAtLF(current)
           o == SplitAtLF(old)
<1>1. lines \in Seq(Bodies) /\ o \in Seq(Bodies)
  BY SplitJoined
<1> HIDE DEF lines, o
<1>2. ASSUME NEW s \in FuzzyStarts(lines, o)
      PROVE  Joined(SubSeq(lines, 1, s - 1) \o o \o SubSeq(lines, s + Len(o), Len(lines))) \in Seq(Letters)
  <2>1. Len(lines) \in Nat /\ Len(o) \in Nat /\ s \in 1 .. (Len(lines) - Len(o) + 1)
    BY <1>1, LenProperties DEF FuzzyStarts
  <2>2. SubSeq(lines, 1, s - 1) \in Seq(Bodies) /\ SubSeq(lines, s + Len(o), Len(lines)) \in Seq(Bodies)
    <3>1. s - 1 \in Int /\ s - 1 <= Len(lines) /\ s + Len(o) \in Nat \ {0}
      BY <2>1
    <3> QED BY <1>1, <2>1, <3>1, PartOf
  <2>3. (SubSeq(lines, 1, s - 1) \o o) \o SubSeq(lines, s + Len(o), Len(lines)) \in Seq(Bodies)
    BY <1>1, <2>2, ConcatProperties
  <2> QED BY <2>3, LinksAre
<1>3. adjusted \in Adjustments(current, lines, o)
  BY DEF lines, o
<1> QED BY <1>2, <1>3 DEF Adjustments

\* An edit whose string is found nowhere leaves a text.
LEMMA MissingTyped ==
    ASSUME NEW content \in Seq(Letters), NEW current \in Seq(Letters),
           NEW old \in Seq(Letters), NEW new \in Seq(Letters)
    PROVE  Missing(content, current, old, new).text \in Seq(Letters)
<1> DEFINE adjusted == Adjustments(current, SplitAtLF(current), SplitAtLF(old))
           results == {Unchanged(Encoded(ReplaceFirstSubSeq(new, old, t), content), "") : t \in adjusted}
<1>1. ASSUME NEW r \in results
      PROVE  r.text \in Seq(Letters)
  <2>1. PICK t \in adjusted : r = Unchanged(Encoded(ReplaceFirstSubSeq(new, old, t), content), "")
    OBVIOUS
  <2>2. t \in Seq(Letters)
    BY AdjustedTyped
  <2>3. ReplaceFirstSubSeq(new, old, t) \in Seq(Letters)
    BY <2>2, FirstReplaced
  <2>4. Encoded(ReplaceFirstSubSeq(new, old, t), content) \in Seq(Letters)
    BY <2>3, EncodedIs
  <2> QED BY <2>1, <2>4 DEF Unchanged
<1>2. \A note : Unchanged(content, note).text \in Seq(Letters)
  BY DEF Unchanged
<1>3. adjusted # {} => (CHOOSE r \in results : TRUE) \in results
  OBVIOUS
<1> HIDE DEF results
<1>4. adjusted # {} => (CHOOSE r \in results : TRUE).text \in Seq(Letters)
  BY <1>1, <1>3
<1> QED BY <1>2, <1>4 DEF Missing, results

\* The places where an edit finds its string.
PlacesOf(content, edit) ==
    {i \in 1 .. (Len(content) - Len(edit.old) + 1) :
        ToLF(SubSeq(content, i, i + Len(edit.old) - 1)) = ToLF(edit.old)}

ChangedAt(content, edit, i) ==
    SubSeq(content, 1, i - 1) \o Encoded(ToLF(edit.new), content)
        \o SubSeq(content, i + Len(edit.old), Len(content))

\* An edit leaves a text; if its string has a place, the edit misses, changes nothing, or
\* changes one place alone.
LEMMA EditDoes ==
    ASSUME NEW content \in Seq(Letters), NEW edit \in EditRecords, edit.old # <<>>
    PROVE  /\ ApplyEditText(content, edit).text \in Seq(Letters)
           /\ ~edit.all /\ PlacesOf(content, edit) # {} =>
                  \/ ApplyEditText(content, edit).note \in MissNotes
                  \/ ApplyEditText(content, edit).text = content
                  \/ \E i \in PlacesOf(content, edit) : ApplyEditText(content, edit).text = ChangedAt(content, edit, i)
<1> DEFINE current == ToLF(content)
           old == ToLF(edit.old)
           new == ToLF(edit.new)
           inserted == Encoded(new, content)
           found == Matches(current, old)
           n == Len(edit.old)
           r == ApplyEditText(content, edit)
<1>1. edit.old \in Seq(Letters) /\ edit.new \in Seq(Letters) /\ edit.all \in BOOLEAN
  BY DEF EditRecords
<1>2. /\ current \in Seq(Letters) /\ Len(current) = Len(content)
      /\ old \in Seq(Letters) /\ Len(old) = n /\ new \in Seq(Letters)
  BY <1>1, LFIs
<1>3. n \in Nat \ {0} /\ Len(content) \in Nat /\ old # <<>>
  BY <1>1, <1>2, LenProperties, EmptySeq
<1>4. inserted \in Seq(Letters)
  BY <1>2, EncodedIs
<1>5. /\ found \in Seq(Nat)
      /\ \A j \in 1 .. Len(found) : /\ found[j] \in 1 .. (Len(current) - Len(old) + 1)
                                    /\ SubSeq(current, found[j], found[j] + Len(old) - 1) = old
      /\ FoundIn(current, old) => found # <<>>
  BY <1>2, <1>3, MatchesAre
<1>6. \A i \in 1 .. (Len(content) - n + 1) :
          ToLF(SubSeq(content, i, i + n - 1)) = SubSeq(current, i, i + n - 1)
  <2> SUFFICES ASSUME NEW i \in 1 .. (Len(content) - n + 1)
               PROVE  ToLF(SubSeq(content, i, i + n - 1)) = SubSeq(current, i, i + n - 1)
    OBVIOUS
  <2> DEFINE j == i + n - 1
  <2>1. i \in Nat \ {0} /\ j \in Int /\ j <= Len(content)
    BY <1>3
  <2> HIDE DEF j
  <2>2. ToLF(SubSeq(content, i, j)) = SubSeq(ToLF(content), i, j)
    BY <2>1, LFOfPart
  <2> QED BY <2>2 DEF j, current
<1>7. r = IF edit.old = edit.new THEN Unchanged(content, "identical")
          ELSE IF found = <<>> THEN Missing(content, current, old, new)
          ELSE IF Len(found) > 1 /\ ~edit.all THEN Unchanged(content, "ambiguous")
          ELSE [text |-> Spliced(content, IF edit.all THEN found ELSE <<found[1]>>, Len(old), inserted), note |-> ""]
  BY DEF ApplyEditText, EditOf
<1> HIDE DEF current, old, new, inserted, found, r
<1>8. PlacesOf(content, edit) # {} => found # <<>>
  <2>1. ASSUME NEW i \in PlacesOf(content, edit)
        PROVE  FoundIn(current, old)
    <3>1. i \in 1 .. (Len(content) - n + 1) /\ ToLF(SubSeq(content, i, i + n - 1)) = old
      BY DEF PlacesOf, old
    <3>2. SubSeq(current, i, i + n - 1) = old
      BY <1>6, <3>1
    <3> QED BY <1>2, <3>1, <3>2 DEF FoundIn
  <2> QED BY <1>5, <2>1
<1>9. ASSUME found # <<>>
      PROVE  /\ 1 \in 1 .. Len(found) /\ found[1] \in 1 .. (Len(content) - n + 1)
             /\ found[1] \in PlacesOf(content, edit)
             /\ Spliced(content, <<found[1]>>, n, inserted) = ChangedAt(content, edit, found[1])
  <2>1. 1 \in 1 .. Len(found)
    BY <1>5, <1>9, EmptySeq
  <2>2. found[1] \in 1 .. (Len(content) - n + 1) /\ SubSeq(current, found[1], found[1] + n - 1) = old
    BY <1>2, <1>5, <2>1
  <2>3. found[1] \in PlacesOf(content, edit)
    BY <1>6, <2>2 DEF PlacesOf, old
  <2> DEFINE at == found[1]
  <2>4. at \in 1 .. (Len(content) - n + 1) /\ n \in Nat
    BY <1>3, <2>2
  <2> HIDE DEF at, n
  <2>5. Spliced(content, <<at>>, n, inserted) = SubSeq(content, 1, at - 1) \o inserted \o SubSeq(content, at + n, Len(content))
    BY <1>4, <2>4, SplicedOnce
  <2> QED BY <2>1, <2>2, <2>3, <2>5 DEF ChangedAt, at, n, inserted, new
<1>10. r.text \in Seq(Letters)
  <2>1. CASE edit.old = edit.new
    BY <1>7, <2>1 DEF Unchanged
  <2>2. CASE edit.old # edit.new /\ found = <<>>
    BY <1>2, <1>7, <2>2, MissingTyped
  <2>3. CASE edit.old # edit.new /\ found # <<>> /\ Len(found) > 1 /\ ~edit.all
    BY <1>7, <2>3 DEF Unchanged
  <2>4. CASE edit.old # edit.new /\ found # <<>> /\ ~(Len(found) > 1 /\ ~edit.all)
    <3> DEFINE positions == IF edit.all THEN found ELSE <<found[1]>>
    <3>1. r.text = Spliced(content, positions, n, inserted)
      BY <1>2, <1>7, <2>4
    <3>2. positions \in Seq(Nat) /\ Inside(positions, content, n)
      <4>1. CASE edit.all
        BY <1>2, <1>5, <4>1 DEF Inside
      <4>2. CASE ~edit.all
        <5>1. found[1] \in 1 .. (Len(content) - n + 1)
          BY <1>9, <2>4
        <5>2. found[1] \in Nat
          BY <1>3, <5>1
        <5>3. positions = <<found[1]>>
          BY <4>2
        <5> HIDE DEF positions
        <5>4. positions \in Seq(Nat) /\ Len(positions) = 1 /\ positions[1] = found[1]
          BY <5>2, <5>3
        <5>5. \A j \in 1 .. Len(positions) : positions[j] = found[1]
          BY <5>4
        <5> HIDE DEF n
        <5> QED BY <5>1, <5>4, <5>5 DEF Inside
      <4> QED BY <4>1, <4>2
    <3> HIDE DEF positions
    <3>3. n \in Nat
      BY <1>3
    <3> HIDE DEF n
    <3> QED BY <1>4, <3>1, <3>2, <3>3, PiecesAre
  <2> QED BY <2>1, <2>2, <2>3, <2>4
<1>11. ASSUME ~edit.all, PlacesOf(content, edit) # {}
       PROVE  \/ r.note \in MissNotes
              \/ r.text = content
              \/ \E i \in PlacesOf(content, edit) : r.text = ChangedAt(content, edit, i)
  <2>1. CASE edit.old = edit.new
    BY <1>7, <2>1 DEF Unchanged
  <2>2. CASE edit.old # edit.new /\ Len(found) > 1
    BY <1>7, <1>8, <1>11, <2>2 DEF Unchanged, MissNotes
  <2>3. CASE edit.old # edit.new /\ ~(Len(found) > 1)
    <3>1. r.text = Spliced(content, <<found[1]>>, n, inserted)
      BY <1>2, <1>7, <1>8, <1>11, <2>3
    <3> QED BY <1>8, <1>9, <1>11, <3>1
  <2> QED BY <2>1, <2>2, <2>3
<1> QED BY <1>10, <1>11 DEF r

\* One edit more of a pass.
PassStates == [text : Seq(Letters), missed : BOOLEAN]

OneMoreEdit(state, edit) ==
    IF edit.old = <<>> THEN state
    ELSE [text |-> ApplyEditText(state.text, edit).text,
          missed |-> state.missed \/ ApplyEditText(state.text, edit).note \in MissNotes]

\* A pass is the last of a run over its edits.
LEMMA PassRun ==
    ASSUME NEW content \in Seq(Letters), NEW edits \in Seq(EditRecords)
    PROVE  \E run \in [0 .. Len(edits) -> PassStates] :
              /\ run[0] = [text |-> content, missed |-> FALSE] /\ run[Len(edits)] = Pass(content, edits)
              /\ \A i \in 1 .. Len(edits) : run[i] = OneMoreEdit(run[i - 1], edits[i])
<1> DEFINE X == PassStates
           n == Len(edits)
           base == [text |-> content, missed |-> FALSE]
           step == [i \in 1 .. n |-> [q \in X |-> OneMoreEdit(q, edits[i])]]
           body(g) == [s \in SUBSET (1 .. n) |-> IF s = {} THEN base ELSE OneMoreEdit(g[s \ {Max(s)}], edits[Max(s)])]
           iter == CHOOSE iter : iter = body(iter)
<1>1. n \in Nat /\ DOMAIN edits = 1 .. n /\ \A i \in 1 .. n : edits[i] \in EditRecords
  BY LenProperties, ElementOfSeq
<1>2. Pass(content, edits) = iter[1 .. n]
  BY <1>1 DEF Pass, FoldLeft, MapThenFoldSet, OneMoreEdit
<1>3. ASSUME NEW i \in 1 .. n, NEW q \in X
      PROVE  OneMoreEdit(q, edits[i]) \in X
  <2>1. q.text \in Seq(Letters) /\ q.missed \in BOOLEAN /\ edits[i] \in EditRecords
    BY <1>1 DEF PassStates
  <2>2. edits[i].old # <<>> => ApplyEditText(q.text, edits[i]).text \in Seq(Letters)
    BY <2>1, EditDoes
  <2> QED BY <2>1, <2>2 DEF OneMoreEdit, PassStates
<1>4. base \in X
  BY DEF PassStates
<1> HIDE DEF X, base, n
<1>5. \A i \in 1 .. n : step[i] \in [X -> X] /\ \A q \in X : step[i][q] = OneMoreEdit(q, edits[i])
  <2>1. ASSUME NEW i \in 1 .. n
        PROVE  step[i] = [q \in X |-> OneMoreEdit(q, edits[i])]
    BY Zenon
  <2> HIDE DEF step
  <2> QED BY <1>3, <2>1
<1> HIDE DEF step
<1>6. PICK g \in SolutionsOf(base, step, n, X) : TRUE
  <2>1. SolutionsOf(base, step, n, X) # {}
    <3>1. FoldSteps(step, n, X)
      BY <1>5 DEF FoldSteps
    <3> QED BY <1>1, <1>4, <3>1, FoldSolution
  <2> QED BY <2>1
<1>7. g = body(g)
  <2>1. ASSUME NEW s \in SUBSET (1 .. n)
        PROVE  g[s] = body(g)[s]
    BY <1>1, <1>5, <1>6 DEF SolutionsOf
  <2> HIDE DEF body
  <2>2. body(g) = [s \in SUBSET (1 .. n) |-> body(g)[s]]
    BY DEF body
  <2> QED BY <1>6, <2>1, <2>2 DEF SolutionsOf
<1>8. iter = body(iter)
  <2> HIDE DEF body
  <2> QED BY <1>7
<1> HIDE DEF iter
<1>9. iter[{}] = base
  BY <1>8
<1>10. \A s \in SUBSET (1 .. n) : s # {} /\ iter[s \ {Max(s)}] \in X => iter[s] = step[Max(s)][iter[s \ {Max(s)}]]
  <2>1. \A s \in SUBSET (1 .. n) : s # {} => iter[s] = OneMoreEdit(iter[s \ {Max(s)}], edits[Max(s)]) /\ Max(s) \in 1 .. n
    BY <1>1, <1>8, MaxIn
  <2> QED BY <1>1, <1>5, <2>1
<1> HIDE DEF body
<1>11. PICK run \in RunOf(base, step, n, X) : run[n] = iter[1 .. n]
  <2>1. Solves(iter, base, step, n, X)
    BY <1>9, <1>10 DEF Solves
  <2>2. FoldSteps(step, n, X)
    BY <1>5 DEF FoldSteps
  <2> QED BY <1>1, <1>4, <2>1, <2>2, FoldIsRun
<1>12. \A i \in 1 .. n : run[i] = OneMoreEdit(run[i - 1], edits[i])
  <2>1. \A i \in 1 .. n : i - 1 \in 0 .. n /\ run[i - 1] \in X
    BY <1>1, <1>11 DEF RunOf
  <2> QED BY <1>5, <1>11, <2>1 DEF RunOf
<1> QED BY <1>2, <1>11, <1>12 DEF RunOf, X, base, n

\* A call with edits leaves a text; with one edit that is found and changes the text, it
\* changes the place alone.
LEMMA MultiEditDoes ==
    ASSUME NEW content \in Seq(Letters), NEW edits \in Seq(EditRecords)
    PROVE  /\ MultiEdit(content, edits).text \in Seq(Letters)
           /\ /\ MultiEdit(content, edits).report = "edited" /\ Len(edits) = 1
              /\ ~edits[1].all /\ PlacesOf(content, edits[1]) # {}
              => \E i \in PlacesOf(content, edits[1]) : MultiEdit(content, edits).text = ChangedAt(content, edits[1], i)
<1> DEFINE n == Len(edits)
           pass == Pass(content, edits)
           base == [text |-> content, missed |-> FALSE]
<1>1. n \in Nat
  BY LenProperties
<1>2. PICK run \in [0 .. n -> PassStates] :
          /\ run[0] = base /\ run[n] = pass
          /\ \A i \in 1 .. n : run[i] = OneMoreEdit(run[i - 1], edits[i])
  BY PassRun
<1>3. pass \in PassStates
  BY <1>1, <1>2
<1>4. pass.text \in Seq(Letters) /\ pass.missed \in BOOLEAN
  BY <1>3 DEF PassStates
<1> HIDE DEF pass
<1>5. MultiEdit(content, edits).text = IF pass.missed THEN content ELSE pass.text
  BY DEF MultiEdit, pass
<1>6. MultiEdit(content, edits).report = "edited" => ~pass.missed /\ pass.text # content
  BY <1>4 DEF MultiEdit, pass
<1>7. ASSUME MultiEdit(content, edits).report = "edited", n = 1,
             ~edits[1].all, PlacesOf(content, edits[1]) # {}
      PROVE  \E i \in PlacesOf(content, edits[1]) : pass.text = ChangedAt(content, edits[1], i)
  <2>1. edits[1] \in EditRecords
    BY <1>7, ElementOfSeq
  <2>2. pass = OneMoreEdit(base, edits[1])
    <3>1. 1 \in 1 .. n /\ 1 - 1 = 0
      BY <1>7
    <3> QED BY <1>2, <1>7, <3>1
  <2>3. edits[1].old # <<>>
    BY <1>6, <1>7, <2>2 DEF OneMoreEdit
  <2> DEFINE r == ApplyEditText(content, edits[1])
  <2>4. pass.text = r.text /\ r.note \notin MissNotes
    BY <1>6, <1>7, <2>2, <2>3 DEF OneMoreEdit
  <2>5. \/ r.note \in MissNotes
        \/ r.text = content
        \/ \E i \in PlacesOf(content, edits[1]) : r.text = ChangedAt(content, edits[1], i)
    BY <1>7, <2>1, <2>3, EditDoes
  <2> QED BY <1>6, <1>7, <2>4, <2>5
<1> QED BY <1>4, <1>5, <1>6, <1>7

-----------------------------------------------------------------------------
(* Reading a patch.                                                        *)

\* The lines of a patch, and what is known of it while it is read.
HunkLines == [tag : {"=", "-", "+", "unended"}, body : Bodies]
PatchLines == HunkLines \cup [tag : {"@@"}, body : Bodies, start : Int, old : Int, new : Int]
HunkRecords == [oldStart : Int, lines : Seq(PatchLines), newFinalNewline : BOOLEAN]
ParseStates ==
    {x \in [hunks : Seq(HunkRecords), old : Int, new : Int, newSide : BOOLEAN] :
        x.hunks = <<>> => x.old <= 0 /\ x.new <= 0 /\ ~x.newSide}

\* A line more leaves a parse.
LEMMA ParseTyped ==
    ASSUME NEW x \in ParseStates, NEW line \in PatchLines
    PROVE  ParseLine(x, line) \in ParseStates
<1> DEFINE hunks == x.hunks
           h == hunks[Len(hunks)]
           oldSide == line.tag \in {"=", "-"}
           newSide == line.tag \in {"=", "+"}
           ended == [h EXCEPT !.newFinalNewline = FALSE]
           grown == [h EXCEPT !.lines = Append(@, line)]
           begun == [oldStart |-> line.start, lines |-> <<>>, newFinalNewline |-> TRUE]
           fewer == x.old - (IF oldSide THEN 1 ELSE 0)
           less == x.new - (IF newSide THEN 1 ELSE 0)
<1>1. /\ hunks \in Seq(HunkRecords) /\ x.old \in Int /\ x.new \in Int /\ x.newSide \in BOOLEAN
      /\ x = [hunks |-> hunks, old |-> x.old, new |-> x.new, newSide |-> x.newSide]
      /\ hunks = <<>> => x.old <= 0 /\ x.new <= 0 /\ ~x.newSide
  BY DEF ParseStates
<1>0. x.old \in Int /\ x.new \in Int /\ (hunks = <<>> => x.old <= 0 /\ x.new <= 0)
  BY DEF ParseStates
<1>2. hunks # <<>> => Len(hunks) \in 1 .. Len(hunks) /\ h \in HunkRecords
  <2>1. hunks # <<>> => Len(hunks) \in 1 .. Len(hunks)
    BY <1>1, EmptySeq
  <2> QED BY <1>1, <2>1, ElementOfSeq
<1>3. hunks # <<>> => ended \in HunkRecords /\ grown \in HunkRecords
  <2>1. ASSUME hunks # <<>>
        PROVE  ended \in HunkRecords /\ grown \in HunkRecords
    <3> HIDE DEF h
    <3>1. h \in HunkRecords
      BY <1>2, <2>1
    <3>2. h.lines \in Seq(PatchLines)
      BY <3>1 DEF HunkRecords
    <3>3. Append(h.lines, line) \in Seq(PatchLines)
      BY <3>2, AppendProperties
    <3> QED BY <3>1, <3>3 DEF HunkRecords
  <2> QED BY <2>1
<1> HIDE DEF h, hunks
<1>4. CASE line.tag = "unended"
  <2>1. CASE x.newSide
    <3>1. hunks # <<>> /\ x.newSide
      BY <1>1, <2>1
    <3>2. ParseLine(x, line) = [x EXCEPT !.hunks = [hunks EXCEPT ![Len(hunks)] = ended]]
      BY <1>4, <2>1 DEF ParseLine, hunks, h
    <3> DEFINE changed == [hunks EXCEPT ![Len(hunks)] = ended]
    <3>3. changed \in Seq(HunkRecords) /\ Len(changed) = Len(hunks)
      <4> HIDE DEF ended
      <4> QED BY <1>1, <1>2, <1>3, <3>1, ExceptSeq
    <3>4. changed # <<>>
      BY <1>2, <3>1, <3>3, EmptySeq
    <3> HIDE DEF changed
    <3>5. ParseLine(x, line) = [hunks |-> changed, old |-> x.old, new |-> x.new, newSide |-> x.newSide]
      BY <1>1, <3>2 DEF changed
    <3> QED BY <1>1, <3>3, <3>4, <3>5 DEF ParseStates
  <2>2. CASE ~x.newSide
    <3>1. ParseLine(x, line) = x
      BY <1>1, <1>4, <2>2 DEF ParseLine
    <3> QED BY <3>1
  <2> QED BY <2>1, <2>2
<1>5. CASE line.tag # "unended" /\ (x.old > 0 \/ x.new > 0)
  <2>1. hunks # <<>>
    BY <1>0, <1>5
  <2> DEFINE changed == [hunks EXCEPT ![Len(hunks)] = grown]
  <2>2. ParseLine(x, line) = [hunks |-> changed, old |-> fewer, new |-> less, newSide |-> newSide]
    BY <1>1, <1>5 DEF ParseLine, hunks, h
  <2>3. changed \in Seq(HunkRecords) /\ Len(changed) = Len(hunks)
    <3> HIDE DEF grown
    <3> QED BY <1>1, <1>2, <1>3, <2>1, ExceptSeq
  <2>4. changed # <<>> /\ fewer \in Int /\ less \in Int /\ newSide \in BOOLEAN
    <3>1. Len(changed) # 0
      BY <1>2, <2>1, <2>3
    <3>2. changed # <<>>
      BY <2>3, <3>1, EmptySeq
    <3>3. fewer \in Int /\ less \in Int
      BY <1>0
    <3>4. newSide \in BOOLEAN
      OBVIOUS
    <3> QED BY <3>2, <3>3, <3>4
  <2> HIDE DEF changed, fewer, less, newSide
  <2> QED BY <2>2, <2>3, <2>4 DEF ParseStates
<1>6. CASE line.tag = "@@" /\ ~(x.old > 0 \/ x.new > 0)
  <2>1. line.start \in Int /\ line.old \in Int /\ line.new \in Int
    BY <1>6 DEF PatchLines, HunkLines
  <2>2. begun \in HunkRecords
    BY <2>1 DEF HunkRecords
  <2> DEFINE changed == Append(hunks, begun)
  <2>3. ParseLine(x, line) = [hunks |-> changed, old |-> line.old, new |-> line.new, newSide |-> FALSE]
    BY <1>1, <1>6 DEF ParseLine, hunks
  <2>4. changed \in Seq(HunkRecords) /\ changed # <<>>
    <3> HIDE DEF begun
    <3> QED BY <1>1, <2>2, AppendProperties
  <2> HIDE DEF changed
  <2> QED BY <2>1, <2>3, <2>4 DEF ParseStates
<1>7. CASE line.tag \notin {"unended", "@@"} /\ ~(x.old > 0 \/ x.new > 0)
  <2>1. ParseLine(x, line) = x
    BY <1>7 DEF ParseLine
  <2> QED BY <2>1
<1> QED BY <1>4, <1>5, <1>6, <1>7

Parsed(lines) == FoldLeft(ParseLine, NoHunks, lines)

\* A parse is the last of a run over the lines of the patch.
LEMMA PatchRun ==
    ASSUME NEW lines \in Seq(PatchLines)
    PROVE  \E run \in [0 .. Len(lines) -> ParseStates] :
              /\ run[0] = NoHunks /\ run[Len(lines)] = Parsed(lines)
              /\ \A i \in 1 .. Len(lines) : run[i] = ParseLine(run[i - 1], lines[i])
<1> DEFINE X == ParseStates
           n == Len(lines)
           base == NoHunks
           step == [i \in 1 .. n |-> [q \in X |-> ParseLine(q, lines[i])]]
           body(g) == [s \in SUBSET (1 .. n) |-> IF s = {} THEN base ELSE ParseLine(g[s \ {Max(s)}], lines[Max(s)])]
           iter == CHOOSE iter : iter = body(iter)
<1>1. n \in Nat /\ DOMAIN lines = 1 .. n /\ \A i \in 1 .. n : lines[i] \in PatchLines
  BY LenProperties, ElementOfSeq
<1>2. Parsed(lines) = iter[1 .. n]
  BY <1>1 DEF Parsed, FoldLeft, MapThenFoldSet
<1>3. \A i \in 1 .. n, q \in X : ParseLine(q, lines[i]) \in X
  BY <1>1, ParseTyped
<1>4. base \in X
  BY DEF NoHunks, ParseStates
<1> HIDE DEF X, base, n
<1>5. \A i \in 1 .. n : step[i] \in [X -> X] /\ \A q \in X : step[i][q] = ParseLine(q, lines[i])
  <2>1. ASSUME NEW i \in 1 .. n
        PROVE  step[i] = [q \in X |-> ParseLine(q, lines[i])]
    BY Zenon
  <2> HIDE DEF step
  <2> QED BY <1>3, <2>1
<1> HIDE DEF step
<1>6. PICK g \in SolutionsOf(base, step, n, X) : TRUE
  <2>1. SolutionsOf(base, step, n, X) # {}
    <3>1. FoldSteps(step, n, X)
      BY <1>5 DEF FoldSteps
    <3> QED BY <1>1, <1>4, <3>1, FoldSolution
  <2> QED BY <2>1
<1>7. g = body(g)
  <2>1. ASSUME NEW s \in SUBSET (1 .. n)
        PROVE  g[s] = body(g)[s]
    BY <1>1, <1>5, <1>6 DEF SolutionsOf
  <2> HIDE DEF body
  <2>2. body(g) = [s \in SUBSET (1 .. n) |-> body(g)[s]]
    BY DEF body
  <2> QED BY <1>6, <2>1, <2>2 DEF SolutionsOf
<1>8. iter = body(iter)
  <2> HIDE DEF body
  <2> QED BY <1>7
<1> HIDE DEF iter
<1>9. iter[{}] = base
  BY <1>8
<1>10. \A s \in SUBSET (1 .. n) : s # {} /\ iter[s \ {Max(s)}] \in X => iter[s] = step[Max(s)][iter[s \ {Max(s)}]]
  <2>1. \A s \in SUBSET (1 .. n) : s # {} => iter[s] = ParseLine(iter[s \ {Max(s)}], lines[Max(s)]) /\ Max(s) \in 1 .. n
    BY <1>1, <1>8, MaxIn
  <2> QED BY <1>1, <1>5, <2>1
<1> HIDE DEF body
<1>11. PICK run \in RunOf(base, step, n, X) : run[n] = iter[1 .. n]
  <2>1. Solves(iter, base, step, n, X)
    BY <1>9, <1>10 DEF Solves
  <2>2. FoldSteps(step, n, X)
    BY <1>5 DEF FoldSteps
  <2> QED BY <1>1, <1>4, <2>1, <2>2, FoldIsRun
<1>12. \A i \in 1 .. n : run[i] = ParseLine(run[i - 1], lines[i])
  <2>1. \A i \in 1 .. n : i - 1 \in 0 .. n /\ run[i - 1] \in X
    BY <1>1, <1>11 DEF RunOf
  <2> QED BY <1>5, <1>11, <2>1 DEF RunOf
<1> QED BY <1>2, <1>11, <1>12 DEF RunOf, X, base, n

\* A line more is one step more.
LEMMA ParseGrows ==
    /\ Parsed(<<>>) = NoHunks
    /\ \A lines \in Seq(PatchLines), line \in PatchLines :
           Parsed(lines \o <<line>>) = ParseLine(Parsed(lines), line)
<1>1. Parsed(<<>>) = NoHunks
  <2>1. <<>> \in Seq(PatchLines) /\ Len(<<>>) = 0
    BY EmptySeq
  <2> QED BY <2>1, PatchRun
<1>2. ASSUME NEW lines \in Seq(PatchLines), NEW line \in PatchLines
      PROVE  Parsed(lines \o <<line>>) = ParseLine(Parsed(lines), line)
  <2> DEFINE n == Len(lines)
             more == lines \o <<line>>
  <2>1. n \in Nat /\ more \in Seq(PatchLines) /\ Len(more) = n + 1 /\ more[n + 1] = line
        /\ \A i \in 1 .. n : more[i] = lines[i]
    OBVIOUS
  <2>2. PICK short \in [0 .. n -> ParseStates] :
            /\ short[0] = NoHunks /\ short[n] = Parsed(lines)
            /\ \A i \in 1 .. n : short[i] = ParseLine(short[i - 1], lines[i])
    BY PatchRun
  <2>3. PICK long \in [0 .. n + 1 -> ParseStates] :
            /\ long[0] = NoHunks /\ long[n + 1] = Parsed(more)
            /\ \A i \in 1 .. n + 1 : long[i] = ParseLine(long[i - 1], more[i])
    <3> HIDE DEF more, n
    <3>1. PICK long \in [0 .. Len(more) -> ParseStates] :
              /\ long[0] = NoHunks /\ long[Len(more)] = Parsed(more)
              /\ \A i \in 1 .. Len(more) : long[i] = ParseLine(long[i - 1], more[i])
      BY <2>1, PatchRun
    <3> QED BY <2>1, <3>1
  <2> HIDE DEF n, more
  <2> DEFINE P == {k \in 0 .. n : long[k] = short[k]}
  <2>4. 0 \in P
    BY <2>1, <2>2, <2>3
  <2>5. ASSUME NEW k \in 0 .. n, k < n, k \in P
        PROVE  k + 1 \in P
    <3>1. k + 1 \in 1 .. n /\ k + 1 \in 1 .. n + 1 /\ (k + 1) - 1 = k /\ k + 1 \in 0 .. n
      <4>1. n \in Nat
        BY <2>1
      <4>2. k \in Nat /\ k < n
        BY <2>5, <4>1
      <4> QED BY <4>1, <4>2
    <3>2. long[k + 1] = ParseLine(long[k], more[k + 1]) /\ short[k + 1] = ParseLine(short[k], lines[k + 1])
      BY <2>2, <2>3, <3>1
    <3>3. more[k + 1] = lines[k + 1] /\ long[k] = short[k]
      BY <2>1, <2>5, <3>1
    <3> QED BY <3>1, <3>2, <3>3
  <2>6. 0 .. n \subseteq P
    <3> HIDE DEF P
    <3> QED BY <2>1, <2>4, <2>5, UpTo
  <2>7. long[n] = short[n]
    BY <2>1, <2>6
  <2>8. long[n + 1] = ParseLine(long[n], more[n + 1])
    <3>1. n + 1 \in 1 .. n + 1 /\ (n + 1) - 1 = n
      BY <2>1
    <3> QED BY <2>3, <3>1
  <2> QED BY <2>1, <2>2, <2>3, <2>7, <2>8 DEF more
<1> QED BY <1>1, <1>2

\* A hunk that is being read.
OneHunk(start, lines, newline, old, new, side) ==
    [hunks |-> <<[oldStart |-> start, lines |-> lines, newFinalNewline |-> newline]>>,
     old |-> old, new |-> new, newSide |-> side]

\* A record of a hunk with one line more.
LEMMA LinesGrown ==
    ASSUME NEW a, NEW b, NEW c, NEW d
    PROVE  [[oldStart |-> a, lines |-> b, newFinalNewline |-> c] EXCEPT !.lines = Append(@, d)]
             = [oldStart |-> a, lines |-> Append(b, d), newFinalNewline |-> c]
OBVIOUS

\* A record of a hunk with another final line end.
LEMMA NewlineSet ==
    ASSUME NEW a, NEW b, NEW c, NEW d
    PROVE  [[oldStart |-> a, lines |-> b, newFinalNewline |-> c] EXCEPT !.newFinalNewline = d]
             = [oldStart |-> a, lines |-> b, newFinalNewline |-> d]
OBVIOUS

\* The one element of a list changes.
LEMMA OnlyChanged ==
    ASSUME NEW h, NEW g
    PROVE  [<<h>> EXCEPT ![1] = g] = <<g>>
OBVIOUS

\* A record of a parse with other hunks.
LEMMA HunksChanged ==
    ASSUME NEW a, NEW b, NEW c, NEW d, NEW e
    PROVE  [[hunks |-> a, old |-> b, new |-> c, newSide |-> d] EXCEPT !.hunks = e]
             = [hunks |-> e, old |-> b, new |-> c, newSide |-> d]
OBVIOUS

\* A line of a hunk's body is added to it and counted.
LEMMA HunkGrows ==
    ASSUME NEW start, NEW lines, NEW newline, NEW old \in Nat, NEW new \in Nat, NEW side \in BOOLEAN,
           NEW line, line.tag \in {"=", "-", "+"}, old > 0 \/ new > 0
    PROVE  ParseLine(OneHunk(start, lines, newline, old, new, side), line)
             = OneHunk(start, Append(lines, line), newline, old - (IF line.tag \in {"=", "-"} THEN 1 ELSE 0),
                       new - (IF line.tag \in {"=", "+"} THEN 1 ELSE 0), line.tag \in {"=", "+"})
<1> DEFINE h == [oldStart |-> start, lines |-> lines, newFinalNewline |-> newline]
           g == [oldStart |-> start, lines |-> Append(lines, line), newFinalNewline |-> newline]
           x == [hunks |-> <<h>>, old |-> old, new |-> new, newSide |-> side]
           fewer == old - (IF line.tag \in {"=", "-"} THEN 1 ELSE 0)
           less == new - (IF line.tag \in {"=", "+"} THEN 1 ELSE 0)
           newSide == line.tag \in {"=", "+"}
<1>2. [h EXCEPT !.lines = Append(@, line)] = g
  BY LinesGrown
<1>1. x = OneHunk(start, lines, newline, old, new, side)
  BY DEF OneHunk
<1>5. line.tag # "unended"
  OBVIOUS
<1> HIDE DEF h, g
<1>3. [<<h>> EXCEPT ![1] = g] = <<g>>
  BY OnlyChanged
<1>6. x.hunks = <<h>> /\ x.old = old /\ x.new = new /\ x.newSide = side /\ Len(x.hunks) = 1 /\ x.hunks[1] = h
  OBVIOUS
<1>7. ParseLine(x, line) = [hunks |-> [<<h>> EXCEPT ![1].lines = Append(@, line)],
                            old |-> fewer, new |-> less, newSide |-> newSide]
  BY <1>5, <1>6 DEF ParseLine
<1>8. [<<h>> EXCEPT ![1].lines = Append(@, line)] = <<g>>
  BY <1>2, <1>3
<1> QED BY <1>1, <1>7, <1>8 DEF OneHunk, g, fewer, less, newSide

\* A line without its end on the new side takes the end of the new text.
LEMMA HunkUnended ==
    ASSUME NEW start, NEW lines, NEW newline, NEW old, NEW new, NEW side \in BOOLEAN
    PROVE  ParseLine(OneHunk(start, lines, newline, old, new, side), NoNewline)
             = OneHunk(start, lines, IF side THEN FALSE ELSE newline, old, new, side)
<1> DEFINE h == [oldStart |-> start, lines |-> lines, newFinalNewline |-> newline]
           g == [oldStart |-> start, lines |-> lines, newFinalNewline |-> FALSE]
           x == [hunks |-> <<h>>, old |-> old, new |-> new, newSide |-> side]
<1>1. [h EXCEPT !.newFinalNewline = FALSE] = g
  <2>1. \A d : [h EXCEPT !.newFinalNewline = d] = [oldStart |-> start, lines |-> lines, newFinalNewline |-> d]
    BY NewlineSet
  <2> HIDE DEF h
  <2> QED BY <2>1, Zenon
<1>2. x = OneHunk(start, lines, newline, old, new, side)
  BY DEF OneHunk
<1>7. NoNewline.tag = "unended"
  BY DEF NoNewline
<1>8. ~side => ParseLine(x, NoNewline) = [x EXCEPT !.hunks = @]
  BY <1>7 DEF ParseLine
<1>9. ~side => [x EXCEPT !.hunks = @] = x
  OBVIOUS
<1> HIDE DEF h, g
<1>3. [<<h>> EXCEPT ![1] = g] = <<g>>
  BY OnlyChanged
<1>4. Len(<<h>>) = 1 /\ <<h>>[1] = h
  OBVIOUS
<1>5. [<<h>> EXCEPT ![Len(<<h>>)].newFinalNewline = FALSE] = <<g>>
  BY <1>1, <1>3, <1>4
<1>6. side => ParseLine(x, NoNewline) = [x EXCEPT !.hunks = <<g>>]
  BY <1>5, <1>7 DEF ParseLine
<1>10. [x EXCEPT !.hunks = <<g>>] = [hunks |-> <<g>>, old |-> old, new |-> new, newSide |-> side]
  BY HunksChanged
<1> QED BY <1>2, <1>6, <1>8, <1>9, <1>10 DEF OneHunk, h, g

-----------------------------------------------------------------------------
(* The lines of a text as a diff sees them.                                *)

\* The lines of a text as a diff sees them.
LineRecords == [body : Bodies, ended : BOOLEAN]
BodiesOf(a) == [i \in DOMAIN a |-> a[i].body]
EndOf(a, ended) == IF a # <<>> /\ ended THEN <<"lf">> ELSE <<>>

\* The bodies of the lines, by their places.
LEMMA BodiesAre ==
    ASSUME NEW a \in Seq(LineRecords)
    PROVE  /\ BodiesOf(a) \in Seq(Bodies) /\ Len(BodiesOf(a)) = Len(a)
           /\ \A i \in 1 .. Len(a) : BodiesOf(a)[i] = a[i].body /\ a[i].body \in Bodies
<1>1. Len(a) \in Nat /\ DOMAIN a = 1 .. Len(a) /\ \A i \in 1 .. Len(a) : a[i] \in LineRecords
  BY LenProperties, ElementOfSeq
<1>2. \A i \in 1 .. Len(a) : a[i].body \in Bodies
  BY <1>1 DEF LineRecords
<1> QED BY <1>1, <1>2 DEF BodiesOf

\* A text without its last line end.
Trimmed(t) == IF EndsInLF(t) THEN Front(t) ELSE t

\* A text is what is trimmed of it and its last line end.
LEMMA TrimmedIs ==
    ASSUME NEW t \in Seq(Letters)
    PROVE  /\ Trimmed(t) \in Seq(Letters)
           /\ t = Trimmed(t) \o (IF EndsInLF(t) THEN <<"lf">> ELSE <<>>)
           /\ EndsInLF(t) /\ Trimmed(t) = <<>> => t = <<"lf">>
<1>1. CASE EndsInLF(t)
  <2> DEFINE n == Len(t)
  <2>1. t # <<>> /\ Last(t) = "lf" /\ n \in Nat
    BY <1>1, LenProperties DEF EndsInLF
  <2>2. n \in 1 .. n /\ n - 1 \in 0 .. n /\ t[n] = "lf" /\ n >= 1
    BY <2>1, EmptySeq DEF Last
  <2>3. Trimmed(t) = SubSeq(t, 1, n - 1)
    BY <1>1 DEF Trimmed, Front
  <2>4. SubSeq(t, 1, n - 1) \in Seq(Letters)
    <3>1. 1 \in Nat \ {0} /\ n - 1 \in Int /\ n - 1 <= Len(t)
      BY <2>2
    <3> QED BY <3>1, PartOf
  <2>5. t = SubSeq(t, 1, n - 1) \o <<"lf">>
    <3>1. SubSeq(t, 1, n) = SubSeq(t, 1, n - 1) \o <<t[n]>>
      <4>1. 1 \in 1 .. Len(t) /\ n \in 1 .. Len(t)
        BY <2>2
      <4> QED BY <4>1, SubSeqRecursiveSecond
    <3>2. SubSeq(t, 1, n) = t
      BY SubSeqFull
    <3> QED BY <2>2, <3>1, <3>2
  <2>6. <<>> \o <<"lf">> = <<"lf">>
    OBVIOUS
  <2> QED BY <1>1, <2>3, <2>4, <2>5, <2>6
<1>2. CASE ~EndsInLF(t)
  <2>1. t \o <<>> = t
    BY ConcatEmptySeq
  <2> QED BY <1>2, <2>1 DEF Trimmed
<1> QED BY <1>1, <1>2

\* The lines a diff sees, joined, give the text; applyHunks works on the same bodies.
LEMMA DiffLinesAre ==
    ASSUME NEW t \in Seq(Letters)
    PROVE  /\ DiffLines(t) \in Seq(LineRecords)
           /\ \A i \in 1 .. Len(DiffLines(t)) : DiffLines(t)[i].ended <=> i < Len(DiffLines(t)) \/ EndsInLF(t)
           /\ Joined(BodiesOf(DiffLines(t))) \o EndOf(DiffLines(t), EndsInLF(t)) = t
           /\ t # <<"lf">> => SourceLines(t) = BodiesOf(DiffLines(t))
<1> DEFINE lines == IF t = <<>> THEN <<>> ELSE SplitAtLF(Trimmed(t))
           a == [i \in DOMAIN lines |-> [body |-> lines[i], ended |-> i < Len(lines) \/ EndsInLF(t)]]
<1>1. DiffLines(t) = a
  BY DEF DiffLines, Trimmed
<1>2. lines \in Seq(Bodies)
  <2>1. <<>> \in Seq(Bodies)
    BY EmptySeq
  <2>2. SplitAtLF(Trimmed(t)) \in Seq(Bodies)
    BY TrimmedIs, SplitJoined
  <2> QED BY <2>1, <2>2
<1>3. EndsInLF(t) \in BOOLEAN /\ (EndsInLF(t) => t # <<>>)
  BY DEF EndsInLF
<1>4. Joined(lines) \o (IF lines # <<>> /\ EndsInLF(t) THEN <<"lf">> ELSE <<>>) = t
  <2>1. CASE t = <<>>
    <3>1. lines = <<>> /\ ~EndsInLF(t)
      BY <1>3, <2>1
    <3>2. <<>> \in Seq(Bodies) /\ Len(<<>>) = 0
      BY EmptySeq
    <3> DEFINE none == <<>>
    <3>3. none \in Seq(Bodies) /\ Len(none) = 0
      BY <3>2
    <3> HIDE DEF none
    <3>4. /\ Links(none) \in Seq(Seq(Letters)) /\ Len(Links(none)) = 0
          /\ Joined(none) = FlattenSeq(Links(none))
      BY <3>3, LinksAre
    <3>5. Joined(none) = <<>>
      <4>1. \A k \in 1 .. Len(Links(none)) : Links(none)[k] = <<>>
        BY <3>4
      <4> QED BY <3>4, <4>1, FlattenEmpties
    <3>6. Joined(none) \o <<>> = <<>>
      BY <3>5
    <3> QED BY <2>1, <3>1, <3>6 DEF none
  <2>2. CASE t # <<>>
    <3>1. lines = SplitAtLF(Trimmed(t)) /\ lines # <<>> /\ Joined(lines) = Trimmed(t)
      BY <2>2, TrimmedIs, SplitJoined
    <3> HIDE DEF lines
    <3> QED BY <3>1, TrimmedIs
  <2> QED BY <2>1, <2>2
<1>5. t # <<"lf">> => SourceLines(t) = lines
  <2>1. SourceLines(t) = IF Trimmed(t) = <<>> THEN <<>> ELSE SplitAtLF(Trimmed(t))
    BY DEF SourceLines, Trimmed
  <2>2. t # <<"lf">> => (Trimmed(t) = <<>> <=> t = <<>>)
    <3>1. t = <<>> => Trimmed(t) = t
      BY <1>3 DEF Trimmed
    <3>2. t # <<"lf">> /\ Trimmed(t) = <<>> => t = <<>>
      <4>1. ~EndsInLF(t) => Trimmed(t) = t
        BY DEF Trimmed
      <4> QED BY <4>1, TrimmedIs
    <3> QED BY <3>1, <3>2
  <2> QED BY <2>1, <2>2
<1> HIDE DEF lines
<1>6. Len(lines) \in Nat /\ DOMAIN lines = 1 .. Len(lines) /\ \A i \in 1 .. Len(lines) : lines[i] \in Bodies
  BY <1>2, LenProperties, ElementOfSeq
<1>7. \A i \in 1 .. Len(lines) : a[i] \in LineRecords /\ a[i].body = lines[i]
                                 /\ (a[i].ended <=> i < Len(lines) \/ EndsInLF(t))
  <2> SUFFICES ASSUME NEW i \in 1 .. Len(lines)
               PROVE  a[i] \in LineRecords /\ a[i].body = lines[i] /\ (a[i].ended <=> i < Len(lines) \/ EndsInLF(t))
    OBVIOUS
  <2> DEFINE e == i < Len(lines) \/ EndsInLF(t)
  <2>1. a[i] = [body |-> lines[i], ended |-> e]
    BY <1>6
  <2>2. e \in BOOLEAN /\ lines[i] \in Bodies
    BY <1>3, <1>6
  <2>3. (i < Len(lines) \/ EndsInLF(t)) <=> e
    OBVIOUS
  <2> HIDE DEF a, e
  <2>4. a[i] \in LineRecords /\ a[i].body = lines[i] /\ a[i].ended = e
    BY <2>1, <2>2 DEF LineRecords
  <2> QED BY <2>3, <2>4
<1>8. DOMAIN a = 1 .. Len(lines)
  BY <1>6
<1> HIDE DEF a
<1>9. a \in Seq(LineRecords) /\ Len(a) = Len(lines)
  <2>1. a = [i \in 1 .. Len(lines) |-> a[i]]
    BY <1>6 DEF a
  <2>2. a \in [1 .. Len(lines) -> LineRecords]
    BY <1>7, <2>1
  <2> QED BY <1>6, <1>8, <2>2
<1>10. BodiesOf(a) = lines
  <2>1. /\ BodiesOf(a) \in Seq(Bodies) /\ Len(BodiesOf(a)) = Len(a)
        /\ \A i \in 1 .. Len(a) : BodiesOf(a)[i] = a[i].body
    BY <1>9, BodiesAre
  <2>2. \A i \in 1 .. Len(BodiesOf(a)) : BodiesOf(a)[i] = lines[i]
    BY <1>7, <1>9, <2>1
  <2> QED BY <1>2, <1>9, <2>1, <2>2, SeqEqual
<1>11. a # <<>> <=> lines # <<>>
  BY <1>2, <1>9, EmptySeq
<1> QED BY <1>1, <1>4, <1>5, <1>7, <1>9, <1>10, <1>11 DEF EndOf

\* The smaller of two numbers.
LEMMA MinOfTwo ==
    ASSUME NEW m \in Nat, NEW n \in Nat
    PROVE  /\ Min({m, n}) \in Nat /\ Min({m, n}) <= m /\ Min({m, n}) <= n
           /\ (Min({m, n}) = m \/ Min({m, n}) = n)
<1> DEFINE x == Min({m, n})
<1>1. \E i \in {m, n} : \A j \in {m, n} : i <= j
  <2>1. CASE m <= n
    BY <2>1
  <2>2. CASE ~(m <= n)
    <3>1. n <= m /\ n <= n
      BY <2>2
    <3> QED BY <3>1
  <2> QED BY <2>1, <2>2
<1>2. x \in {m, n} /\ \A j \in {m, n} : x <= j
  BY <1>1 DEF Min
<1> HIDE DEF x
<1>3. x <= m /\ x <= n /\ x \in Nat /\ (x = m \/ x = n)
  BY <1>2
<1> QED BY <1>3 DEF x

\* The greatest number of a bounded set is in it.
LEMMA MaxIsIn ==
    ASSUME NEW S \in SUBSET Nat, S # {}, NEW n \in Nat, \A i \in S : i <= n
    PROVE  Max(S) \in S
<1>1. PICK i \in S : \A j \in S : j <= i
  BY GreatestNumber
<1>2. \E k \in S : \A j \in S : k >= j
  BY <1>1
<1> QED BY <1>2 DEF Max

\* The lines two texts have in common at both ends.
LEMMA HeadsAre ==
    ASSUME NEW a \in Seq(LineRecords), NEW b \in Seq(LineRecords)
    PROVE  /\ CommonHead(a, b) \in Nat
           /\ CommonHead(a, b) <= Len(a) /\ CommonHead(a, b) <= Len(b)
           /\ \A i \in 1 .. CommonHead(a, b) : a[i] = b[i]
<1> DEFINE least == Min({Len(a), Len(b)})
           S == {n \in 0 .. least : \A i \in 1 .. n : a[i] = b[i]}
<1>1. Len(a) \in Nat /\ Len(b) \in Nat
  BY LenProperties
<1>2. least \in Nat /\ least <= Len(a) /\ least <= Len(b)
  BY <1>1, MinOfTwo
<1> HIDE DEF least
<1>3. 0 \in S /\ S \in SUBSET Nat /\ \A i \in S : i <= least
  BY <1>2
<1>4. Max(S) \in S
  <2> HIDE DEF S
  <2> QED BY <1>2, <1>3, MaxIsIn
<1>5. Max(S) \in 0 .. least /\ \A i \in 1 .. Max(S) : a[i] = b[i]
  BY <1>4
<1>6. CommonHead(a, b) = Max(S)
  BY DEF CommonHead, least
<1> HIDE DEF S
<1> QED BY <1>1, <1>2, <1>5, <1>6

\* The lines two texts have in common at the end, behind those at the beginning.
LEMMA TailsAre ==
    ASSUME NEW a \in Seq(LineRecords), NEW b \in Seq(LineRecords), NEW head \in Nat,
           head <= Len(a), head <= Len(b)
    PROVE  /\ CommonTail(a, b, head) \in Nat
           /\ head + CommonTail(a, b, head) <= Len(a) /\ head + CommonTail(a, b, head) <= Len(b)
           /\ \A i \in 1 .. CommonTail(a, b, head) :
                  a[Len(a) - CommonTail(a, b, head) + i] = b[Len(b) - CommonTail(a, b, head) + i]
<1> DEFINE least == Min({Len(a), Len(b)})
           S == {n \in 0 .. (least - head) : \A i \in 1 .. n : a[Len(a) - n + i] = b[Len(b) - n + i]}
<1>1. Len(a) \in Nat /\ Len(b) \in Nat
  BY LenProperties
<1>2. least \in Nat /\ least <= Len(a) /\ least <= Len(b) /\ least - head \in Nat
  BY <1>1, MinOfTwo
<1> HIDE DEF least
<1>3. 0 \in S /\ S \in SUBSET Nat /\ \A i \in S : i <= least - head
  BY <1>2
<1>4. Max(S) \in S
  <2> HIDE DEF S
  <2> QED BY <1>2, <1>3, MaxIsIn
<1>5. Max(S) \in 0 .. (least - head) /\ \A i \in 1 .. Max(S) : a[Len(a) - Max(S) + i] = b[Len(b) - Max(S) + i]
  BY <1>4
<1>6. CommonTail(a, b, head) = Max(S)
  BY DEF CommonTail, least
<1> HIDE DEF S
<1> QED BY <1>1, <1>2, <1>5, <1>6

-----------------------------------------------------------------------------
(* The hunk of a diff.                                                     *)

\* The lines of a hunk with their tags.
ItemRecords == [tag : {"=", "-", "+"}, line : LineRecords]
OnOld(item) == item.tag \in {"=", "-"}
OnNew(item) == item.tag \in {"=", "+"}

\* Lines with a tag, by their places.
LEMMA TaggedIs ==
    ASSUME NEW tag \in {"=", "-", "+"}, NEW lines \in Seq(LineRecords)
    PROVE  /\ Tagged(tag, lines) \in Seq(ItemRecords) /\ Len(Tagged(tag, lines)) = Len(lines)
           /\ \A i \in 1 .. Len(lines) : Tagged(tag, lines)[i].tag = tag /\ Tagged(tag, lines)[i].line = lines[i]
<1> DEFINE g == Tagged(tag, lines)
<1>1. Len(lines) \in Nat /\ DOMAIN lines = 1 .. Len(lines) /\ \A i \in 1 .. Len(lines) : lines[i] \in LineRecords
  BY LenProperties, ElementOfSeq
<1>2. g = [i \in 1 .. Len(lines) |-> [tag |-> tag, line |-> lines[i]]]
  BY <1>1 DEF Tagged
<1> HIDE DEF g
<1>3. \A i \in 1 .. Len(lines) : g[i] = [tag |-> tag, line |-> lines[i]]
  BY <1>2
<1>4. \A i \in 1 .. Len(lines) : g[i] \in ItemRecords /\ g[i].tag = tag /\ g[i].line = lines[i]
  <2> SUFFICES ASSUME NEW i \in 1 .. Len(lines)
               PROVE  g[i] \in ItemRecords /\ g[i].tag = tag /\ g[i].line = lines[i]
    OBVIOUS
  <2> DEFINE l == lines[i]
  <2>1. g[i] = [tag |-> tag, line |-> l] /\ l \in LineRecords
    BY <1>1, <1>3
  <2> HIDE DEF l
  <2>2. g[i] \in ItemRecords /\ g[i].tag = tag /\ g[i].line = l
    BY <2>1 DEF ItemRecords
  <2> QED BY <2>2 DEF l
<1>5. g \in [1 .. Len(lines) -> ItemRecords]
  BY <1>2, <1>4
<1>6. g \in Seq(ItemRecords) /\ Len(g) = Len(lines)
  BY <1>1, <1>5
<1> QED BY <1>4, <1>6 DEF g

\* A part of a list, by its elements.
LEMMA PartIs ==
    ASSUME NEW W, NEW t \in Seq(W), NEW i \in Nat \ {0}, NEW j \in Int, i - 1 <= j, j <= Len(t)
    PROVE  /\ SubSeq(t, i, j) \in Seq(W) /\ Len(SubSeq(t, i, j)) = j - i + 1
           /\ \A k \in 1 .. (j - i + 1) : SubSeq(t, i, j)[k] = t[i + k - 1]
<1>1. Len(t) \in Nat /\ \A k \in 1 .. Len(t) : t[k] \in W
  BY LenProperties, ElementOfSeq
<1>2. \A k \in i .. j : t[k] \in W
  BY <1>1
<1>3. i \in Int /\ j \in Int /\ (IF i <= j THEN j - i + 1 ELSE 0) = j - i + 1
  OBVIOUS
<1>4. /\ SubSeq(t, i, j) \in Seq(W) /\ Len(SubSeq(t, i, j)) = IF i <= j THEN j - i + 1 ELSE 0
      /\ \A k \in 1 .. j - i + 1 : SubSeq(t, i, j)[k] = t[i + k - 1]
  BY <1>2, <1>3, SubSeqProperties
<1> QED BY <1>3, <1>4

\* Four lists one after the other.
FourAre(g, q, r, u, v) ==
    /\ Len(g) = Len(q) + Len(r) + Len(u) + Len(v)
    /\ \A k \in 1 .. Len(q) : g[k] = q[k]
    /\ \A k \in 1 .. Len(r) : g[Len(q) + k] = r[k]
    /\ \A k \in 1 .. Len(u) : g[Len(q) + Len(r) + k] = u[k]
    /\ \A k \in 1 .. Len(v) : g[Len(q) + Len(r) + Len(u) + k] = v[k]

\* Four lists joined are their elements one after the other.
LEMMA FourJoined ==
    ASSUME NEW W, NEW q \in Seq(W), NEW r \in Seq(W), NEW u \in Seq(W), NEW v \in Seq(W)
    PROVE  q \o r \o u \o v \in Seq(W) /\ FourAre(q \o r \o u \o v, q, r, u, v)
<1> DEFINE x == q \o r
           y == x \o u
           z == y \o v
<1>0. Len(q) \in Nat /\ Len(r) \in Nat /\ Len(u) \in Nat /\ Len(v) \in Nat
  BY LenProperties
<1>1. /\ x \in Seq(W) /\ Len(x) = Len(q) + Len(r)
      /\ \A k \in 1 .. Len(q) + Len(r) : x[k] = IF k <= Len(q) THEN q[k] ELSE r[k - Len(q)]
  BY ConcatProperties
<1> HIDE DEF x
<1>2. /\ y \in Seq(W) /\ Len(y) = Len(x) + Len(u)
      /\ \A k \in 1 .. Len(x) + Len(u) : y[k] = IF k <= Len(x) THEN x[k] ELSE u[k - Len(x)]
  BY <1>1, ConcatProperties
<1> HIDE DEF y
<1>3. /\ z \in Seq(W) /\ Len(z) = Len(y) + Len(v)
      /\ \A k \in 1 .. Len(y) + Len(v) : z[k] = IF k <= Len(y) THEN y[k] ELSE v[k - Len(y)]
  <2>1. y \in Seq(W)
    BY <1>2
  <2> QED BY <2>1, ConcatProperties
<1> HIDE DEF z
<1>4. \A k \in 1 .. Len(q) : z[k] = q[k]
  BY <1>0, <1>1, <1>2, <1>3
<1>5. \A k \in 1 .. Len(r) : z[Len(q) + k] = r[k]
  BY <1>0, <1>1, <1>2, <1>3
<1>6. \A k \in 1 .. Len(u) : z[Len(q) + Len(r) + k] = u[k]
  BY <1>0, <1>1, <1>2, <1>3
<1>7. \A k \in 1 .. Len(v) : z[Len(q) + Len(r) + Len(u) + k] = v[k]
  <2>1. Len(y) = Len(q) + Len(r) + Len(u) /\ Len(y) \in Nat
    BY <1>0, <1>1, <1>2
  <2>2. \A k \in 1 .. Len(v) : /\ Len(y) + k \in 1 .. Len(y) + Len(v) /\ ~(Len(y) + k <= Len(y))
                               /\ (Len(y) + k) - Len(y) = k
    BY <1>0, <2>1
  <2>3. \A k \in 1 .. Len(v) : z[Len(y) + k] = v[k]
    BY <1>3, <2>2
  <2> QED BY <2>1, <2>3
<1>8. Len(z) = Len(q) + Len(r) + Len(u) + Len(v)
  BY <1>1, <1>2, <1>3
<1>9. z \in Seq(W) /\ FourAre(z, q, r, u, v)
  BY <1>3, <1>4, <1>5, <1>6, <1>7, <1>8 DEF FourAre
<1> QED BY <1>9 DEF z, y, x

\* What a hunk is to the lines of the two texts: it begins after s lines both have, old[k]
\* and new[k] of its first k lines are of the one and of the other, in their order, and
\* what follows is the same in both.
Counts(items, old, new) ==
    /\ old \in [0 .. Len(items) -> Nat] /\ new \in [0 .. Len(items) -> Nat]
    /\ old[0] = 0 /\ new[0] = 0
    /\ \A k \in 1 .. Len(items) :
           /\ old[k] = old[k - 1] + (IF OnOld(items[k]) THEN 1 ELSE 0)
           /\ new[k] = new[k - 1] + (IF OnNew(items[k]) THEN 1 ELSE 0)
    /\ \A k \in 0 .. Len(items) : old[k] <= old[Len(items)] /\ new[k] <= new[Len(items)]

Sides(items, a, b, s, old, new) ==
    \A k \in 1 .. Len(items) :
        /\ OnOld(items[k]) => s + old[k] \in 1 .. Len(a) /\ items[k].line = a[s + old[k]]
        /\ OnNew(items[k]) => s + new[k] \in 1 .. Len(b) /\ items[k].line = b[s + new[k]]

Around(a, b, s, m, n) ==
    /\ s \in Nat /\ s <= Len(a) /\ s <= Len(b) /\ \A i \in 1 .. s : a[i] = b[i]
    /\ s + m <= Len(a) /\ s + n <= Len(b) /\ Len(a) - m = Len(b) - n
    /\ \A i \in 1 .. (Len(a) - s - m) : a[s + m + i] = b[s + n + i]

Reaches(items, a, b, s, old, new) ==
    s + old[Len(items)] = Len(a) /\ Len(b) > 0 =>
        \E k \in 1 .. Len(items) : OnNew(items[k]) /\ s + new[k] = Len(b)

Shape(items, a, b, s, old, new) ==
    /\ items \in Seq(ItemRecords)
    /\ Counts(items, old, new) /\ Sides(items, a, b, s, old, new)
    /\ Around(a, b, s, old[Len(items)], new[Len(items)]) /\ Reaches(items, a, b, s, old, new)

Header(s, old, new) == [tag |-> "@@", body |-> <<>>, start |-> s + 1, old |-> old, new |-> new]

\* The lines of the hunk by their places.
HunkParts(items, a, b, s, e, o, w, f) ==
    /\ items \in Seq(ItemRecords) /\ Len(items) = e + o + w + f
    /\ \A k \in 1 .. e : items[k].tag = "=" /\ items[k].line = a[s + k]
    /\ \A k \in 1 .. o : items[e + k].tag = "-" /\ items[e + k].line = a[s + e + k]
    /\ \A k \in 1 .. w : items[e + o + k].tag = "+" /\ items[e + o + k].line = b[s + e + k]
    /\ \A k \in 1 .. f : items[e + o + w + k].tag = "=" /\ items[e + o + w + k].line = a[s + e + o + k]

HunkPlace(a, b, s, e, o, w, f, t) ==
    /\ s \in Nat /\ e \in Nat /\ o \in Nat /\ w \in Nat /\ f \in Nat /\ t \in Nat
    /\ Len(a) = s + e + o + t /\ Len(b) = s + e + w + t
    /\ f <= t /\ (t > 0 => f = 1) /\ (t = 0 => f = 0) /\ (s + e > 0 => e = 1)
    /\ \A i \in 1 .. s + e : a[i] = b[i]
    /\ \A i \in 1 .. t : a[s + e + o + i] = b[s + e + w + i]

\* A diff is a header and the lines of a hunk that stands at its place.
LEMMA HunkIs ==
    ASSUME NEW a \in Seq(LineRecords), NEW b \in Seq(LineRecords)
    PROVE  \E items, s, e, o, w, f, t :
              /\ HunkPlace(a, b, s, e, o, w, f, t) /\ HunkParts(items, a, b, s, e, o, w, f)
              /\ HunkOf(a, b) = <<Header(s, e + o + f, e + w + f)>> \o WrittenOut(items)
<1> DEFINE head == CommonHead(a, b)
           t == CommonTail(a, b, head)
           e == Min({1, head})
           f == Min({1, t})
           A == Len(a)
           B == Len(b)
           befores == SubSeq(a, head - e + 1, head)
           olds == SubSeq(a, head + 1, A - t)
           news == SubSeq(b, head + 1, B - t)
           afters == SubSeq(a, A - t + 1, A - t + f)
           q == Tagged("=", befores)
           r == Tagged("-", olds)
           u == Tagged("+", news)
           v == Tagged("=", afters)
           items == q \o r \o u \o v
           s == head - e
           o == A - t - head
           w == B - t - head
<1>1. HunkOf(a, b) = <<[tag |-> "@@", body |-> <<>>, start |-> head - e + 1,
                        old |-> e + Len(olds) + f, new |-> e + Len(news) + f]>> \o WrittenOut(items)
  BY DEF HunkOf
<1>2. A \in Nat /\ B \in Nat
  BY LenProperties
<1>3. head \in Nat /\ head <= A /\ head <= B /\ \A i \in 1 .. head : a[i] = b[i]
  BY HeadsAre
<1> HIDE DEF head
<1>4. /\ t \in Nat /\ head + t <= A /\ head + t <= B
      /\ \A i \in 1 .. t : a[A - t + i] = b[B - t + i]
  BY <1>3, TailsAre
<1> HIDE DEF t
<1>5. e \in Nat /\ e <= 1 /\ e <= head /\ (head > 0 => e = 1)
  <2>1. e \in Nat /\ e <= 1 /\ e <= head /\ (e = 1 \/ e = head)
    <3>1. 1 \in Nat
      OBVIOUS
    <3> QED BY <1>3, <3>1, MinOfTwo
  <2> HIDE DEF e
  <2> QED BY <1>3, <2>1
<1>6. f \in Nat /\ f <= 1 /\ f <= t /\ (t > 0 => f = 1) /\ (t = 0 => f = 0)
  <2>1. f \in Nat /\ f <= 1 /\ f <= t /\ (f = 1 \/ f = t)
    <3>1. 1 \in Nat
      OBVIOUS
    <3> QED BY <1>4, <3>1, MinOfTwo
  <2> HIDE DEF f
  <2> QED BY <1>4, <2>1
<1> HIDE DEF e, f, A, B
<1>7. /\ s \in Nat /\ o \in Nat /\ w \in Nat /\ s + e = head /\ A = s + e + o + t /\ B = s + e + w + t
      /\ A - t = s + e + o /\ B - t = s + e + w
  BY <1>2, <1>3, <1>4, <1>5
<1>8. HunkPlace(a, b, s, e, o, w, f, t)
  <2>1. Len(a) = s + e + o + t /\ Len(b) = s + e + w + t
    BY <1>7 DEF A, B
  <2> HIDE DEF s, o, w
  <2>2. s + e > 0 => e = 1
    BY <1>5, <1>7
  <2>3. \A i \in 1 .. s + e : a[i] = b[i]
    BY <1>3, <1>7
  <2>4. \A i \in 1 .. t : a[s + e + o + i] = b[s + e + w + i]
    BY <1>4, <1>7
  <2> QED BY <1>4, <1>5, <1>6, <1>7, <2>1, <2>2, <2>3, <2>4 DEF HunkPlace
<1>9. /\ befores \in Seq(LineRecords) /\ Len(befores) = e /\ \A k \in 1 .. e : befores[k] = a[s + k]
  <2>1. /\ head - e + 1 \in Nat \ {0} /\ head \in Int /\ (head - e + 1) - 1 <= head /\ head <= Len(a)
        /\ head - (head - e + 1) + 1 = e /\ \A k \in 1 .. e : (head - e + 1) + k - 1 = s + k
    BY <1>2, <1>3, <1>5 DEF A
  <2> DEFINE i == head - e + 1
  <2>2. i \in Nat \ {0} /\ i - 1 <= head /\ head - i + 1 = e /\ \A k \in 1 .. e : i + k - 1 = s + k
    BY <2>1
  <2> HIDE DEF i, s
  <2>3. /\ SubSeq(a, i, head) \in Seq(LineRecords) /\ Len(SubSeq(a, i, head)) = head - i + 1
        /\ \A k \in 1 .. (head - i + 1) : SubSeq(a, i, head)[k] = a[i + k - 1]
    BY <2>1, <2>2, PartIs
  <2> QED BY <2>2, <2>3 DEF i
<1>10. /\ olds \in Seq(LineRecords) /\ Len(olds) = o /\ \A k \in 1 .. o : olds[k] = a[s + e + k]
  <2> DEFINE i == head + 1
             j == A - t
  <2>1. /\ i \in Nat \ {0} /\ j \in Int /\ i - 1 <= j /\ j <= Len(a)
        /\ j - i + 1 = o /\ \A k \in 1 .. o : i + k - 1 = s + e + k
    BY <1>2, <1>3, <1>4, <1>5 DEF A
  <2> HIDE DEF i, j, s, o
  <2>3. /\ SubSeq(a, i, j) \in Seq(LineRecords) /\ Len(SubSeq(a, i, j)) = j - i + 1
        /\ \A k \in 1 .. (j - i + 1) : SubSeq(a, i, j)[k] = a[i + k - 1]
    BY <2>1, PartIs
  <2> QED BY <2>1, <2>3 DEF i, j
<1>11. /\ news \in Seq(LineRecords) /\ Len(news) = w /\ \A k \in 1 .. w : news[k] = b[s + e + k]
  <2> DEFINE i == head + 1
             j == B - t
  <2>1. /\ i \in Nat \ {0} /\ j \in Int /\ i - 1 <= j /\ j <= Len(b)
        /\ j - i + 1 = w /\ \A k \in 1 .. w : i + k - 1 = s + e + k
    BY <1>2, <1>3, <1>4, <1>5 DEF B
  <2> HIDE DEF i, j, s, w
  <2>3. /\ SubSeq(b, i, j) \in Seq(LineRecords) /\ Len(SubSeq(b, i, j)) = j - i + 1
        /\ \A k \in 1 .. (j - i + 1) : SubSeq(b, i, j)[k] = b[i + k - 1]
    BY <2>1, PartIs
  <2> QED BY <2>1, <2>3 DEF i, j
<1>12. /\ afters \in Seq(LineRecords) /\ Len(afters) = f /\ \A k \in 1 .. f : afters[k] = a[s + e + o + k]
  <2> DEFINE i == A - t + 1
             j == A - t + f
  <2>1. /\ i \in Nat \ {0} /\ j \in Int /\ i - 1 <= j /\ j <= Len(a)
        /\ j - i + 1 = f /\ \A k \in 1 .. f : i + k - 1 = s + e + o + k
    BY <1>2, <1>3, <1>4, <1>5, <1>6 DEF A
  <2> HIDE DEF i, j, s, o
  <2>3. /\ SubSeq(a, i, j) \in Seq(LineRecords) /\ Len(SubSeq(a, i, j)) = j - i + 1
        /\ \A k \in 1 .. (j - i + 1) : SubSeq(a, i, j)[k] = a[i + k - 1]
    BY <2>1, PartIs
  <2> QED BY <2>1, <2>3 DEF i, j
<1> HIDE DEF befores, olds, news, afters
<1>13. /\ q \in Seq(ItemRecords) /\ Len(q) = e /\ \A k \in 1 .. e : q[k].tag = "=" /\ q[k].line = a[s + k]
  <2>1. /\ q \in Seq(ItemRecords) /\ Len(q) = Len(befores)
        /\ \A i \in 1 .. Len(befores) : q[i].tag = "=" /\ q[i].line = befores[i]
    <3>1. "=" \in {"=", "-", "+"}
      OBVIOUS
    <3>2. befores \in Seq(LineRecords)
      BY <1>9
    <3> QED BY <3>1, <3>2, TaggedIs
  <2> HIDE DEF q, s
  <2> QED BY <1>9, <2>1
<1>14. /\ r \in Seq(ItemRecords) /\ Len(r) = o /\ \A k \in 1 .. o : r[k].tag = "-" /\ r[k].line = a[s + e + k]
  <2>1. /\ r \in Seq(ItemRecords) /\ Len(r) = Len(olds)
        /\ \A i \in 1 .. Len(olds) : r[i].tag = "-" /\ r[i].line = olds[i]
    BY <1>10, TaggedIs
  <2> HIDE DEF r, s, o
  <2> QED BY <1>10, <2>1
<1>15. /\ u \in Seq(ItemRecords) /\ Len(u) = w /\ \A k \in 1 .. w : u[k].tag = "+" /\ u[k].line = b[s + e + k]
  <2>1. /\ u \in Seq(ItemRecords) /\ Len(u) = Len(news)
        /\ \A i \in 1 .. Len(news) : u[i].tag = "+" /\ u[i].line = news[i]
    BY <1>11, TaggedIs
  <2> HIDE DEF u, s, w
  <2> QED BY <1>11, <2>1
<1>16. /\ v \in Seq(ItemRecords) /\ Len(v) = f /\ \A k \in 1 .. f : v[k].tag = "=" /\ v[k].line = a[s + e + o + k]
  <2>1. /\ v \in Seq(ItemRecords) /\ Len(v) = Len(afters)
        /\ \A i \in 1 .. Len(afters) : v[i].tag = "=" /\ v[i].line = afters[i]
    BY <1>12, TaggedIs
  <2> HIDE DEF v, s, o
  <2> QED BY <1>12, <2>1
<1> HIDE DEF q, r, u, v, s, o, w
<1>17. items \in Seq(ItemRecords) /\ FourAre(items, q, r, u, v)
  BY <1>13, <1>14, <1>15, <1>16, FourJoined
<1> HIDE DEF items
<1>18. HunkParts(items, a, b, s, e, o, w, f)
  <2>1. items \in Seq(ItemRecords) /\ Len(items) = e + o + w + f
    BY <1>13, <1>14, <1>15, <1>16, <1>17 DEF FourAre
  <2>2. \A k \in 1 .. e : items[k] = q[k]
    BY <1>13, <1>17 DEF FourAre
  <2>3. \A k \in 1 .. o : items[e + k] = r[k]
    BY <1>13, <1>14, <1>17 DEF FourAre
  <2>4. \A k \in 1 .. w : items[e + o + k] = u[k]
    BY <1>13, <1>14, <1>15, <1>17 DEF FourAre
  <2>5. \A k \in 1 .. f : items[e + o + w + k] = v[k]
    BY <1>13, <1>14, <1>15, <1>16, <1>17 DEF FourAre
  <2>6. \A k \in 1 .. e : items[k].tag = "=" /\ items[k].line = a[s + k]
    BY <1>13, <2>2
  <2>7. \A k \in 1 .. o : items[e + k].tag = "-" /\ items[e + k].line = a[s + e + k]
    BY <1>14, <2>3
  <2>8. \A k \in 1 .. w : items[e + o + k].tag = "+" /\ items[e + o + k].line = b[s + e + k]
    BY <1>15, <2>4
  <2>9. \A k \in 1 .. f : items[e + o + w + k].tag = "=" /\ items[e + o + w + k].line = a[s + e + o + k]
    BY <1>16, <2>5
  <2> QED BY <2>1, <2>6, <2>7, <2>8, <2>9 DEF HunkParts
<1>19. HunkOf(a, b) = <<Header(s, e + o + f, e + w + f)>> \o WrittenOut(items)
  <2>1. head - e + 1 = s + 1
    BY DEF s
  <2> QED BY <1>1, <1>10, <1>11, <2>1 DEF Header
<1> QED BY <1>8, <1>18, <1>19

\* Such a hunk has the shape: the counts of its lines are their places in the two texts.
LEMMA ShapeIs ==
    ASSUME NEW a \in Seq(LineRecords), NEW b \in Seq(LineRecords), NEW items,
           NEW s, NEW e, NEW o, NEW w, NEW f, NEW t,
           HunkPlace(a, b, s, e, o, w, f, t), HunkParts(items, a, b, s, e, o, w, f)
    PROVE  \E old, new : /\ Shape(items, a, b, s, old, new)
                         /\ old[Len(items)] = e + o + f /\ new[Len(items)] = e + w + f
<1> DEFINE p == e + o + w + f
           old == [k \in 0 .. p |-> IF k <= e + o THEN k ELSE IF k <= e + o + w THEN e + o ELSE k - w]
           new == [k \in 0 .. p |-> IF k <= e THEN k ELSE IF k <= e + o THEN e ELSE k - o]
<1>1. /\ s \in Nat /\ e \in Nat /\ o \in Nat /\ w \in Nat /\ f \in Nat /\ t \in Nat
      /\ Len(a) = s + e + o + t /\ Len(b) = s + e + w + t
      /\ f <= t /\ (t > 0 => f = 1) /\ (t = 0 => f = 0) /\ (s + e > 0 => e = 1)
      /\ \A i \in 1 .. s + e : a[i] = b[i]
      /\ \A i \in 1 .. t : a[s + e + o + i] = b[s + e + w + i]
  BY DEF HunkPlace
<1>2. /\ items \in Seq(ItemRecords) /\ Len(items) = p
      /\ \A k \in 1 .. e : items[k].tag = "=" /\ items[k].line = a[s + k]
      /\ \A k \in 1 .. o : items[e + k].tag = "-" /\ items[e + k].line = a[s + e + k]
      /\ \A k \in 1 .. w : items[e + o + k].tag = "+" /\ items[e + o + k].line = b[s + e + k]
      /\ \A k \in 1 .. f : items[e + o + w + k].tag = "=" /\ items[e + o + w + k].line = a[s + e + o + k]
  BY DEF HunkParts
<1>0. s \in Nat /\ e \in Nat /\ o \in Nat /\ w \in Nat /\ f \in Nat /\ t \in Nat
  BY <1>1
<1>3. p \in Nat /\ e <= e + o /\ e + o <= e + o + w /\ e + o + w <= p /\ p = e + o + w + f
  BY <1>0
<1>4. \A k \in 0 .. p : /\ old[k] = IF k <= e + o THEN k ELSE IF k <= e + o + w THEN e + o ELSE k - w
                        /\ new[k] = IF k <= e THEN k ELSE IF k <= e + o THEN e ELSE k - o
  OBVIOUS
<1>5. old \in [0 .. p -> Nat] /\ new \in [0 .. p -> Nat]
  <2>1. \A k \in 0 .. p : old[k] \in Nat
    BY <1>1, <1>4
  <2>2. \A k \in 0 .. p : new[k] \in Nat
    BY <1>1, <1>4
  <2> QED BY <2>1, <2>2
<1>6. old[0] = 0 /\ new[0] = 0 /\ old[p] = e + o + f /\ new[p] = e + w + f
  <2>1. 0 \in 0 .. p /\ p \in 0 .. p
    BY <1>3
  <2>2. old[0] = 0 /\ new[0] = 0
    BY <1>1, <1>4, <2>1
  <2> DEFINE q == p
  <2>3. q \in Nat /\ q = e + o + w + f
    BY <1>3
  <2>4. /\ (IF q <= e + o THEN q ELSE IF q <= e + o + w THEN e + o ELSE q - w) = e + o + f
        /\ (IF q <= e THEN q ELSE IF q <= e + o THEN e ELSE q - o) = e + w + f
    <3> HIDE DEF q
    <3> QED BY <1>1, <2>3
  <2> HIDE DEF old, new
  <2> QED BY <1>4, <2>1, <2>2, <2>4
<1> HIDE DEF old, new, p
<1>7. \A k \in 1 .. p : \/ k \in 1 .. e
                        \/ k - e \in 1 .. o /\ k = e + (k - e)
                        \/ k - e - o \in 1 .. w /\ k = e + o + (k - e - o)
                        \/ k - e - o - w \in 1 .. f /\ k = e + o + w + (k - e - o - w)
  BY <1>1 DEF p
<1>8. \A k \in 1 .. e : /\ items[k].tag = "=" /\ items[k].line = a[s + k] /\ s + k \in 1 .. Len(a) /\ s + k \in 1 .. Len(b)
                        /\ a[s + k] = b[s + k]
                        /\ old[k] = k /\ new[k] = k /\ old[k - 1] = k - 1 /\ new[k - 1] = k - 1
  <2> SUFFICES ASSUME NEW k \in 1 .. e
               PROVE  /\ items[k].tag = "=" /\ items[k].line = a[s + k] /\ s + k \in 1 .. Len(a) /\ s + k \in 1 .. Len(b)
                      /\ a[s + k] = b[s + k]
                      /\ old[k] = k /\ new[k] = k /\ old[k - 1] = k - 1 /\ new[k - 1] = k - 1
    OBVIOUS
  <2>1. k \in 0 .. p /\ k - 1 \in 0 .. p /\ k <= e /\ k - 1 <= e /\ k <= e + o /\ k - 1 <= e + o
    BY <1>1, <1>3
  <2>2. s + k \in 1 .. s + e /\ s + k \in 1 .. Len(a) /\ s + k \in 1 .. Len(b)
    BY <1>1
  <2> QED BY <1>1, <1>2, <1>4, <2>1, <2>2
<1>9. \A k \in 1 .. o : /\ items[e + k].tag = "-" /\ items[e + k].line = a[s + (e + k)] /\ s + (e + k) \in 1 .. Len(a)
                        /\ old[e + k] = e + k /\ new[e + k] = e /\ old[(e + k) - 1] = (e + k) - 1 /\ new[(e + k) - 1] = e
  <2> SUFFICES ASSUME NEW k \in 1 .. o
               PROVE  /\ items[e + k].tag = "-" /\ items[e + k].line = a[s + (e + k)] /\ s + (e + k) \in 1 .. Len(a)
                      /\ old[e + k] = e + k /\ new[e + k] = e /\ old[(e + k) - 1] = (e + k) - 1 /\ new[(e + k) - 1] = e
    OBVIOUS
  <2>1. /\ e + k \in 0 .. p /\ (e + k) - 1 \in 0 .. p /\ e + k <= e + o /\ (e + k) - 1 <= e + o /\ ~(e + k <= e)
        /\ ((e + k) - 1 <= e => (e + k) - 1 = e)
    BY <1>1, <1>3
  <2>2. s + (e + k) \in 1 .. Len(a) /\ s + (e + k) = s + e + k
    BY <1>1
  <2> QED BY <1>2, <1>4, <2>1, <2>2
<1>10. \A k \in 1 .. w : /\ items[e + o + k].tag = "+" /\ items[e + o + k].line = b[s + (e + k)] /\ s + (e + k) \in 1 .. Len(b)
                         /\ old[e + o + k] = e + o /\ new[e + o + k] = e + k
                         /\ old[(e + o + k) - 1] = e + o /\ new[(e + o + k) - 1] = (e + k) - 1
  <2> SUFFICES ASSUME NEW k \in 1 .. w
               PROVE  /\ items[e + o + k].tag = "+" /\ items[e + o + k].line = b[s + (e + k)] /\ s + (e + k) \in 1 .. Len(b)
                      /\ old[e + o + k] = e + o /\ new[e + o + k] = e + k
                      /\ old[(e + o + k) - 1] = e + o /\ new[(e + o + k) - 1] = (e + k) - 1
    OBVIOUS
  <2>1. /\ e + o + k \in 0 .. p /\ (e + o + k) - 1 \in 0 .. p /\ e + o + k <= e + o + w /\ (e + o + k) - 1 <= e + o + w
        /\ ~(e + o + k <= e + o) /\ ~(e + o + k <= e) /\ ((e + o + k) - 1 <= e + o => (e + o + k) - 1 = e + o)
    BY <1>1, <1>3
  <2>2. s + (e + k) \in 1 .. Len(b) /\ s + (e + k) = s + e + k
    BY <1>1
  <2>3. items[e + o + k].tag = "+" /\ items[e + o + k].line = b[s + (e + k)]
    BY <1>2, <2>2
  <2>4. old[e + o + k] = e + o /\ new[e + o + k] = e + k
    BY <1>1, <1>4, <2>1
  <2>5. old[(e + o + k) - 1] = e + o
    BY <1>1, <1>4, <2>1
  <2>6. new[(e + o + k) - 1] = (e + k) - 1
    BY <1>1, <1>4, <2>1
  <2> QED BY <2>2, <2>3, <2>4, <2>5, <2>6
<1>11. \A k \in 1 .. f : /\ items[e + o + w + k].tag = "=" /\ items[e + o + w + k].line = a[s + (e + o + k)]
                         /\ s + (e + o + k) \in 1 .. Len(a) /\ s + (e + w + k) \in 1 .. Len(b)
                         /\ a[s + (e + o + k)] = b[s + (e + w + k)]
                         /\ old[e + o + w + k] = e + o + k /\ new[e + o + w + k] = e + w + k
                         /\ old[(e + o + w + k) - 1] = (e + o + k) - 1 /\ new[(e + o + w + k) - 1] = (e + w + k) - 1
  <2> SUFFICES ASSUME NEW k \in 1 .. f
               PROVE  /\ items[e + o + w + k].tag = "=" /\ items[e + o + w + k].line = a[s + (e + o + k)]
                      /\ s + (e + o + k) \in 1 .. Len(a) /\ s + (e + w + k) \in 1 .. Len(b)
                      /\ a[s + (e + o + k)] = b[s + (e + w + k)]
                      /\ old[e + o + w + k] = e + o + k /\ new[e + o + w + k] = e + w + k
                      /\ old[(e + o + w + k) - 1] = (e + o + k) - 1 /\ new[(e + o + w + k) - 1] = (e + w + k) - 1
    OBVIOUS
  <2>1. /\ e + o + w + k \in 0 .. p /\ (e + o + w + k) - 1 \in 0 .. p
        /\ ~(e + o + w + k <= e + o + w) /\ ~(e + o + w + k <= e + o) /\ ~(e + o + w + k <= e)
        /\ ((e + o + w + k) - 1 <= e + o + w => (e + o + w + k) - 1 = e + o + w)
    BY <1>0, <1>3
  <2>2. /\ s + (e + o + k) \in 1 .. Len(a) /\ s + (e + w + k) \in 1 .. Len(b) /\ k \in 1 .. t
        /\ s + (e + o + k) = s + e + o + k /\ s + (e + w + k) = s + e + w + k
    BY <1>1
  <2>3. items[e + o + w + k].tag = "=" /\ items[e + o + w + k].line = a[s + (e + o + k)]
    BY <1>2, <2>2
  <2>4. a[s + (e + o + k)] = b[s + (e + w + k)]
    BY <1>1, <2>2
  <2>5. old[e + o + w + k] = e + o + k /\ new[e + o + w + k] = e + w + k
    BY <1>1, <1>4, <2>1
  <2> DEFINE m == (e + o + w + k) - 1
  <2>8. /\ m \in 0 .. p /\ m \in Int /\ k \in Int /\ m = e + o + w + k - 1
        /\ (m <= e + o + w => m = e + o + w) /\ m >= e + o + w
    BY <1>0, <2>1
  <2> HIDE DEF m
  <2>6. old[m] = (e + o + k) - 1
    <3>1. CASE m = e + o + w /\ m <= e + o
      BY <1>0, <1>4, <2>8, <3>1
    <3>2. CASE m = e + o + w /\ ~(m <= e + o)
      BY <1>0, <1>4, <2>8, <3>2
    <3>3. CASE m > e + o + w
      <4>1. ~(m <= e + o + w) /\ ~(m <= e + o)
        BY <1>0, <2>8, <3>3
      <4> QED BY <1>0, <1>4, <2>8, <4>1
    <3> QED BY <1>0, <2>8, <3>1, <3>2, <3>3
  <2>7. new[m] = (e + w + k) - 1
    <3>1. CASE m <= e
      BY <1>0, <1>4, <2>8, <3>1
    <3>2. CASE ~(m <= e) /\ m <= e + o
      BY <1>0, <1>4, <2>8, <3>2
    <3>3. CASE ~(m <= e) /\ ~(m <= e + o)
      BY <1>0, <1>4, <2>8, <3>3
    <3> QED BY <3>1, <3>2, <3>3
  <2> QED BY <2>2, <2>3, <2>4, <2>5, <2>6, <2>7 DEF m
<1>12. Counts(items, old, new)
  <2>1. \A k \in 0 .. p : old[k] <= old[p]
    <3>1. old[p] = e + o + f
      BY <1>6
    <3>2. \A k \in 0 .. p : old[k] <= e + o + f
      BY <1>0, <1>3, <1>4
    <3> QED BY <3>1, <3>2
  <2>2. \A k \in 0 .. p : new[k] <= new[p]
    <3>1. new[p] = e + w + f
      BY <1>6
    <3>2. \A k \in 0 .. p : new[k] <= e + w + f
      BY <1>0, <1>3, <1>4
    <3> QED BY <3>1, <3>2
  <2>3. ASSUME NEW k \in 1 .. p
        PROVE  /\ old[k] = old[k - 1] + (IF OnOld(items[k]) THEN 1 ELSE 0)
               /\ new[k] = new[k - 1] + (IF OnNew(items[k]) THEN 1 ELSE 0)
    <3>1. CASE k \in 1 .. e
      <4>1. OnOld(items[k]) /\ OnNew(items[k])
        BY <1>8, <3>1 DEF OnOld, OnNew
      <4>2. old[k] = k /\ new[k] = k /\ old[k - 1] = k - 1 /\ new[k - 1] = k - 1
        BY <1>8, <3>1
      <4> QED BY <4>1, <4>2
    <3>2. CASE k - e \in 1 .. o /\ k = e + (k - e)
      <4>1. OnOld(items[k]) /\ ~OnNew(items[k])
        BY <1>9, <3>2 DEF OnOld, OnNew
      <4>2. old[k] = k /\ new[k] = e /\ old[k - 1] = k - 1 /\ new[k - 1] = e
        BY <1>9, <3>2
      <4> QED BY <1>1, <4>1, <4>2
    <3>3. CASE k - e - o \in 1 .. w /\ k = e + o + (k - e - o)
      <4>1. ~OnOld(items[k]) /\ OnNew(items[k])
        BY <1>10, <3>3 DEF OnOld, OnNew
      <4> DEFINE l == k - e - o
      <4>2. old[k] = e + o /\ new[k] = e + l /\ old[k - 1] = e + o /\ new[k - 1] = (e + l) - 1
        BY <1>10, <3>3
      <4>3. l \in Int
        BY <1>1
      <4> HIDE DEF l
      <4> QED BY <1>1, <4>1, <4>2, <4>3
    <3>4. CASE k - e - o - w \in 1 .. f /\ k = e + o + w + (k - e - o - w)
      <4>1. OnOld(items[k]) /\ OnNew(items[k])
        BY <1>11, <3>4 DEF OnOld, OnNew
      <4> DEFINE l == k - e - o - w
      <4>2. old[k] = e + o + l /\ new[k] = e + w + l /\ old[k - 1] = (e + o + l) - 1 /\ new[k - 1] = (e + w + l) - 1
        BY <1>11, <3>4
      <4>3. l \in Int
        BY <1>1
      <4> HIDE DEF l
      <4> QED BY <1>1, <4>1, <4>2, <4>3
    <3> QED BY <1>7, <3>1, <3>2, <3>3, <3>4
  <2> QED BY <1>2, <1>5, <1>6, <2>1, <2>2, <2>3 DEF Counts
<1>13. Sides(items, a, b, s, old, new)
  <2> SUFFICES ASSUME NEW k \in 1 .. p
               PROVE  /\ OnOld(items[k]) => s + old[k] \in 1 .. Len(a) /\ items[k].line = a[s + old[k]]
                      /\ OnNew(items[k]) => s + new[k] \in 1 .. Len(b) /\ items[k].line = b[s + new[k]]
    BY <1>2 DEF Sides
  <2>1. CASE k \in 1 .. e
    BY <1>8, <2>1
  <2>2. CASE k - e \in 1 .. o /\ k = e + (k - e)
    <3>1. ~OnNew(items[k])
      BY <1>9, <2>2 DEF OnNew
    <3> QED BY <1>9, <2>2, <3>1
  <2>3. CASE k - e - o \in 1 .. w /\ k = e + o + (k - e - o)
    <3>1. ~OnOld(items[k])
      BY <1>10, <2>3 DEF OnOld
    <3> QED BY <1>10, <2>3, <3>1
  <2>4. CASE k - e - o - w \in 1 .. f /\ k = e + o + w + (k - e - o - w)
    BY <1>11, <2>4
  <2> QED BY <1>7, <2>1, <2>2, <2>3, <2>4
<1>14. Around(a, b, s, old[p], new[p])
  <2>1. s \in Nat /\ s <= Len(a) /\ s <= Len(b) /\ s \in 0 .. s + e
    BY <1>1
  <2>2. \A i \in 1 .. s : a[i] = b[i]
    <3>1. \A i \in 1 .. s : i \in 1 .. s + e
      BY <1>1
    <3> QED BY <1>1, <3>1
  <2>3. /\ s + (e + o + f) <= Len(a) /\ s + (e + w + f) <= Len(b) /\ Len(a) - (e + o + f) = Len(b) - (e + w + f)
        /\ Len(a) - s - (e + o + f) = t - f
    BY <1>1
  <2>4. ASSUME NEW i \in 1 .. (t - f)
        PROVE  a[s + (e + o + f) + i] = b[s + (e + w + f) + i]
    <3>1. /\ f + i \in 1 .. t /\ s + e + o + (f + i) = s + (e + o + f) + i
          /\ s + e + w + (f + i) = s + (e + w + f) + i
      BY <1>1
    <3>2. a[s + e + o + (f + i)] = b[s + e + w + (f + i)]
      BY <1>1, <3>1
    <3> QED BY <3>1, <3>2
  <2> QED BY <1>6, <2>1, <2>2, <2>3, <2>4 DEF Around
<1>15. Reaches(items, a, b, s, old, new)
  <2> SUFFICES ASSUME s + old[p] = Len(a), Len(b) > 0
               PROVE  \E k \in 1 .. p : OnNew(items[k]) /\ s + new[k] = Len(b)
    BY <1>2 DEF Reaches
  <2>1. t = f
    BY <1>1, <1>6
  <2>2. CASE f = 1
    <3>1. 1 \in 1 .. f /\ e + o + w + 1 \in 1 .. p /\ s + (e + w + 1) = Len(b)
      BY <1>1, <2>1, <2>2 DEF p
    <3>2. items[e + o + w + 1].tag = "=" /\ new[e + o + w + 1] = e + w + 1
      BY <1>11, <3>1
    <3> QED BY <3>1, <3>2 DEF OnNew
  <2>3. CASE f = 0 /\ w > 0
    <3>1. w \in 1 .. w /\ e + o + w \in 1 .. p /\ s + (e + w) = Len(b)
      BY <1>1, <2>1, <2>3 DEF p
    <3>2. items[e + o + w].tag = "+" /\ new[e + o + w] = e + w
      BY <1>10, <3>1
    <3> QED BY <3>1, <3>2 DEF OnNew
  <2>4. CASE f = 0 /\ w = 0
    <3>1. e = 1 /\ 1 \in 1 .. e /\ 1 \in 1 .. p /\ s + 1 = Len(b)
      BY <1>1, <2>1, <2>4 DEF p
    <3>2. items[1].tag = "=" /\ new[1] = 1
      BY <1>8, <3>1
    <3> QED BY <3>1, <3>2 DEF OnNew
  <2>5. f = 0 \/ f = 1
    BY <1>1
  <2> QED BY <1>1, <2>2, <2>3, <2>4, <2>5
<1>16. Shape(items, a, b, s, old, new)
  BY <1>2, <1>12, <1>13, <1>14, <1>15 DEF Shape
<1> QED BY <1>2, <1>6, <1>16

-----------------------------------------------------------------------------
(* Reading what was written.                                               *)

\* The lines of a patch that an item becomes.
LineOf(item) == [tag |-> item.tag, body |-> item.line.body]
PieceOf(item) == <<LineOf(item)>> \o (IF item.line.ended THEN <<>> ELSE <<NoNewline>>)
PiecesOf(items) == [i \in DOMAIN items |-> PieceOf(items[i])]
Plain(items) == [i \in DOMAIN items |-> LineOf(items[i])]

\* An item becomes lines of a patch.
LEMMA ItemIs ==
    ASSUME NEW item \in ItemRecords
    PROVE  /\ LineOf(item) \in PatchLines /\ NoNewline \in PatchLines /\ item.line.ended \in BOOLEAN
           /\ item.tag \in {"=", "-", "+"} /\ item.line.body \in Bodies
           /\ PieceOf(item) \in Seq(PatchLines)
<1>1. item.tag \in {"=", "-", "+"} /\ item.line \in LineRecords
  BY DEF ItemRecords
<1>2. item.line.body \in Bodies
  BY <1>1 DEF LineRecords
<1>3. item.line.ended \in BOOLEAN
  BY <1>1 DEF LineRecords
<1> DEFINE tag == item.tag
           body == item.line.body
<1>4. LineOf(item) = [tag |-> tag, body |-> body]
  BY DEF LineOf
<1>5. tag \in {"=", "-", "+", "unended"} /\ body \in Bodies
  BY <1>1, <1>2
<1> HIDE DEF tag, body
<1>6. LineOf(item) \in PatchLines
  BY <1>4, <1>5 DEF PatchLines, HunkLines
<1>7. NoNewline \in PatchLines
  <2>1. <<>> \in Bodies
    BY EmptySeq DEF Bodies
  <2> DEFINE none == <<>>
  <2>2. NoNewline = [tag |-> "unended", body |-> none] /\ none \in Bodies
    BY <2>1 DEF NoNewline
  <2> HIDE DEF none
  <2> QED BY <2>2 DEF PatchLines, HunkLines
<1>8. <<>> \in Seq(PatchLines) /\ <<NoNewline>> \in Seq(PatchLines) /\ <<LineOf(item)>> \in Seq(PatchLines)
  BY <1>6, <1>7
<1>9. PieceOf(item) \in Seq(PatchLines)
  BY <1>8, ConcatProperties DEF PieceOf
<1> QED BY <1>1, <1>2, <1>3, <1>6, <1>7, <1>9

\* What the items become, by their places.
LEMMA PiecesOfAre ==
    ASSUME NEW items \in Seq(ItemRecords)
    PROVE  /\ PiecesOf(items) \in Seq(Seq(PatchLines)) /\ Len(PiecesOf(items)) = Len(items)
           /\ \A i \in 1 .. Len(items) : PiecesOf(items)[i] = PieceOf(items[i])
           /\ WrittenOut(items) = FlattenSeq(PiecesOf(items)) /\ WrittenOut(items) \in Seq(PatchLines)
           /\ Plain(items) \in Seq(PatchLines) /\ Len(Plain(items)) = Len(items)
           /\ \A i \in 1 .. Len(items) : Plain(items)[i] = LineOf(items[i])
<1>1. Len(items) \in Nat /\ DOMAIN items = 1 .. Len(items) /\ \A i \in 1 .. Len(items) : items[i] \in ItemRecords
  BY LenProperties, ElementOfSeq
<1>2. \A i \in 1 .. Len(items) : PieceOf(items[i]) \in Seq(PatchLines) /\ LineOf(items[i]) \in PatchLines
  BY <1>1, ItemIs
<1> DEFINE pieces == [i \in 1 .. Len(items) |-> PieceOf(items[i])]
           plain == [i \in 1 .. Len(items) |-> LineOf(items[i])]
<1>3. PiecesOf(items) = pieces /\ Plain(items) = plain
  BY <1>1 DEF PiecesOf, Plain
<1>4. /\ pieces \in [1 .. Len(items) -> Seq(PatchLines)] /\ \A i \in 1 .. Len(items) : pieces[i] = PieceOf(items[i])
  BY <1>2
<1>5. /\ plain \in [1 .. Len(items) -> PatchLines] /\ \A i \in 1 .. Len(items) : plain[i] = LineOf(items[i])
  BY <1>2
<1> HIDE DEF pieces, plain
<1>6. pieces \in Seq(Seq(PatchLines)) /\ Len(pieces) = Len(items)
  BY <1>1, <1>4
<1>7. plain \in Seq(PatchLines) /\ Len(plain) = Len(items)
  BY <1>1, <1>5
<1>8. WrittenOut(items) = FlattenSeq(PiecesOf(items))
  BY DEF WrittenOut, PiecesOf, PieceOf, LineOf
<1>9. FlattenSeq(pieces) \in Seq(PatchLines)
  <2>1. PICK run \in [0 .. Len(pieces) -> Seq(PatchLines)] :
            /\ run[0] = <<>> /\ run[Len(pieces)] = FlattenSeq(pieces)
            /\ \A k \in 1 .. Len(pieces) : run[k] = run[k - 1] \o pieces[k]
    BY <1>6, FlattenRun
  <2>2. Len(pieces) \in 0 .. Len(pieces)
    BY <1>1, <1>6
  <2> QED BY <2>1, <2>2
<1> QED BY <1>3, <1>4, <1>5, <1>6, <1>7, <1>8, <1>9

\* One item more.
LEMMA WrittenGrows ==
    ASSUME NEW items \in Seq(ItemRecords), NEW k \in Nat, k + 1 <= Len(items)
    PROVE  /\ WrittenOut(SubSeq(items, 1, k + 1)) = WrittenOut(SubSeq(items, 1, k)) \o PieceOf(items[k + 1])
           /\ Plain(SubSeq(items, 1, k + 1)) = Append(Plain(SubSeq(items, 1, k)), LineOf(items[k + 1]))
<1> DEFINE q == SubSeq(items, 1, k)
           r == SubSeq(items, 1, k + 1)
           item == items[k + 1]
<1>1. Len(items) \in Nat /\ \A i \in 1 .. Len(items) : items[i] \in ItemRecords
  BY LenProperties, ElementOfSeq
<1>2. item \in ItemRecords
  <2>1. k + 1 \in 1 .. Len(items)
    BY <1>1
  <2> QED BY <1>1, <2>1
<1>3. q \in Seq(ItemRecords) /\ Len(q) = k /\ \A i \in 1 .. k : q[i] = items[i]
  <2>1. /\ 1 \in Nat \ {0} /\ k \in Int /\ 1 - 1 <= k /\ k <= Len(items) /\ k - 1 + 1 = k
        /\ \A i \in 1 .. k : 1 + i - 1 = i
    BY <1>1
  <2>2. /\ q \in Seq(ItemRecords) /\ Len(q) = k - 1 + 1
        /\ \A i \in 1 .. (k - 1 + 1) : q[i] = items[1 + i - 1]
    BY <2>1, PartIs
  <2> HIDE DEF q
  <2> QED BY <2>1, <2>2
<1>4. r \in Seq(ItemRecords) /\ Len(r) = k + 1 /\ \A i \in 1 .. k + 1 : r[i] = items[i]
  <2> DEFINE m == k + 1
  <2>1. /\ 1 \in Nat \ {0} /\ m \in Int /\ 1 - 1 <= m /\ m <= Len(items) /\ m - 1 + 1 = m
        /\ \A i \in 1 .. m : 1 + i - 1 = i
    BY <1>1
  <2> HIDE DEF m
  <2>2. /\ SubSeq(items, 1, m) \in Seq(ItemRecords) /\ Len(SubSeq(items, 1, m)) = m - 1 + 1
        /\ \A i \in 1 .. (m - 1 + 1) : SubSeq(items, 1, m)[i] = items[1 + i - 1]
    BY <2>1, PartIs
  <2>3. SubSeq(items, 1, m) \in Seq(ItemRecords) /\ Len(SubSeq(items, 1, m)) = m /\ \A i \in 1 .. m : SubSeq(items, 1, m)[i] = items[i]
    BY <2>1, <2>2
  <2> QED BY <2>3 DEF m
<1> HIDE DEF q, r, item
<1> DEFINE u == PiecesOf(q)
           v == PiecesOf(r)
           x == PieceOf(item)
<1>5. /\ u \in Seq(Seq(PatchLines)) /\ Len(u) = k /\ \A i \in 1 .. k : u[i] = PieceOf(items[i])
      /\ WrittenOut(q) = FlattenSeq(u)
  <2>1. /\ u \in Seq(Seq(PatchLines)) /\ Len(u) = Len(q) /\ \A i \in 1 .. Len(q) : u[i] = PieceOf(q[i])
        /\ WrittenOut(q) = FlattenSeq(u)
    BY <1>3, PiecesOfAre
  <2> HIDE DEF u
  <2> QED BY <1>3, <2>1
<1>6. /\ v \in Seq(Seq(PatchLines)) /\ Len(v) = k + 1 /\ \A i \in 1 .. k + 1 : v[i] = PieceOf(items[i])
      /\ WrittenOut(r) = FlattenSeq(v)
  <2>1. /\ v \in Seq(Seq(PatchLines)) /\ Len(v) = Len(r) /\ \A i \in 1 .. Len(r) : v[i] = PieceOf(r[i])
        /\ WrittenOut(r) = FlattenSeq(v)
    BY <1>4, PiecesOfAre
  <2> HIDE DEF v
  <2> QED BY <1>4, <2>1
<1>7. x \in Seq(PatchLines)
  BY <1>2, ItemIs
<1> HIDE DEF u, v, x
<1>8. Len(v) = Len(u) + 1 /\ (\A i \in 1 .. Len(u) : v[i] = u[i]) /\ v[Len(u) + 1] = x
  <2>1. \A i \in 1 .. k : v[i] = u[i]
    BY <1>5, <1>6
  <2>2. v[k + 1] = x
    BY <1>6 DEF x, item
  <2> QED BY <1>5, <1>6, <2>1, <2>2
<1>9. FlattenSeq(v) = FlattenSeq(u) \o x
  BY <1>5, <1>6, <1>7, <1>8, ListGrows
<1> DEFINE g == Plain(q)
           h == Plain(r)
           y == LineOf(item)
<1>10. /\ g \in Seq(PatchLines) /\ Len(g) = k /\ \A i \in 1 .. k : g[i] = LineOf(items[i])
  <2>1. g \in Seq(PatchLines) /\ Len(g) = Len(q) /\ \A i \in 1 .. Len(q) : g[i] = LineOf(q[i])
    BY <1>3, PiecesOfAre
  <2> HIDE DEF g
  <2> QED BY <1>3, <2>1
<1>11. /\ h \in Seq(PatchLines) /\ Len(h) = k + 1 /\ \A i \in 1 .. k + 1 : h[i] = LineOf(items[i])
  <2>1. h \in Seq(PatchLines) /\ Len(h) = Len(r) /\ \A i \in 1 .. Len(r) : h[i] = LineOf(r[i])
    BY <1>4, PiecesOfAre
  <2> HIDE DEF h
  <2> QED BY <1>4, <2>1
<1>12. y \in PatchLines /\ h[k + 1] = y
  BY <1>2, <1>11, ItemIs DEF item
<1> HIDE DEF g, h, y
<1>13. h = Append(g, y)
  <2> DEFINE l == Append(g, y)
  <2>1. l \in Seq(PatchLines) /\ Len(l) = k + 1 /\ (\A i \in 1 .. k : l[i] = g[i]) /\ l[k + 1] = y
    BY <1>10, <1>12, AppendProperties
  <2> HIDE DEF l
  <2>2. \A i \in 1 .. Len(h) : h[i] = l[i]
    BY <1>10, <1>11, <1>12, <2>1
  <2>3. h = l
    BY <1>11, <2>1, <2>2, SeqEqual
  <2> QED BY <2>3 DEF l
<1>14. WrittenOut(r) = WrittenOut(q) \o x
  BY <1>5, <1>6, <1>9
<1> QED BY <1>13, <1>14 DEF q, r, item, x, g, h, y

AllEnded(items, k) == \A i \in 1 .. k : OnNew(items[i]) => items[i].line.ended

\* An item more is parsed.
LEMMA ItemParsed ==
    ASSUME NEW g \in Seq(PatchLines), NEW item \in ItemRecords, NEW start, NEW lines, NEW newline \in BOOLEAN,
           NEW old \in Nat, NEW new \in Nat, NEW side \in BOOLEAN, old > 0 \/ new > 0,
           Parsed(g) = OneHunk(start, lines, newline, old, new, side)
    PROVE  Parsed(g \o PieceOf(item))
             = OneHunk(start, Append(lines, LineOf(item)), newline /\ (OnNew(item) => item.line.ended),
                       old - (IF OnOld(item) THEN 1 ELSE 0), new - (IF OnNew(item) THEN 1 ELSE 0), OnNew(item))
<1> DEFINE line == LineOf(item)
           l == <<line>>
           n == <<NoNewline>>
           fewer == old - (IF OnOld(item) THEN 1 ELSE 0)
           less == new - (IF OnNew(item) THEN 1 ELSE 0)
           more == Append(lines, line)
           newSide == OnNew(item)
<1>1. line \in PatchLines /\ line.tag = item.tag /\ line.tag \in {"=", "-", "+"} /\ NoNewline \in PatchLines
  BY ItemIs DEF LineOf
<1>2. item.line.ended \in BOOLEAN /\ newSide \in BOOLEAN
  BY ItemIs DEF OnNew
<1>3. l \in Seq(PatchLines) /\ n \in Seq(PatchLines)
  BY <1>1
<1>4. PieceOf(item) = l \o (IF item.line.ended THEN <<>> ELSE n)
  BY DEF PieceOf
<1>5. Parsed(g \o l) = ParseLine(Parsed(g), line)
  BY <1>1, ParseGrows
<1>6. ParseLine(OneHunk(start, lines, newline, old, new, side), line) = OneHunk(start, more, newline, fewer, less, newSide)
  <2>1. ParseLine(OneHunk(start, lines, newline, old, new, side), line)
          = OneHunk(start, Append(lines, line), newline, old - (IF line.tag \in {"=", "-"} THEN 1 ELSE 0),
                    new - (IF line.tag \in {"=", "+"} THEN 1 ELSE 0), line.tag \in {"=", "+"})
    <3> HIDE DEF line
    <3> QED BY <1>1, HunkGrows
  <2>2. line.tag = item.tag
    BY <1>1
  <2> HIDE DEF line
  <2> QED BY <2>1, <2>2 DEF OnOld, OnNew
<1> HIDE DEF line, l, n, fewer, less, more, newSide
<1>7. CASE item.line.ended
  <2>1. l \o <<>> = l
    BY <1>3, ConcatEmptySeq
  <2>2. PieceOf(item) = l
    BY <1>4, <1>7, <2>1
  <2>3. (newline /\ (newSide => item.line.ended)) = newline
    BY <1>7
  <2>4. Parsed(g \o PieceOf(item)) = OneHunk(start, more, newline, fewer, less, newSide)
    BY <1>5, <1>6, <2>2
  <2>5. Parsed(g \o PieceOf(item)) = OneHunk(start, more, newline /\ (newSide => item.line.ended), fewer, less, newSide)
    BY <2>3, <2>4, Zenon
  <2> QED BY <2>5 DEF line, fewer, less, more, newSide
<1>8. CASE ~item.line.ended
  <2>1. (g \o l) \o n = g \o (l \o n)
    BY <1>3, ConcatAssociative, SMTT(30)
  <2>2. PieceOf(item) = l \o n
    BY <1>4, <1>8
  <2> DEFINE q == g \o l
  <2>3. q \in Seq(PatchLines) /\ Parsed(q) = OneHunk(start, more, newline, fewer, less, newSide)
    BY <1>3, <1>5, <1>6, ConcatProperties
  <2>4. g \o PieceOf(item) = q \o n
    BY <2>1, <2>2
  <2> HIDE DEF q
  <2>5. Parsed(q \o n) = ParseLine(Parsed(q), NoNewline)
    BY <1>1, <2>3, ParseGrows DEF n
  <2>6. ParseLine(OneHunk(start, more, newline, fewer, less, newSide), NoNewline)
          = OneHunk(start, more, IF newSide THEN FALSE ELSE newline, fewer, less, newSide)
    BY <1>2, HunkUnended, ZenonT(30)
  <2>7. (IF newSide THEN FALSE ELSE newline) = (newline /\ (newSide => item.line.ended))
    BY <1>2, <1>8
  <2>8. Parsed(g \o PieceOf(item)) = OneHunk(start, more, IF newSide THEN FALSE ELSE newline, fewer, less, newSide)
    BY <2>3, <2>4, <2>5, <2>6
  <2>9. Parsed(g \o PieceOf(item)) = OneHunk(start, more, newline /\ (newSide => item.line.ended), fewer, less, newSide)
    BY <2>7, <2>8, Zenon
  <2> QED BY <2>9 DEF line, fewer, less, more, newSide
<1> QED BY <1>2, <1>7, <1>8

\* What a parser has read after the header and k items.
Prefix(items, k) == SubSeq(items, 1, k)
ReadSoFar(items, s, old, new, k) ==
    OneHunk(s + 1, Plain(Prefix(items, k)), AllEnded(items, k), old[Len(items)] - old[k],
            new[Len(items)] - new[k], k > 0 /\ OnNew(items[k]))

\* The header begins a hunk.
LEMMA HunkBegins ==
    ASSUME NEW s \in Nat, NEW m \in Nat, NEW n \in Nat
    PROVE  /\ Header(s, m, n) \in PatchLines
           /\ Parsed(<<Header(s, m, n)>>) = OneHunk(s + 1, <<>>, TRUE, m, n, FALSE)
<1> DEFINE h == Header(s, m, n)
           none == <<>>
<1>1. h \in PatchLines
  <2>1. none \in Bodies /\ s + 1 \in Int /\ m \in Int /\ n \in Int
    BY EmptySeq DEF Bodies
  <2>2. h = [tag |-> "@@", body |-> none, start |-> s + 1, old |-> m, new |-> n]
    BY DEF Header
  <2> HIDE DEF h, none
  <2> QED BY <2>1, <2>2 DEF PatchLines
<1>2. <<>> \in Seq(PatchLines) /\ <<>> \o <<h>> = <<h>>
  OBVIOUS
<1>3. Parsed(<<>> \o <<h>>) = ParseLine(NoHunks, h)
  BY <1>1, <1>2, ParseGrows
<1>4. ParseLine(NoHunks, h) = OneHunk(s + 1, <<>>, TRUE, m, n, FALSE)
  <2>1. h.tag = "@@" /\ h.start = s + 1 /\ h.old = m /\ h.new = n
    BY DEF Header
  <2>2. NoHunks.hunks = <<>> /\ ~(NoHunks.old > 0 \/ NoHunks.new > 0)
    BY DEF NoHunks
  <2> HIDE DEF h
  <2> DEFINE begun == [oldStart |-> s + 1, lines |-> <<>>, newFinalNewline |-> TRUE]
  <2>3. ParseLine(NoHunks, h) = [hunks |-> Append(<<>>, begun), old |-> m, new |-> n, newSide |-> FALSE]
    BY <2>1, <2>2 DEF ParseLine
  <2>4. OneHunk(s + 1, <<>>, TRUE, m, n, FALSE) = [hunks |-> <<begun>>, old |-> m, new |-> n, newSide |-> FALSE]
    BY DEF OneHunk
  <2> HIDE DEF begun
  <2>5. Append(<<>>, begun) = <<begun>>
    OBVIOUS
  <2> QED BY <2>3, <2>4, <2>5
<1> QED BY <1>1, <1>2, <1>3, <1>4

\* The parser reads back the hunk that was written: no line of its body is taken for a header.
LEMMA HunkParsed ==
    ASSUME NEW a \in Seq(LineRecords), NEW b \in Seq(LineRecords),
           NEW items, NEW s, NEW old, NEW new, Shape(items, a, b, s, old, new)
    PROVE  ParseUnifiedPatch(<<Header(s, old[Len(items)], new[Len(items)])>> \o WrittenOut(items))
             = <<[oldStart |-> s + 1, lines |-> Plain(items), newFinalNewline |-> AllEnded(items, Len(items))]>>
<1> DEFINE p == Len(items)
           h == <<Header(s, old[p], new[p])>>
           G(k) == h \o WrittenOut(Prefix(items, k))
           P == {k \in 0 .. p : Parsed(G(k)) = ReadSoFar(items, s, old, new, k)}
<1>1. /\ items \in Seq(ItemRecords) /\ s \in Nat
      /\ old \in [0 .. p -> Nat] /\ new \in [0 .. p -> Nat] /\ old[0] = 0 /\ new[0] = 0
      /\ \A k \in 1 .. p : /\ old[k] = old[k - 1] + (IF OnOld(items[k]) THEN 1 ELSE 0)
                           /\ new[k] = new[k - 1] + (IF OnNew(items[k]) THEN 1 ELSE 0)
      /\ \A k \in 0 .. p : old[k] <= old[p] /\ new[k] <= new[p]
  BY DEF Shape, Counts, Around
<1>2. p \in Nat /\ \A k \in 1 .. p : items[k] \in ItemRecords
  BY <1>1, LenProperties, ElementOfSeq
<1>3. old[p] \in Nat /\ new[p] \in Nat
  BY <1>1, <1>2
<1>4. \A k \in 0 .. p : Prefix(items, k) \in Seq(ItemRecords) /\ Len(Prefix(items, k)) = k
  <2> SUFFICES ASSUME NEW k \in 0 .. p
               PROVE  Prefix(items, k) \in Seq(ItemRecords) /\ Len(Prefix(items, k)) = k
    OBVIOUS
  <2>1. 1 \in Nat \ {0} /\ k \in Int /\ 1 - 1 <= k /\ k <= Len(items) /\ k - 1 + 1 = k
    BY <1>2
  <2> QED BY <1>1, <2>1, PartIs DEF Prefix
<1>5. h \in Seq(PatchLines) /\ Parsed(h) = OneHunk(s + 1, <<>>, TRUE, old[p], new[p], FALSE)
  <2> DEFINE m == old[p]
             n == new[p]
  <2>1. m \in Nat /\ n \in Nat
    BY <1>3
  <2> HIDE DEF m, n
  <2>2. Header(s, m, n) \in PatchLines /\ Parsed(<<Header(s, m, n)>>) = OneHunk(s + 1, <<>>, TRUE, m, n, FALSE)
    BY <1>1, <2>1, HunkBegins
  <2> QED BY <2>2 DEF m, n
<1> HIDE DEF h
<1>6. 0 \in P
  <2> DEFINE q == Prefix(items, 0)
  <2>1. q \in Seq(ItemRecords) /\ Len(q) = 0
    BY <1>2, <1>4
  <2> HIDE DEF q
  <2>2. /\ PiecesOf(q) \in Seq(Seq(PatchLines)) /\ Len(PiecesOf(q)) = 0 /\ WrittenOut(q) = FlattenSeq(PiecesOf(q))
        /\ Plain(q) \in Seq(PatchLines) /\ Len(Plain(q)) = 0
    BY <2>1, PiecesOfAre
  <2>3. Plain(q) = <<>>
    BY <2>2, EmptySeq
  <2>4. WrittenOut(q) = <<>>
    <3>1. \A k \in 1 .. Len(PiecesOf(q)) : PiecesOf(q)[k] = <<>>
      BY <2>2
    <3> QED BY <2>2, <3>1, FlattenEmpties
  <2>5. h \o <<>> = h
    BY <1>5, ConcatEmptySeq
  <2>6. AllEnded(items, 0) = TRUE /\ (0 > 0 /\ OnNew(items[0])) = FALSE
    BY DEF AllEnded
  <2>7. old[p] - old[0] = old[p] /\ new[p] - new[0] = new[p]
    BY <1>1, <1>3
  <2>8. ReadSoFar(items, s, old, new, 0) = OneHunk(s + 1, Plain(q), TRUE, old[p], new[p], FALSE)
    <3>1. ReadSoFar(items, s, old, new, 0)
            = OneHunk(s + 1, Plain(q), AllEnded(items, 0), old[p] - old[0], new[p] - new[0], 0 > 0 /\ OnNew(items[0]))
      BY Zenon DEF ReadSoFar, q
    <3> QED BY <2>6, <2>7, <3>1, Zenon
  <2>9. Parsed(G(0)) = Parsed(h)
    BY <2>4, <2>5 DEF q
  <2>10. 0 \in 0 .. p
    BY <1>2
  <2> QED BY <1>5, <2>3, <2>8, <2>9, <2>10
<1>7. ASSUME NEW k \in 0 .. p, k < p, k \in P
      PROVE  k + 1 \in P
  <2> DEFINE item == items[k + 1]
             lines == Plain(Prefix(items, k))
             newline == AllEnded(items, k)
             more == old[p] - old[k]
             rest == new[p] - new[k]
             side == k > 0 /\ OnNew(items[k])
             g == G(k)
  <2>1. /\ k \in Nat /\ k + 1 \in 1 .. p /\ k + 1 \in 0 .. p /\ (k + 1) - 1 = k /\ k + 1 <= Len(items)
        /\ item \in ItemRecords
    BY <1>2, <1>7
  <2>2. Parsed(g) = OneHunk(s + 1, lines, newline, more, rest, side)
    BY <1>7, Zenon DEF ReadSoFar
  <2>3. g \in Seq(PatchLines)
    <3>1. WrittenOut(Prefix(items, k)) \in Seq(PatchLines)
      BY <1>4, PiecesOfAre
    <3> QED BY <1>5, <3>1, ConcatProperties
  <2>4. /\ old[k + 1] = old[k] + (IF OnOld(item) THEN 1 ELSE 0)
        /\ new[k + 1] = new[k] + (IF OnNew(item) THEN 1 ELSE 0)
        /\ old[k] \in Nat /\ new[k] \in Nat /\ old[k] <= old[p] /\ new[k] <= new[p]
        /\ old[k + 1] <= old[p] /\ new[k + 1] <= new[p]
    BY <1>1, <2>1
  <2>5. OnOld(item) \/ OnNew(item)
    <3>1. item.tag \in {"=", "-", "+"}
      BY <2>1, ItemIs
    <3> QED BY <3>1 DEF OnOld, OnNew
  <2>6. more \in Nat /\ rest \in Nat /\ (more > 0 \/ rest > 0)
    BY <1>3, <2>4, <2>5, SMTT(30)
  <2>7. newline \in BOOLEAN /\ side \in BOOLEAN
    BY DEF AllEnded, OnNew
  <2>8. /\ old[p] - old[k + 1] = more - (IF OnOld(item) THEN 1 ELSE 0)
        /\ new[p] - new[k + 1] = rest - (IF OnNew(item) THEN 1 ELSE 0)
    BY <1>3, <2>4
  <2>9. AllEnded(items, k + 1) = (newline /\ (OnNew(item) => item.line.ended))
    <3>1. \A i \in 1 .. k + 1 : i \in 1 .. k \/ i = k + 1
      BY <2>1
    <3>2. \A i \in 1 .. k : i \in 1 .. k + 1
      BY <2>1
    <3>3. k + 1 \in 1 .. k + 1
      BY <2>1
    <3> QED BY <3>1, <3>2, <3>3, Zenon DEF AllEnded
  <2>10. (k + 1 > 0 /\ OnNew(items[k + 1])) = OnNew(item)
    <3>1. k + 1 > 0
      BY <2>1
    <3>2. OnNew(items[k + 1]) \in BOOLEAN
      BY DEF OnNew
    <3> QED BY <3>1, <3>2, Zenon
  <2>11. /\ Plain(Prefix(items, k + 1)) = Append(lines, LineOf(item))
         /\ WrittenOut(Prefix(items, k + 1)) = WrittenOut(Prefix(items, k)) \o PieceOf(item)
    BY <1>1, <2>1, WrittenGrows DEF Prefix
  <2>12. G(k + 1) = g \o PieceOf(item)
    <3> DEFINE y == WrittenOut(Prefix(items, k))
               z == PieceOf(item)
    <3>1. h \in Seq(PatchLines) /\ y \in Seq(PatchLines) /\ z \in Seq(PatchLines)
      BY <1>4, <1>5, <2>1, ItemIs, PiecesOfAre
    <3>2. G(k + 1) = h \o (y \o z)
      BY <2>11
    <3> HIDE DEF y, z, G
    <3>3. (h \o y) \o z = h \o (y \o z)
      BY <3>1, ConcatAssociative, SMTT(30)
    <3> QED BY <3>2, <3>3 DEF y, z, G
  <2> HIDE DEF G, lines, newline, more, rest, side, g, P, item
  <2>13. Parsed(g \o PieceOf(item))
           = OneHunk(s + 1, Append(lines, LineOf(item)), newline /\ (OnNew(item) => item.line.ended),
                     more - (IF OnOld(item) THEN 1 ELSE 0), rest - (IF OnNew(item) THEN 1 ELSE 0), OnNew(item))
    <3>1. item \in ItemRecords
      BY <2>1
    <3> DEFINE start == s + 1
    <3>2. Parsed(g) = OneHunk(start, lines, newline, more, rest, side)
      BY <2>2
    <3> HIDE DEF start
    <3>3. Parsed(g \o PieceOf(item))
            = OneHunk(start, Append(lines, LineOf(item)), newline /\ (OnNew(item) => item.line.ended),
                      more - (IF OnOld(item) THEN 1 ELSE 0), rest - (IF OnNew(item) THEN 1 ELSE 0), OnNew(item))
      BY <2>3, <2>6, <2>7, <3>1, <3>2, ItemParsed
    <3> QED BY <3>3 DEF start
  <2>14. ReadSoFar(items, s, old, new, k + 1)
           = OneHunk(s + 1, Plain(Prefix(items, k + 1)), AllEnded(items, k + 1), old[p] - old[k + 1],
                     new[p] - new[k + 1], k + 1 > 0 /\ OnNew(items[k + 1]))
    BY Zenon DEF ReadSoFar
  <2>15. Parsed(G(k + 1)) = ReadSoFar(items, s, old, new, k + 1)
    BY <2>8, <2>9, <2>10, <2>11, <2>12, <2>13, <2>14, Zenon
  <2> QED BY <2>1, <2>15 DEF P
<1>8. 0 .. p \subseteq P
  <2> HIDE DEF P
  <2> QED BY <1>2, <1>6, <1>7, UpTo
<1>9. Parsed(G(p)) = ReadSoFar(items, s, old, new, p)
  BY <1>2, <1>8
<1>10. Prefix(items, p) = items
  BY <1>1, SubSeqFull DEF Prefix
<1>11. ReadSoFar(items, s, old, new, p).hunks
         = <<[oldStart |-> s + 1, lines |-> Plain(items), newFinalNewline |-> AllEnded(items, p)]>>
  BY <1>10 DEF ReadSoFar, OneHunk
<1> QED BY <1>9, <1>10, <1>11 DEF ParseUnifiedPatch, Parsed, h

-----------------------------------------------------------------------------
(* Applying a hunk.                                                        *)

\* What is known while the lines of a hunk are applied.
ApplyStates == [out : Seq(Bodies), cursor : Nat, ok : BOOLEAN]
ApplyNext(source, state, line) == IF state.ok THEN ApplyLine(source, state, line) ELSE state
StateOf(out, cursor, ok) == [out |-> out, cursor |-> cursor, ok |-> ok]
Applied(out, cursor) == [out |-> out, cursor |-> cursor, ok |-> TRUE]

\* Records of what is applied.
LEMMA StateTyped ==
    ASSUME NEW out \in Seq(Bodies), NEW cursor \in Nat, NEW ok \in BOOLEAN
    PROVE  StateOf(out, cursor, ok) \in ApplyStates /\ Applied(out, cursor) \in ApplyStates
BY DEF StateOf, Applied, ApplyStates

\* And their parts.
LEMMA StateIs ==
    ASSUME NEW state \in ApplyStates
    PROVE  /\ state = StateOf(state.out, state.cursor, state.ok)
           /\ state.out \in Seq(Bodies) /\ state.cursor \in Nat /\ state.ok \in BOOLEAN
BY DEF StateOf, ApplyStates

\* A line of each kind.
LEMMA LineAdded ==
    ASSUME NEW source, NEW out, NEW cursor, NEW line, line.tag = "+"
    PROVE  ApplyNext(source, Applied(out, cursor), line) = Applied(Append(out, line.body), cursor)
BY DEF ApplyNext, ApplyLine, Applied

\* A line of the source is taken, and kept if it is of the context.
LEMMA LineKept ==
    ASSUME NEW source \in Seq(Bodies), NEW out, NEW cursor \in Nat, NEW line, line.tag \in {"=", "-"},
           cursor + 1 <= Len(source), source[cursor + 1] = line.body
    PROVE  ApplyNext(source, Applied(out, cursor), line)
             = Applied(IF line.tag = "=" THEN Append(out, line.body) ELSE out, cursor + 1)
<1> DEFINE x == Applied(out, cursor)
           grown == IF line.tag = "=" THEN Append(out, line.body) ELSE out
<1>1. x.ok = TRUE /\ x.cursor = cursor /\ x.out = out
  BY DEF Applied
<1>2. Len(source) \in Nat
  BY LenProperties
<1> HIDE DEF x
<1>3. line.tag # "+" /\ ~(x.cursor >= Len(source)) /\ ~(source[x.cursor + 1] # line.body)
  <2>1. ~(x.cursor >= Len(source))
    BY <1>1, <1>2
  <2>2. source[x.cursor + 1] = line.body
    BY <1>1
  <2> QED BY <2>1, <2>2
<1>4. ApplyNext(source, x, line) = [out |-> IF line.tag = "=" THEN Append(x.out, line.body) ELSE x.out,
                                     cursor |-> x.cursor + 1, ok |-> x.ok]
  BY <1>1, <1>3 DEF ApplyNext, ApplyLine
<1> QED BY <1>1, <1>4 DEF x, grown, Applied

\* A line more leaves such a record.
LEMMA LineTyped ==
    ASSUME NEW source \in Seq(Bodies), NEW state \in ApplyStates, NEW line, line.body \in Bodies
    PROVE  ApplyNext(source, state, line) \in ApplyStates
<1>1. /\ state = StateOf(state.out, state.cursor, state.ok)
      /\ state.out \in Seq(Bodies) /\ state.cursor \in Nat /\ state.ok \in BOOLEAN
  BY StateIs
<1>2. Append(state.out, line.body) \in Seq(Bodies)
  BY <1>1, AppendProperties
<1>3. CASE ~state.ok
  BY <1>3 DEF ApplyNext
<1>4. CASE state.ok /\ line.tag = "+"
  <2>1. ApplyNext(source, state, line) = [state EXCEPT !.out = Append(state.out, line.body)]
    BY <1>4 DEF ApplyNext, ApplyLine
  <2> QED BY <1>2, <2>1 DEF ApplyStates
<1>5. CASE state.ok /\ line.tag # "+" /\ (state.cursor >= Len(source) \/ source[state.cursor + 1] # line.body)
  <2>1. ApplyNext(source, state, line) = [state EXCEPT !.ok = FALSE]
    BY <1>5 DEF ApplyNext, ApplyLine
  <2> QED BY <2>1 DEF ApplyStates
<1>6. CASE state.ok /\ line.tag # "+" /\ ~(state.cursor >= Len(source) \/ source[state.cursor + 1] # line.body)
  <2> DEFINE grown == IF line.tag = "=" THEN Append(state.out, line.body) ELSE state.out
  <2> DEFINE next == state.cursor + 1
             ok == state.ok
  <2>1. ApplyNext(source, state, line) = [out |-> grown, cursor |-> next, ok |-> ok]
    BY <1>6 DEF ApplyNext, ApplyLine
  <2>2. grown \in Seq(Bodies) /\ next \in Nat /\ ok \in BOOLEAN
    BY <1>1, <1>2
  <2> HIDE DEF grown, next, ok
  <2> QED BY <2>1, <2>2 DEF ApplyStates
<1> QED BY <1>1, <1>3, <1>4, <1>5, <1>6

LinesApplied(source, base, lines) ==
    FoldLeft(LAMBDA s, line : IF s.ok THEN ApplyLine(source, s, line) ELSE s, base, lines)

AppliedSoFar(run, source, base, lines) ==
    /\ run \in [0 .. Len(lines) -> ApplyStates] /\ run[0] = base
    /\ \A i \in 1 .. Len(lines) : run[i] = ApplyNext(source, run[i - 1], lines[i])

\* What is applied is the last of a run over the lines.
LEMMA LinesRun ==
    ASSUME NEW source \in Seq(Bodies), NEW base \in ApplyStates, NEW lines \in Seq(PatchLines)
    PROVE  \E run : AppliedSoFar(run, source, base, lines) /\ run[Len(lines)] = LinesApplied(source, base, lines)
<1> DEFINE X == ApplyStates
           n == Len(lines)
           step == [i \in 1 .. n |-> [q \in X |-> ApplyNext(source, q, lines[i])]]
           body(g) == [s \in SUBSET (1 .. n) |-> IF s = {} THEN base ELSE ApplyNext(source, g[s \ {Max(s)}], lines[Max(s)])]
           iter == CHOOSE iter : iter = body(iter)
<1>1. n \in Nat /\ DOMAIN lines = 1 .. n /\ \A i \in 1 .. n : lines[i] \in PatchLines
  BY LenProperties, ElementOfSeq
<1>2. LinesApplied(source, base, lines) = iter[1 .. n]
  BY <1>1 DEF LinesApplied, FoldLeft, MapThenFoldSet, ApplyNext
<1>3. \A i \in 1 .. n, q \in X : ApplyNext(source, q, lines[i]) \in X
  <2>1. \A i \in 1 .. n : lines[i].body \in Bodies
    BY <1>1 DEF PatchLines, HunkLines
  <2> QED BY <2>1, LineTyped
<1>4. base \in X
  OBVIOUS
<1> HIDE DEF X, n
<1>5. \A i \in 1 .. n : step[i] \in [X -> X] /\ \A q \in X : step[i][q] = ApplyNext(source, q, lines[i])
  <2>1. ASSUME NEW i \in 1 .. n
        PROVE  step[i] = [q \in X |-> ApplyNext(source, q, lines[i])]
    BY Zenon
  <2> HIDE DEF step
  <2> QED BY <1>3, <2>1
<1> HIDE DEF step
<1>6. PICK g \in SolutionsOf(base, step, n, X) : TRUE
  <2>1. SolutionsOf(base, step, n, X) # {}
    <3>1. FoldSteps(step, n, X)
      BY <1>5 DEF FoldSteps
    <3> QED BY <1>1, <1>4, <3>1, FoldSolution
  <2> QED BY <2>1
<1>7. g = body(g)
  <2>1. ASSUME NEW s \in SUBSET (1 .. n)
        PROVE  g[s] = body(g)[s]
    BY <1>1, <1>5, <1>6 DEF SolutionsOf
  <2> HIDE DEF body
  <2>2. body(g) = [s \in SUBSET (1 .. n) |-> body(g)[s]]
    BY DEF body
  <2> QED BY <1>6, <2>1, <2>2 DEF SolutionsOf
<1>8. iter = body(iter)
  <2> HIDE DEF body
  <2> QED BY <1>7
<1> HIDE DEF iter
<1>9. iter[{}] = base
  BY <1>8
<1>10. \A s \in SUBSET (1 .. n) : s # {} /\ iter[s \ {Max(s)}] \in X => iter[s] = step[Max(s)][iter[s \ {Max(s)}]]
  <2>1. \A s \in SUBSET (1 .. n) : s # {} => iter[s] = ApplyNext(source, iter[s \ {Max(s)}], lines[Max(s)]) /\ Max(s) \in 1 .. n
    BY <1>1, <1>8, MaxIn
  <2> QED BY <1>1, <1>5, <2>1
<1> HIDE DEF body
<1>11. PICK run \in RunOf(base, step, n, X) : run[n] = iter[1 .. n]
  <2>1. Solves(iter, base, step, n, X)
    BY <1>9, <1>10 DEF Solves
  <2>2. FoldSteps(step, n, X)
    BY <1>5 DEF FoldSteps
  <2> QED BY <1>1, <1>4, <2>1, <2>2, FoldIsRun
<1>12. \A i \in 1 .. n : run[i] = ApplyNext(source, run[i - 1], lines[i])
  <2>1. \A i \in 1 .. n : i - 1 \in 0 .. n /\ run[i - 1] \in X
    BY <1>1, <1>11 DEF RunOf
  <2> QED BY <1>5, <1>11, <2>1 DEF RunOf
<1> QED BY <1>2, <1>11, <1>12 DEF RunOf, AppliedSoFar, X, n

\* A hunk is applied to a source.
LEMMA HunkTyped ==
    ASSUME NEW source \in Seq(Bodies), NEW state \in ApplyStates, NEW hunk \in HunkRecords
    PROVE  ApplyHunk(source, state, hunk) \in ApplyStates
<1> DEFINE start == Max({0, hunk.oldStart - 1})
           out == state.out \o SubSeq(source, state.cursor + 1, start)
           entered == [out |-> out, cursor |-> start, ok |-> state.ok]
<1>1. hunk.oldStart \in Int /\ hunk.lines \in Seq(PatchLines)
  BY DEF HunkRecords
<1>2. start \in Nat
  <2> DEFINE S == {0, hunk.oldStart - 1}
  <2>1. \E i \in S : \A j \in S : i >= j
    <3>1. CASE hunk.oldStart - 1 >= 0
      BY <1>1, <3>1
    <3>2. CASE ~(hunk.oldStart - 1 >= 0)
      BY <1>1, <3>2
    <3> QED BY <3>1, <3>2
  <2>2. Max(S) \in S /\ \A j \in S : Max(S) >= j
    BY <2>1 DEF Max
  <2> QED BY <1>1, <2>2
<1>3. state.out \in Seq(Bodies) /\ state.cursor \in Nat /\ state.ok \in BOOLEAN
  BY StateIs
<1> HIDE DEF start
<1>4. CASE ~state.ok \/ start < state.cursor \/ start > Len(source)
  <2>1. ApplyHunk(source, state, hunk) = [state EXCEPT !.ok = FALSE]
    BY <1>4 DEF ApplyHunk, start
  <2> QED BY <2>1 DEF ApplyStates
<1>5. CASE ~(~state.ok \/ start < state.cursor \/ start > Len(source))
  <2>1. ApplyHunk(source, state, hunk) = LinesApplied(source, entered, hunk.lines)
    BY <1>5 DEF ApplyHunk, LinesApplied, start
  <2>2. out \in Seq(Bodies)
    <3>1. Len(source) \in Nat
      BY LenProperties
    <3>2. state.cursor + 1 \in Nat \ {0} /\ start \in Int /\ start <= Len(source)
      BY <1>2, <1>3, <1>5, <3>1
    <3>3. SubSeq(source, state.cursor + 1, start) \in Seq(Bodies)
      BY <3>2, PartOf
    <3> QED BY <1>3, <3>3, ConcatProperties
  <2> HIDE DEF out
  <2>4. entered \in ApplyStates
    <3> DEFINE ok == state.ok
    <3>1. ok \in BOOLEAN /\ entered = [out |-> out, cursor |-> start, ok |-> ok]
      BY <1>3
    <3> HIDE DEF ok, entered
    <3> QED BY <1>2, <2>2, <3>1 DEF ApplyStates
  <2> HIDE DEF entered
  <2> DEFINE lines == hunk.lines
  <2>5. lines \in Seq(PatchLines)
    BY <1>1
  <2> HIDE DEF lines
  <2>6. PICK run : AppliedSoFar(run, source, entered, lines) /\ run[Len(lines)] = LinesApplied(source, entered, lines)
    BY <2>4, <2>5, LinesRun
  <2>7. Len(lines) \in 0 .. Len(lines)
    BY <2>5, LenProperties
  <2>8. LinesApplied(source, entered, lines) \in ApplyStates
    BY <2>6, <2>7 DEF AppliedSoFar
  <2> QED BY <2>1, <2>8 DEF lines
<1> QED BY <1>4, <1>5

\* The lines before a hunk are those of both texts.
LEMMA BodiesBefore ==
    ASSUME NEW a \in Seq(LineRecords), NEW b \in Seq(LineRecords),
           NEW s \in Nat, NEW m \in Nat, NEW n \in Nat, Around(a, b, s, m, n)
    PROVE  SubSeq(BodiesOf(a), 1, s) = SubSeq(BodiesOf(b), 1, s)
<1> DEFINE A == BodiesOf(a)
           B == BodiesOf(b)
<1>1. /\ A \in Seq(Bodies) /\ Len(A) = Len(a) /\ \A i \in 1 .. Len(a) : A[i] = a[i].body
      /\ B \in Seq(Bodies) /\ Len(B) = Len(b) /\ \A i \in 1 .. Len(b) : B[i] = b[i].body
      /\ Len(a) \in Nat /\ Len(b) \in Nat
  BY BodiesAre, LenProperties
<1>2. /\ s \in Nat /\ s <= Len(a) /\ s <= Len(b) /\ \A i \in 1 .. s : a[i] = b[i]
      /\ s + m <= Len(a) /\ s + n <= Len(b) /\ Len(a) - m = Len(b) - n
      /\ \A i \in 1 .. (Len(a) - s - m) : a[s + m + i] = b[s + n + i]
  BY DEF Around
<1> HIDE DEF A, B
<1>3. SubSeq(A, 1, s) = SubSeq(B, 1, s)
  <2>1. /\ 1 \in Nat \ {0} /\ s \in Int /\ 1 - 1 <= s /\ s <= Len(A) /\ s <= Len(B) /\ s - 1 + 1 = s
        /\ \A k \in 1 .. s : 1 + k - 1 = k
    BY <1>1, <1>2
  <2> DEFINE x == SubSeq(A, 1, s)
             y == SubSeq(B, 1, s)
  <2>2. x \in Seq(Bodies) /\ Len(x) = s - 1 + 1 /\ \A k \in 1 .. (s - 1 + 1) : x[k] = A[1 + k - 1]
    BY <1>1, <2>1, PartIs
  <2>3. y \in Seq(Bodies) /\ Len(y) = s - 1 + 1 /\ \A k \in 1 .. (s - 1 + 1) : y[k] = B[1 + k - 1]
    BY <1>1, <2>1, PartIs
  <2> HIDE DEF x, y
  <2>4. \A k \in 1 .. s : A[k] = B[k]
    <3>1. \A k \in 1 .. s : k \in 1 .. Len(a) /\ k \in 1 .. Len(b)
      BY <1>1, <1>2
    <3> QED BY <1>1, <1>2, <3>1
  <2>5. \A k \in 1 .. Len(x) : x[k] = y[k]
    BY <2>1, <2>2, <2>3, <2>4
  <2>6. x = y
    BY <2>2, <2>3, <2>5, SeqEqual
  <2> QED BY <2>6 DEF x, y
<1> QED BY <1>3 DEF A, B

\* And those behind it.
Behind(s, m, i) == i = s + m + 1

\* The lines behind a hunk are those of both texts.
LEMMA BodiesAfter ==
    ASSUME NEW a \in Seq(LineRecords), NEW b \in Seq(LineRecords),
           NEW s \in Nat, NEW m \in Nat, NEW n \in Nat, Around(a, b, s, m, n),
           NEW i \in Nat, NEW j \in Nat, Behind(s, m, i), Behind(s, n, j)
    PROVE  SubSeq(BodiesOf(a), i, Len(a)) = SubSeq(BodiesOf(b), j, Len(b))
<1> DEFINE A == BodiesOf(a)
           B == BodiesOf(b)
<1>0. i = s + m + 1 /\ j = s + n + 1
  BY DEF Behind
<1>1. /\ A \in Seq(Bodies) /\ Len(A) = Len(a) /\ \A k \in 1 .. Len(a) : A[k] = a[k].body
      /\ B \in Seq(Bodies) /\ Len(B) = Len(b) /\ \A k \in 1 .. Len(b) : B[k] = b[k].body
      /\ Len(a) \in Nat /\ Len(b) \in Nat
  BY BodiesAre, LenProperties
<1>2. /\ s \in Nat /\ s <= Len(a) /\ s <= Len(b) /\ \A k \in 1 .. s : a[k] = b[k]
      /\ s + m <= Len(a) /\ s + n <= Len(b) /\ Len(a) - m = Len(b) - n
      /\ \A k \in 1 .. (Len(a) - s - m) : a[s + m + k] = b[s + n + k]
  BY DEF Around
<1> HIDE DEF A, B
<1>3. SubSeq(A, i, Len(a)) = SubSeq(B, j, Len(b))
  <2> DEFINE l == Len(a) - s - m
  <2>1. /\ i \in Nat \ {0} /\ Len(a) \in Int /\ i - 1 <= Len(a) /\ Len(a) <= Len(A) /\ Len(a) - i + 1 = l
        /\ j \in Nat \ {0} /\ Len(b) \in Int /\ j - 1 <= Len(b) /\ Len(b) <= Len(B) /\ Len(b) - j + 1 = l
        /\ l \in Nat
        /\ \A k \in 1 .. l : i + k - 1 = s + m + k /\ j + k - 1 = s + n + k
    BY <1>0, <1>1, <1>2
  <2>0. \A k \in 1 .. l : a[s + m + k] = b[s + n + k] /\ s + m + k \in 1 .. Len(a) /\ s + n + k \in 1 .. Len(b)
    <3> SUFFICES ASSUME NEW k \in 1 .. l
                 PROVE  a[s + m + k] = b[s + n + k] /\ s + m + k \in 1 .. Len(a) /\ s + n + k \in 1 .. Len(b)
      OBVIOUS
    <3>1. a[s + m + k] = b[s + n + k]
      BY <1>2
    <3>2. k \in Nat /\ k >= 1 /\ k <= Len(a) - s - m
      BY <1>1, <1>2
    <3>3. s + m + k \in 1 .. Len(a)
      BY <1>1, <1>2, <3>2
    <3>4. s + n + k \in 1 .. Len(b)
      BY <1>1, <1>2, <3>2
    <3> QED BY <3>1, <3>3, <3>4
  <2> DEFINE x == SubSeq(A, i, Len(a))
             y == SubSeq(B, j, Len(b))
  <2> HIDE DEF l
  <2>2. x \in Seq(Bodies) /\ Len(x) = Len(a) - i + 1 /\ \A k \in 1 .. (Len(a) - i + 1) : x[k] = A[i + k - 1]
    BY <1>1, <2>1, PartIs
  <2>3. y \in Seq(Bodies) /\ Len(y) = Len(b) - j + 1 /\ \A k \in 1 .. (Len(b) - j + 1) : y[k] = B[j + k - 1]
    BY <1>1, <2>1, PartIs
  <2> HIDE DEF x, y
  <2>4. \A k \in 1 .. l : A[s + m + k] = B[s + n + k]
    BY <1>1, <2>0
  <2>5. Len(x) = l /\ Len(y) = l /\ \A k \in 1 .. Len(x) : x[k] = y[k]
    <3>1. Len(x) = l /\ Len(y) = l
      BY <2>1, <2>2, <2>3
    <3>2. \A k \in 1 .. l : x[k] = A[s + m + k]
      <4>1. \A k \in 1 .. l : x[k] = A[i + k - 1]
        <5>1. Len(a) - i + 1 = l
          BY <2>1
        <5> QED BY <2>2, <5>1
      <4>2. \A k \in 1 .. l : i + k - 1 = s + m + k
        BY <2>1
      <4> QED BY <4>1, <4>2
    <3>3. \A k \in 1 .. l : y[k] = B[s + n + k]
      <4>1. \A k \in 1 .. l : y[k] = B[j + k - 1]
        <5>1. Len(b) - j + 1 = l
          BY <2>1
        <5> QED BY <2>3, <5>1
      <4>2. \A k \in 1 .. l : j + k - 1 = s + n + k
        BY <2>1
      <4> QED BY <4>1, <4>2
    <3> QED BY <2>4, <3>1, <3>2, <3>3
  <2>6. x = y
    BY <2>2, <2>3, <2>5, SeqEqual
  <2> QED BY <2>6 DEF x, y
<1> QED BY <1>3 DEF A, B

\* The lines of a hunk take the lines of the one text and leave those of the other.
LEMMA ItemsApplied ==
    ASSUME NEW a \in Seq(LineRecords), NEW b \in Seq(LineRecords),
           NEW items, NEW s, NEW old, NEW new, Shape(items, a, b, s, old, new)
    PROVE  LinesApplied(BodiesOf(a), Applied(SubSeq(BodiesOf(b), 1, s), s), Plain(items))
             = Applied(SubSeq(BodiesOf(b), 1, s + new[Len(items)]), s + old[Len(items)])
<1> DEFINE p == Len(items)
           A == BodiesOf(a)
           B == BodiesOf(b)
           base == Applied(SubSeq(B, 1, s), s)
           lines == Plain(items)
<1>1. /\ items \in Seq(ItemRecords) /\ s \in Nat /\ s <= Len(b)
      /\ old \in [0 .. p -> Nat] /\ new \in [0 .. p -> Nat] /\ old[0] = 0 /\ new[0] = 0
      /\ \A k \in 1 .. p : /\ old[k] = old[k - 1] + (IF OnOld(items[k]) THEN 1 ELSE 0)
                           /\ new[k] = new[k - 1] + (IF OnNew(items[k]) THEN 1 ELSE 0)
      /\ \A k \in 1 .. p :
             /\ OnOld(items[k]) => s + old[k] \in 1 .. Len(a) /\ items[k].line = a[s + old[k]]
             /\ OnNew(items[k]) => s + new[k] \in 1 .. Len(b) /\ items[k].line = b[s + new[k]]
  BY DEF Shape, Counts, Around, Sides
<1>2. p \in Nat /\ \A k \in 1 .. p : items[k] \in ItemRecords
  BY <1>1, LenProperties, ElementOfSeq
<1>3. /\ A \in Seq(Bodies) /\ Len(A) = Len(a) /\ \A i \in 1 .. Len(a) : A[i] = a[i].body
      /\ B \in Seq(Bodies) /\ Len(B) = Len(b) /\ \A i \in 1 .. Len(b) : B[i] = b[i].body
      /\ Len(a) \in Nat /\ Len(b) \in Nat
  BY BodiesAre, LenProperties
<1>4. lines \in Seq(PatchLines) /\ Len(lines) = p /\ \A k \in 1 .. p : lines[k] = LineOf(items[k])
  BY <1>1, PiecesOfAre
<1> HIDE DEF A, B, lines
<1>5. base \in ApplyStates
  <2>1. SubSeq(B, 1, s) \in Seq(Bodies)
    <3>1. 1 \in Nat \ {0} /\ s \in Int /\ s <= Len(B)
      BY <1>1, <1>3
    <3> QED BY <1>3, <3>1, PartOf
  <2> QED BY <1>1, <2>1, StateTyped
<1> HIDE DEF base
<1>6. PICK run : AppliedSoFar(run, A, base, lines) /\ run[Len(lines)] = LinesApplied(A, base, lines)
  BY <1>3, <1>4, <1>5, LinesRun
<1>7. run[0] = base /\ \A i \in 1 .. p : run[i] = ApplyNext(A, run[i - 1], lines[i])
  BY <1>4, <1>6 DEF AppliedSoFar
<1> DEFINE Made(k) == SubSeq(B, 1, s + new[k])
           P == {k \in 0 .. p : run[k] = Applied(Made(k), s + old[k])}
<1>8. 0 \in P
  <2>1. s + new[0] = s /\ s + old[0] = s /\ 0 \in 0 .. p
    BY <1>1, <1>2
  <2> QED BY <1>7, <2>1 DEF base
<1>9. ASSUME NEW k \in 0 .. p, k < p, k \in P
      PROVE  k + 1 \in P
  <2> DEFINE item == items[k + 1]
             line == lines[k + 1]
             cursor == s + old[k]
             m == s + new[k]
             out == SubSeq(B, 1, m)
  <2>1. k + 1 \in 1 .. p /\ k + 1 \in 0 .. p /\ (k + 1) - 1 = k /\ item \in ItemRecords
    BY <1>2, <1>9
  <2>2. run[k + 1] = ApplyNext(A, Applied(out, cursor), line)
    BY <1>7, <1>9, <2>1
  <2>3. line = LineOf(item)
    BY <1>4, <2>1
  <2>4. line.tag = item.tag /\ line.body = item.line.body /\ item.tag \in {"=", "-", "+"}
    <3>1. line.tag = item.tag /\ line.body = item.line.body
      BY <2>3 DEF LineOf
    <3>2. item.tag \in {"=", "-", "+"}
      BY <2>1, ItemIs
    <3> QED BY <3>1, <3>2
  <2>0. /\ old[k] \in Nat /\ new[k] \in Nat
        /\ old[k + 1] = old[k] + (IF OnOld(item) THEN 1 ELSE 0)
        /\ new[k + 1] = new[k] + (IF OnNew(item) THEN 1 ELSE 0)
    BY <1>1, <2>1
  <2>5. cursor \in Nat /\ m \in Nat
    BY <1>1, <2>0
  <2>6. OnOld(item) => /\ s + old[k + 1] = cursor + 1 /\ cursor + 1 <= Len(A) /\ A[cursor + 1] = line.body
    <3>1. ASSUME OnOld(item)
          PROVE  /\ s + old[k + 1] = cursor + 1 /\ cursor + 1 <= Len(A) /\ A[cursor + 1] = line.body
      <4>1. s + old[k + 1] = cursor + 1
        BY <1>1, <2>0, <3>1
      <4>2. cursor + 1 \in 1 .. Len(a) /\ item.line = a[cursor + 1]
        BY <1>1, <2>1, <3>1, <4>1
      <4>3. A[cursor + 1] = a[cursor + 1].body
        BY <1>3, <4>2
      <4> QED BY <1>3, <2>4, <4>1, <4>2, <4>3
    <3> QED BY <3>1
  <2>7. ~OnOld(item) => s + old[k + 1] = cursor
    BY <1>1, <2>0
  <2>8. OnNew(item) => Made(k + 1) = Append(out, line.body)
    <3>1. ASSUME OnNew(item)
          PROVE  Made(k + 1) = Append(out, line.body)
      <4>1. s + new[k + 1] = m + 1
        BY <1>1, <2>0, <3>1
      <4>2. m + 1 \in 1 .. Len(b) /\ item.line = b[m + 1]
        BY <1>1, <2>1, <3>1, <4>1
      <4>3. B[m + 1] = line.body
        BY <1>3, <2>4, <4>2
      <4>4. SubSeq(B, 1, m + 1) = SubSeq(B, 1, m) \o <<B[m + 1]>>
        <5>1. 1 \in 1 .. Len(B) /\ m + 1 \in 1 .. Len(B) /\ (m + 1) - 1 = m
          BY <1>3, <2>5, <4>2
        <5> QED BY <1>3, <5>1, SubSeqRecursiveSecond
      <4>5. out \in Seq(Bodies) /\ line.body \in Bodies
        <5>1. 1 \in Nat \ {0} /\ m \in Int /\ m <= Len(B)
          BY <1>3, <2>5, <4>2
        <5>2. line.body \in Bodies
          BY <2>1, <2>4, ItemIs
        <5> QED BY <1>3, <5>1, <5>2, PartOf
      <4> HIDE DEF out, line
      <4>6. Append(out, line.body) = out \o <<line.body>>
        BY <4>5, AppendIsConcat
      <4> QED BY <4>1, <4>3, <4>4, <4>6 DEF out
    <3> QED BY <3>1
  <2>9. ~OnNew(item) => Made(k + 1) = out
    <3>1. ~OnNew(item) => s + new[k + 1] = m
      BY <1>1, <2>0
    <3> QED BY <3>1
  <2> DEFINE made == Made(k + 1)
             next == s + old[k + 1]
  <2> HIDE DEF item, line, cursor, m, out, made, next
  <2>10. run[k + 1] = Applied(made, next)
    <3>1. CASE item.tag = "+"
      <4>1. ~OnOld(item) /\ OnNew(item)
        BY <3>1 DEF OnOld, OnNew
      <4>2. ApplyNext(A, Applied(out, cursor), line) = Applied(Append(out, line.body), cursor)
        <5>1. line.tag = "+"
          BY <2>4, <3>1
        <5> QED BY <5>1, LineAdded
      <4> QED BY <2>2, <2>7, <2>8, <4>1, <4>2 DEF made, next
    <3>2. CASE item.tag \in {"=", "-"}
      <4>1. OnOld(item) /\ (OnNew(item) <=> line.tag = "=")
        BY <2>4, <3>2 DEF OnOld, OnNew
      <4>2. line.tag \in {"=", "-"} /\ cursor + 1 <= Len(A) /\ A[cursor + 1] = line.body
        BY <2>4, <2>6, <3>2, <4>1
      <4>3. ApplyNext(A, Applied(out, cursor), line)
              = Applied(IF line.tag = "=" THEN Append(out, line.body) ELSE out, cursor + 1)
        <5>1. A \in Seq(Bodies) /\ cursor \in Nat
          BY <1>3, <2>5
        <5>2. line.tag \in {"=", "-"}
          BY <4>2
        <5>3. cursor + 1 <= Len(A)
          BY <4>2
        <5>4. A[cursor + 1] = line.body
          BY <4>2
        <5> QED BY <5>1, <5>2, <5>3, <5>4, LineKept
      <4>4. made = (IF line.tag = "=" THEN Append(out, line.body) ELSE out) /\ next = cursor + 1
        BY <2>6, <2>8, <2>9, <4>1 DEF made, next
      <4> QED BY <2>2, <4>3, <4>4
    <3> QED BY <2>4, <3>1, <3>2
  <2> QED BY <2>1, <2>10 DEF made, next
<1>10. 0 .. p \subseteq P
  <2> HIDE DEF P
  <2> QED BY <1>2, <1>8, <1>9, UpTo
<1>11. run[p] = Applied(Made(p), s + old[p])
  <2>1. p \in 0 .. p
    BY <1>2
  <2>2. p \in P
    BY <1>10, <2>1
  <2> QED BY <2>2
<1> QED BY <1>4, <1>6, <1>11 DEF A, B, base, lines

-----------------------------------------------------------------------------
(* Applying a patch.                                                       *)

\* The hunks of a patch.
HunksApplied(source, base, hunks) ==
    FoldLeft(LAMBDA s, hunk : ApplyHunk(source, s, hunk), base, hunks)

\* A single hunk is applied once.
LEMMA OneApplied ==
    ASSUME NEW source \in Seq(Bodies), NEW base \in ApplyStates, NEW hunk \in HunkRecords
    PROVE  HunksApplied(source, base, <<hunk>>) = ApplyHunk(source, base, hunk)
<1> DEFINE X == ApplyStates
           hunks == <<hunk>>
           n == 1
           step == [i \in 1 .. n |-> [q \in X |-> ApplyHunk(source, q, hunks[i])]]
           body(g) == [s \in SUBSET (1 .. n) |-> IF s = {} THEN base ELSE ApplyHunk(source, g[s \ {Max(s)}], hunks[Max(s)])]
           iter == CHOOSE iter : iter = body(iter)
<1>1. n \in Nat /\ n = 1 /\ DOMAIN hunks = 1 .. n /\ hunks[1] = hunk /\ \A i \in 1 .. n : hunks[i] \in HunkRecords
  OBVIOUS
<1>2. HunksApplied(source, base, hunks) = iter[1 .. n]
  BY <1>1 DEF HunksApplied, FoldLeft, MapThenFoldSet
<1>3. \A i \in 1 .. n, q \in X : ApplyHunk(source, q, hunks[i]) \in X
  BY <1>1, HunkTyped
<1>4. base \in X
  OBVIOUS
<1> HIDE DEF X, hunks, n
<1>5. \A i \in 1 .. n : step[i] \in [X -> X] /\ \A q \in X : step[i][q] = ApplyHunk(source, q, hunks[i])
  <2>1. ASSUME NEW i \in 1 .. n
        PROVE  step[i] = [q \in X |-> ApplyHunk(source, q, hunks[i])]
    BY Zenon
  <2> HIDE DEF step
  <2> QED BY <1>3, <2>1
<1> HIDE DEF step
<1>6. PICK g \in SolutionsOf(base, step, n, X) : TRUE
  <2>1. SolutionsOf(base, step, n, X) # {}
    <3>1. FoldSteps(step, n, X)
      BY <1>5 DEF FoldSteps
    <3> QED BY <1>1, <1>4, <3>1, FoldSolution
  <2> QED BY <2>1
<1>7. g = body(g)
  <2>1. ASSUME NEW s \in SUBSET (1 .. n)
        PROVE  g[s] = body(g)[s]
    BY <1>1, <1>5, <1>6 DEF SolutionsOf
  <2> HIDE DEF body
  <2>2. body(g) = [s \in SUBSET (1 .. n) |-> body(g)[s]]
    BY DEF body
  <2> QED BY <1>6, <2>1, <2>2 DEF SolutionsOf
<1>8. iter = body(iter)
  <2> HIDE DEF body
  <2> QED BY <1>7
<1> HIDE DEF iter
<1>9. iter[{}] = base
  BY <1>8
<1>10. \A s \in SUBSET (1 .. n) : s # {} /\ iter[s \ {Max(s)}] \in X => iter[s] = step[Max(s)][iter[s \ {Max(s)}]]
  <2>1. \A s \in SUBSET (1 .. n) : s # {} => iter[s] = ApplyHunk(source, iter[s \ {Max(s)}], hunks[Max(s)]) /\ Max(s) \in 1 .. n
    BY <1>1, <1>8, MaxIn
  <2> QED BY <1>1, <1>5, <2>1
<1> HIDE DEF body
<1>11. PICK run \in RunOf(base, step, n, X) : run[n] = iter[1 .. n]
  <2>1. Solves(iter, base, step, n, X)
    BY <1>9, <1>10 DEF Solves
  <2>2. FoldSteps(step, n, X)
    BY <1>5 DEF FoldSteps
  <2>3. n \in Nat
    BY <1>1
  <2> QED BY <1>4, <2>1, <2>2, <2>3, FoldIsRun
<1>12. run[n] = ApplyHunk(source, base, hunk)
  <2>1. n \in 1 .. n /\ n - 1 = 0 /\ run[0] = base
    BY <1>1, <1>11 DEF RunOf
  <2>2. run[n] = step[n][run[0]]
    BY <1>11, <2>1 DEF RunOf
  <2> QED BY <1>1, <1>4, <1>5, <2>1, <2>2
<1> QED BY <1>2, <1>11, <1>12 DEF hunks

HunkFrom(items, s) == [oldStart |-> s + 1, lines |-> Plain(items), newFinalNewline |-> AllEnded(items, Len(items))]

\* A hunk of two lists leads from the one to the other.
LEMMA HunkDoes ==
    ASSUME NEW a \in Seq(LineRecords), NEW b \in Seq(LineRecords),
           NEW items, NEW s, NEW old, NEW new, Shape(items, a, b, s, old, new)
    PROVE  /\ HunkFrom(items, s) \in HunkRecords
           /\ ApplyHunk(BodiesOf(a), Applied(<<>>, 0), HunkFrom(items, s))
                = Applied(SubSeq(BodiesOf(b), 1, s + new[Len(items)]), s + old[Len(items)])
<1> DEFINE A == BodiesOf(a)
           B == BodiesOf(b)
           hunk == HunkFrom(items, s)
           start == Max({0, hunk.oldStart - 1})
           state == Applied(<<>>, 0)
           lines == Plain(items)
           newline == AllEnded(items, Len(items))
<1>1. /\ items \in Seq(ItemRecords) /\ s \in Nat /\ s <= Len(a)
      /\ Around(a, b, s, old[Len(items)], new[Len(items)])
      /\ old \in [0 .. Len(items) -> Nat] /\ new \in [0 .. Len(items) -> Nat]
  BY DEF Shape, Around, Counts
<1>2. lines \in Seq(PatchLines) /\ newline \in BOOLEAN
  BY <1>1, PiecesOfAre DEF AllEnded
<1>3. hunk = [oldStart |-> s + 1, lines |-> lines, newFinalNewline |-> newline]
  BY DEF HunkFrom
<1>4. hunk \in HunkRecords /\ hunk.oldStart = s + 1 /\ hunk.lines = lines
  <2>1. s + 1 \in Int
    BY <1>1
  <2> HIDE DEF hunk, lines, newline
  <2> QED BY <1>2, <1>3, <2>1 DEF HunkRecords
<1> HIDE DEF hunk
<1>5. start = s
  <2> DEFINE S == {0, s}
  <2>1. \E i \in S : \A j \in S : i >= j
    BY <1>1
  <2>2. Max(S) \in S /\ \A j \in S : Max(S) >= j
    BY <2>1 DEF Max
  <2>3. Max(S) = s
    BY <1>1, <2>2
  <2>4. hunk.oldStart - 1 = s
    BY <1>1, <1>4
  <2> QED BY <2>3, <2>4
<1>6. state.ok = TRUE /\ state.out = <<>> /\ state.cursor = 0
  BY DEF Applied
<1>7. A \in Seq(Bodies) /\ Len(A) = Len(a) /\ Len(a) \in Nat
  BY BodiesAre, LenProperties
<1> HIDE DEF A, B, start, state, lines
<1>8. ~(~state.ok \/ start < state.cursor \/ start > Len(A))
  <2>1. ~(start < state.cursor) /\ ~(start > Len(A))
    BY <1>1, <1>5, <1>6, <1>7
  <2> QED BY <1>6, <2>1
<1> DEFINE entered == [out |-> state.out \o SubSeq(A, state.cursor + 1, start), cursor |-> start, ok |-> state.ok]
<1>9. ApplyHunk(A, state, hunk) = LinesApplied(A, entered, hunk.lines)
  BY <1>8 DEF ApplyHunk, LinesApplied, start
<1>10. entered = Applied(SubSeq(B, 1, s), s)
  <2>1. old[Len(items)] \in Nat /\ new[Len(items)] \in Nat
    <3>1. Len(items) \in 0 .. Len(items)
      BY <1>1, LenProperties
    <3> QED BY <1>1, <3>1
  <2>2. SubSeq(A, 1, s) = SubSeq(B, 1, s)
    <3> DEFINE m == old[Len(items)]
               n == new[Len(items)]
    <3>1. m \in Nat /\ n \in Nat /\ Around(a, b, s, m, n)
      BY <1>1, <2>1
    <3> HIDE DEF m, n
    <3>2. SubSeq(BodiesOf(a), 1, s) = SubSeq(BodiesOf(b), 1, s)
      <4>1. m \in Nat /\ n \in Nat
        BY <3>1
      <4>2. Around(a, b, s, m, n)
        BY <3>1
      <4>3. s \in Nat
        BY <1>1
      <4> QED BY <4>1, <4>2, <4>3, BodiesBefore
    <3> QED BY <3>2 DEF A, B
  <2>3. 0 + 1 = 1
    OBVIOUS
  <2> DEFINE x == SubSeq(A, 1, s)
  <2>4. x \in Seq(Bodies)
    <3>1. 1 \in Nat \ {0} /\ s \in Int /\ s <= Len(A)
      BY <1>1, <1>7
    <3> QED BY <1>7, <3>1, PartOf
  <2>5. entered = [out |-> <<>> \o x, cursor |-> s, ok |-> TRUE]
    BY <1>5, <1>6, <2>3
  <2>6. <<>> \o x = x
    <3> HIDE DEF x
    <3> QED BY <2>4, ConcatEmptySeq
  <2> QED BY <2>2, <2>5, <2>6 DEF Applied
<1>11. LinesApplied(A, Applied(SubSeq(B, 1, s), s), lines) = Applied(SubSeq(B, 1, s + new[Len(items)]), s + old[Len(items)])
  BY ItemsApplied DEF A, B, lines
<1> QED BY <1>4, <1>9, <1>10, <1>11 DEF A, B, hunk, state

\* The lines of a text are texts.
LEMMA SourceTyped ==
    ASSUME NEW t \in Seq(Letters)
    PROVE  SourceLines(t) \in Seq(Bodies)
<1>1. SourceLines(t) = IF Trimmed(t) = <<>> THEN <<>> ELSE SplitAtLF(Trimmed(t))
  BY DEF SourceLines, Trimmed
<1>2. SplitAtLF(Trimmed(t)) \in Seq(Bodies)
  BY TrimmedIs, SplitJoined
<1> QED BY <1>1, <1>2

\* What the hunks of a patch make of a text.
Finished(source, done) == done.out \o SubSeq(source, done.cursor + 1, Len(source))
EndingOf(t, hunk, cursor, source) == IF cursor >= Len(source) THEN hunk.newFinalNewline ELSE EndsInLF(t)
LineEnd(out, newline) == IF out # <<>> /\ newline THEN <<"lf">> ELSE <<>>
HunkDone(t, hunk, source, done, out) ==
    /\ source = SourceLines(t) /\ done = ApplyHunk(source, Applied(<<>>, 0), hunk)
    /\ out = Finished(source, done)
HunkResult(t, hunk, source, done, out) ==
    /\ out \in Seq(Bodies)
    /\ ApplyHunks(t, <<hunk>>)
         = [ok |-> done.ok, text |-> Joined(out) \o LineEnd(out, EndingOf(t, hunk, done.cursor, source))]
    /\ ApplyHunks(t, <<hunk>>).text \in Seq(Letters)

\* What a patch of one hunk makes of a text follows from what the hunk makes of its lines.
LEMMA HunksDo ==
    ASSUME NEW t \in Seq(Letters), NEW hunk \in HunkRecords,
           NEW source, NEW done, NEW out, HunkDone(t, hunk, source, done, out)
    PROVE  HunkResult(t, hunk, source, done, out)
<1> DEFINE base == [out |-> <<>>, cursor |-> 0, ok |-> TRUE]
           hunks == <<hunk>>
           e == LineEnd(out, EndingOf(t, hunk, done.cursor, source))
<1>0. /\ source = SourceLines(t) /\ done = ApplyHunk(source, Applied(<<>>, 0), hunk)
      /\ out = done.out \o SubSeq(source, done.cursor + 1, Len(source))
  BY DEF HunkDone, Finished
<1>1. source \in Seq(Bodies)
  BY <1>0, SourceTyped
<1>2. base = Applied(<<>>, 0) /\ base \in ApplyStates
  <2>1. <<>> \in Seq(Bodies) /\ 0 \in Nat
    BY EmptySeq
  <2>2. Applied(<<>>, 0) \in ApplyStates
    <3> DEFINE none == <<>>
               zero == 0
    <3>1. none \in Seq(Bodies) /\ zero \in Nat
      BY <2>1
    <3> HIDE DEF none, zero
    <3>2. Applied(none, zero) \in ApplyStates
      BY <3>1, StateTyped
    <3> QED BY <3>2 DEF none, zero
  <2> QED BY <2>2 DEF Applied
<1> HIDE DEF base
<1>3. HunksApplied(source, base, hunks) = done
  BY <1>0, <1>1, <1>2, OneApplied
<1>4. done \in ApplyStates
  BY <1>0, <1>1, <1>2, HunkTyped
<1>5. hunks # <<>> /\ Last(hunks) = hunk
  BY DEF Last
<1>6. ApplyHunks(t, hunks) = [ok |-> done.ok, text |-> Joined(out) \o e]
  <2> DEFINE newline == IF hunks # <<>> /\ done.cursor >= Len(source)
                        THEN Last(hunks).newFinalNewline ELSE EndsInLF(t)
  <2> HIDE DEF hunks
  <2>1. ApplyHunks(t, hunks)
          = [ok |-> done.ok, text |-> Joined(out) \o IF out # <<>> /\ newline THEN <<"lf">> ELSE <<>>]
    <3>1. HunksApplied(SourceLines(t), base, hunks) = done
      BY <1>0, <1>3
    <3>2. out = done.out \o SubSeq(SourceLines(t), done.cursor + 1, Len(SourceLines(t)))
      BY <1>0
    <3>3. newline = IF hunks # <<>> /\ done.cursor >= Len(SourceLines(t))
                    THEN Last(hunks).newFinalNewline ELSE EndsInLF(t)
      BY <1>0
    <3> HIDE DEF newline
    <3> QED BY <3>1, <3>2, <3>3 DEF ApplyHunks, HunksApplied, base
  <2>2. newline = EndingOf(t, hunk, done.cursor, source)
    BY <1>5 DEF EndingOf
  <2> HIDE DEF newline
  <2>3. (IF out # <<>> /\ newline THEN <<"lf">> ELSE <<>>) = LineEnd(out, newline)
    BY DEF LineEnd
  <2> QED BY <2>1, <2>2, <2>3
<1>7. out \in Seq(Bodies)
  <2>1. done.out \in Seq(Bodies) /\ done.cursor \in Nat
    BY <1>4, StateIs
  <2>2. done.cursor + 1 \in Nat \ {0} /\ Len(source) \in Int /\ Len(source) <= Len(source)
    BY <1>1, <2>1, LenProperties
  <2>3. SubSeq(source, done.cursor + 1, Len(source)) \in Seq(Bodies)
    BY <1>1, <2>2, PartOf
  <2> QED BY <1>0, <2>1, <2>3, ConcatProperties
<1>8. Joined(out) \in Seq(Letters)
  BY <1>7, LinksAre
<1>9. ApplyHunks(t, hunks).text \in Seq(Letters)
  <2>1. <<"lf">> \in Seq(Letters) /\ <<>> \in Seq(Letters)
    BY LettersAre
  <2>2. e \in Seq(Letters)
    BY <2>1 DEF LineEnd
  <2> HIDE DEF e
  <2>3. Joined(out) \o e \in Seq(Letters)
    BY <1>8, <2>2, ConcatProperties
  <2> DEFINE u == Joined(out) \o e
  <2> HIDE DEF u, hunks
  <2>4. ApplyHunks(t, hunks).text = u
    BY <1>6 DEF u
  <2> QED BY <2>3, <2>4 DEF u
<1> QED BY <1>6, <1>7, <1>9 DEF HunkResult

\* The patch of a diff has one hunk, of the shape of the two lists.
LEMMA PatchIs ==
    ASSUME NEW a \in Seq(LineRecords), NEW b \in Seq(LineRecords)
    PROVE  \E items, s, old, new :
              Shape(items, a, b, s, old, new) /\ ParseUnifiedPatch(HunkOf(a, b)) = <<HunkFrom(items, s)>>
<1>1. PICK items, s, e, o, w, f, t :
          /\ HunkPlace(a, b, s, e, o, w, f, t) /\ HunkParts(items, a, b, s, e, o, w, f)
          /\ HunkOf(a, b) = <<Header(s, e + o + f, e + w + f)>> \o WrittenOut(items)
  BY HunkIs
<1>2. PICK old, new : /\ Shape(items, a, b, s, old, new)
                      /\ old[Len(items)] = e + o + f /\ new[Len(items)] = e + w + f
  BY <1>1, ShapeIs
<1>3. ParseUnifiedPatch(<<Header(s, old[Len(items)], new[Len(items)])>> \o WrittenOut(items)) = <<HunkFrom(items, s)>>
  BY <1>2, HunkParsed DEF HunkFrom
<1> QED BY <1>1, <1>2, <1>3

\* What follows the hunk completes the second list.
Before(k, j) == j = k + 1
Completes(a, b, i, k) == SubSeq(BodiesOf(b), 1, k) \o SubSeq(BodiesOf(a), i, Len(BodiesOf(a))) = BodiesOf(b)

\* So they complete the second list.
LEMMA LinesCompleted ==
    ASSUME NEW a \in Seq(LineRecords), NEW b \in Seq(LineRecords),
           NEW s \in Nat, NEW m \in Nat, NEW n \in Nat, Around(a, b, s, m, n),
           NEW i \in Nat, NEW j \in Nat, NEW k \in Nat, Behind(s, m, i), Behind(s, n, j), Before(k, j)
    PROVE  Completes(a, b, i, k)
<1> DEFINE B == BodiesOf(b)
<1>1. B \in Seq(Bodies) /\ Len(B) = Len(b) /\ Len(BodiesOf(a)) = Len(a) /\ Len(b) \in Nat
  BY BodiesAre, LenProperties
<1>2. j = k + 1 /\ k = s + n
  BY DEF Behind, Before
<1>3. k <= Len(b)
  BY <1>2 DEF Around
<1>4. SubSeq(BodiesOf(a), i, Len(a)) = SubSeq(BodiesOf(b), j, Len(b))
  BY BodiesAfter
<1> HIDE DEF B
<1>5. 1 \in 1 .. Len(B) + 1 /\ k \in 1 - 1 .. Len(B) /\ Len(B) \in k .. Len(B)
  BY <1>1, <1>3
<1>6. SubSeq(B, 1, k) \o SubSeq(B, k + 1, Len(B)) = SubSeq(B, 1, Len(B))
  BY <1>1, <1>5, ConcatAdjacentSubSeq
<1>7. SubSeq(B, 1, Len(B)) = B
  BY <1>1, SubSeqFull
<1>8. SubSeq(B, 1, k) \o SubSeq(BodiesOf(a), i, Len(BodiesOf(a))) = B
  BY <1>1, <1>2, <1>4, <1>6, <1>7 DEF B
<1> QED BY <1>8 DEF B, Completes

\* The last line of the new text ends as that text does.
LEMMA EndingIs ==
    ASSUME NEW t \in Seq(Letters), NEW u \in Seq(Letters),
           NEW a, a = DiffLines(t), NEW b, b = DiffLines(u), b # <<>>,
           NEW items, NEW s, NEW old, NEW new, Shape(items, a, b, s, old, new),
           NEW source, Len(source) = Len(a)
    PROVE  EndingOf(t, HunkFrom(items, s), s + old[Len(items)], source) <=> EndsInLF(u)
<1> DEFINE p == Len(items)
<1>1. /\ a \in Seq(LineRecords) /\ \A i \in 1 .. Len(a) : a[i].ended <=> i < Len(a) \/ EndsInLF(t)
      /\ b \in Seq(LineRecords) /\ \A i \in 1 .. Len(b) : b[i].ended <=> i < Len(b) \/ EndsInLF(u)
  BY DiffLinesAre
<1>2. Len(a) \in Nat /\ Len(b) \in Nat /\ Len(b) > 0
  BY <1>1, LenProperties, EmptySeq
<1>3. items \in Seq(ItemRecords) /\ p \in Nat
  BY LenProperties DEF Shape
<1>4. s \in Nat /\ old[p] \in Nat /\ new[p] \in Nat /\ Around(a, b, s, old[p], new[p])
  BY <1>3 DEF Shape, Counts, Around
<1>5. HunkFrom(items, s).newFinalNewline = AllEnded(items, p)
  BY DEF HunkFrom
<1>6. CASE s + old[p] >= Len(a)
  <2>1. s + old[p] = Len(a)
    BY <1>2, <1>4, <1>6 DEF Around
  <2>2. EndingOf(t, HunkFrom(items, s), s + old[p], source) = AllEnded(items, p)
    BY <1>5, <1>6 DEF EndingOf
  <2>3. PICK k \in 1 .. p : OnNew(items[k]) /\ s + new[k] = Len(b)
    BY <1>2, <2>1 DEF Shape, Reaches
  <2>4. \A i \in 1 .. p : OnNew(items[i]) => s + new[i] \in 1 .. Len(b) /\ items[i].line = b[s + new[i]]
    BY DEF Shape, Sides
  <2>5. CASE EndsInLF(u)
    <3>1. \A i \in 1 .. p : OnNew(items[i]) => items[i].line.ended
      BY <1>1, <2>4, <2>5
    <3> QED BY <2>2, <2>5, <3>1 DEF AllEnded
  <2>6. CASE ~EndsInLF(u)
    <3>1. items[k].line = b[Len(b)] /\ Len(b) \in 1 .. Len(b) /\ ~(Len(b) < Len(b))
      BY <1>2, <2>3, <2>4
    <3>2. ~b[Len(b)].ended
      BY <1>1, <2>6, <3>1
    <3>3. ~AllEnded(items, p)
      BY <2>3, <3>1, <3>2 DEF AllEnded
    <3> QED BY <2>2, <2>6, <3>3
  <2> QED BY <2>5, <2>6
<1>7. CASE ~(s + old[p] >= Len(a))
  <2>1. EndingOf(t, HunkFrom(items, s), s + old[p], source) = EndsInLF(t)
    BY <1>7 DEF EndingOf
  <2> DEFINE d == Len(a) - s - old[p]
  <2>2. d \in 1 .. (Len(a) - s - old[p]) /\ s + old[p] + d = Len(a) /\ s + new[p] + d = Len(b)
    <3>1. s + old[p] <= Len(a) /\ s + new[p] <= Len(b) /\ Len(a) - old[p] = Len(b) - new[p]
      BY <1>4 DEF Around
    <3>2. Len(a) \in Nat /\ Len(b) \in Nat /\ s \in Nat /\ old[p] \in Nat /\ new[p] \in Nat /\ ~(s + old[p] >= Len(a))
      BY <1>2, <1>4, <1>7
    <3> DEFINE c == Len(a)
               g == Len(b)
               m == old[p]
               n == new[p]
    <3>3. /\ c \in Nat /\ g \in Nat /\ s \in Nat /\ m \in Nat /\ n \in Nat /\ ~(s + m >= c)
          /\ s + m <= c /\ s + n <= g /\ c - m = g - n
      BY <3>1, <3>2
    <3> HIDE DEF c, g, m, n
    <3>4. c - s - m \in 1 .. (c - s - m) /\ s + m + (c - s - m) = c /\ s + n + (c - s - m) = g
      BY <3>3
    <3> QED BY <3>4 DEF c, g, m, n
  <2> HIDE DEF d
  <2>3. a[Len(a)] = b[Len(b)]
    BY <1>4, <2>2 DEF Around
  <2>4. Len(a) \in 1 .. Len(a) /\ Len(b) \in 1 .. Len(b) /\ ~(Len(a) < Len(a)) /\ ~(Len(b) < Len(b))
    BY <1>2, <1>4, <1>7
  <2>5. EndsInLF(t) <=> EndsInLF(u)
    BY <1>1, <2>3, <2>4
  <2> QED BY <2>1, <2>5
<1> QED BY <1>6, <1>7

\* A patch leaves a text; the diff of a text leads to the text it was made for.
LEMMA PatchDoes ==
    ASSUME NEW t \in Seq(Letters), NEW u \in Seq(Letters)
    PROVE  /\ ApplyHunks(t, ParseUnifiedPatch(DiffOf(t, u))).text \in Seq(Letters)
           /\ t # <<"lf">> => /\ ApplyHunks(t, ParseUnifiedPatch(DiffOf(t, u))).ok = TRUE
                              /\ ApplyHunks(t, ParseUnifiedPatch(DiffOf(t, u))).text = u
<1> DEFINE a == DiffLines(t)
           b == DiffLines(u)
           source == SourceLines(t)
<1>1. a \in Seq(LineRecords) /\ b \in Seq(LineRecords)
  BY DiffLinesAre
<1>2. /\ Joined(BodiesOf(b)) \o EndOf(b, EndsInLF(u)) = u
      /\ t # <<"lf">> => source = BodiesOf(a)
  BY DiffLinesAre
<1>3. ParseUnifiedPatch(DiffOf(t, u)) = ParseUnifiedPatch(HunkOf(a, b))
  BY DEF DiffOf
<1> DEFINE aa == a
           bb == b
<1>4. aa = DiffLines(t) /\ bb = DiffLines(u) /\ aa = a /\ bb = b
  OBVIOUS
<1> HIDE DEF aa, bb
<1>5. PICK items, s, old, new :
          Shape(items, aa, bb, s, old, new) /\ ParseUnifiedPatch(HunkOf(aa, bb)) = <<HunkFrom(items, s)>>
  BY <1>1, <1>4, PatchIs
<1> DEFINE hunk == HunkFrom(items, s)
           done == ApplyHunk(source, Applied(<<>>, 0), hunk)
           out == done.out \o SubSeq(source, done.cursor + 1, Len(source))
           m == old[Len(items)]
           n == new[Len(items)]
<1>6. /\ hunk \in HunkRecords
      /\ ApplyHunk(BodiesOf(aa), Applied(<<>>, 0), hunk) = Applied(SubSeq(BodiesOf(bb), 1, s + n), s + m)
  BY <1>1, <1>4, <1>5, HunkDoes
<1>7. source = SourceLines(t) /\ done = ApplyHunk(source, Applied(<<>>, 0), hunk)
      /\ out = done.out \o SubSeq(source, done.cursor + 1, Len(source))
  OBVIOUS
<1>8. s \in Nat /\ m \in Nat /\ n \in Nat /\ Around(aa, bb, s, m, n)
  <2>1. items \in Seq(ItemRecords) /\ old \in [0 .. Len(items) -> Nat] /\ new \in [0 .. Len(items) -> Nat]
        /\ s \in Nat /\ Around(aa, bb, s, m, n)
    BY <1>5 DEF Shape, Counts, Around
  <2>2. Len(items) \in 0 .. Len(items)
    BY <2>1, LenProperties
  <2> QED BY <2>1, <2>2
<1> HIDE DEF a, b, source, hunk, done, out, m, n
<1>9. /\ out \in Seq(Bodies)
      /\ ApplyHunks(t, <<hunk>>)
           = [ok |-> done.ok, text |-> Joined(out) \o LineEnd(out, EndingOf(t, hunk, done.cursor, source))]
      /\ ApplyHunks(t, <<hunk>>).text \in Seq(Letters)
  <2>1. hunk \in HunkRecords
    BY <1>6
  <2>2. source = SourceLines(t)
    BY <1>7
  <2>3. done = ApplyHunk(source, Applied(<<>>, 0), hunk)
    BY <1>7
  <2>4. out = done.out \o SubSeq(source, done.cursor + 1, Len(source))
    BY <1>7
  <2>5. out = Finished(source, done)
    BY <2>4 DEF Finished
  <2>6. HunkDone(t, hunk, source, done, out)
    BY <2>2, <2>3, <2>5 DEF HunkDone
  <2>7. HunkResult(t, hunk, source, done, out)
    BY <2>1, <2>6, HunksDo
  <2> QED BY <2>7 DEF HunkResult
<1>10. ASSUME t # <<"lf">>
       PROVE  ApplyHunks(t, <<hunk>>).ok = TRUE /\ ApplyHunks(t, <<hunk>>).text = u
  <2>1. source = BodiesOf(aa) /\ Len(BodiesOf(aa)) = Len(aa)
    BY <1>1, <1>2, <1>4, <1>10, BodiesAre
  <2>2. done = Applied(SubSeq(BodiesOf(bb), 1, s + n), s + m)
    BY <1>6, <1>7, <2>1
  <2>3. done.ok = TRUE /\ done.out = SubSeq(BodiesOf(bb), 1, s + n) /\ done.cursor = s + m
    BY <2>2 DEF Applied
  <2>4. SubSeq(BodiesOf(bb), 1, s + n) \o SubSeq(BodiesOf(aa), s + m + 1, Len(BodiesOf(aa))) = BodiesOf(bb)
    <3>1. aa \in Seq(LineRecords) /\ bb \in Seq(LineRecords)
      BY <1>1, <1>4
    <3>2. s \in Nat /\ m \in Nat /\ n \in Nat
      BY <1>8
    <3>3. Around(aa, bb, s, m, n)
      BY <1>8
    <3> DEFINE i == s + m + 1
               j == s + n + 1
               k == s + n
    <3>4. i \in Nat /\ j \in Nat /\ k \in Nat /\ Behind(s, m, i) /\ Behind(s, n, j) /\ Before(k, j)
      BY <3>2 DEF Behind, Before
    <3> HIDE DEF i, j, k
    <3>5. Completes(aa, bb, i, k)
      BY <3>1, <3>2, <3>3, <3>4, LinesCompleted
    <3> QED BY <3>5 DEF i, k, Completes
  <2>5. out = BodiesOf(bb)
    BY <1>7, <2>1, <2>3, <2>4
  <2>6. out = <<>> <=> bb = <<>>
    BY <1>1, <1>4, <2>5, BodiesAre, EmptySeq
  <2>7. LineEnd(out, EndingOf(t, hunk, done.cursor, source)) = EndOf(bb, EndsInLF(u))
    <3>1. CASE bb = <<>>
      BY <2>6, <3>1 DEF LineEnd, EndOf
    <3>2. CASE bb # <<>>
      <4>1. EndingOf(t, hunk, s + m, source) <=> EndsInLF(u)
        <5>1. Len(source) = Len(aa)
          BY <2>1
        <5> QED BY <1>4, <1>5, <3>2, <5>1, EndingIs DEF hunk, m
      <4> QED BY <2>3, <2>6, <3>2, <4>1 DEF LineEnd, EndOf
    <3> QED BY <3>1, <3>2
  <2>8. Joined(out) \o LineEnd(out, EndingOf(t, hunk, done.cursor, source)) = u
    <3>1. Joined(BodiesOf(bb)) \o EndOf(bb, EndsInLF(u)) = u
      BY <1>2, <1>4
    <3> DEFINE x == LineEnd(out, EndingOf(t, hunk, done.cursor, source))
               y == EndOf(bb, EndsInLF(u))
    <3>2. x = y
      BY <2>7
    <3>3. Joined(BodiesOf(bb)) \o y = u
      BY <3>1
    <3> HIDE DEF x, y
    <3>4. Joined(out) \o x = u
      BY <2>5, <3>2, <3>3
    <3> QED BY <3>4 DEF x
  <2> DEFINE v == Joined(out) \o LineEnd(out, EndingOf(t, hunk, done.cursor, source))
  <2>9. ApplyHunks(t, <<hunk>>) = [ok |-> done.ok, text |-> v] /\ v = u
    BY <1>9, <2>8
  <2> HIDE DEF v
  <2> QED BY <2>3, <2>9
<1>11. ParseUnifiedPatch(DiffOf(t, u)) = <<hunk>>
  BY <1>3, <1>4, <1>5 DEF hunk
<1> QED BY <1>9, <1>10, <1>11

-----------------------------------------------------------------------------
(* The calls on one file.                                                  *)

\* apply_patch leaves a text; with the diff to a target it reports success and the file reads
\* like the target.
LEMMA PatchedDoes ==
    ASSUME NEW t \in Seq(Letters), NEW target \in DiffTargets,
           NEW hunks, hunks = ParseUnifiedPatch(DiffOf(ToLF(t), target))
    PROVE  /\ Patched(t, hunks).text \in Seq(Letters)
           /\ ToLF(t) # <<"lf">> => Patched(t, hunks).report = "applied" /\ ToLF(Patched(t, hunks).text) = target
<1> DEFINE applied == ApplyHunks(ToLF(t), hunks)
<1>1. ToLF(t) \in Seq(Letters)
  BY LFIs
<1>2. target \in Seq(Letters \ {"crlf"})
  BY TextAssumption
<1>3. target \in Seq(Letters)
  <2>1. Letters \ {"crlf"} \subseteq Letters
    OBVIOUS
  <2> QED BY <1>2, <2>1, SeqMonotonic
<1>4. /\ applied.text \in Seq(Letters)
      /\ ToLF(t) # <<"lf">> => applied.ok = TRUE /\ applied.text = target
  BY <1>1, <1>3, PatchDoes
<1>5. Patched(t, hunks) = IF applied.ok THEN [text |-> Encoded(applied.text, t), report |-> "applied"]
                          ELSE [text |-> t, report |-> "failed"]
  BY DEF Patched
<1> HIDE DEF applied
<1>6. Encoded(applied.text, t) \in Seq(Letters)
  BY <1>4, EncodedIs
<1>7. Patched(t, hunks).text \in Seq(Letters)
  BY <1>5, <1>6
<1>8. ASSUME ToLF(t) # <<"lf">>
      PROVE  Patched(t, hunks).report = "applied" /\ ToLF(Patched(t, hunks).text) = target
  <2>1. applied.ok = TRUE /\ applied.text = target
    BY <1>4, <1>8
  <2>2. ToLF(Encoded(target, t)) = target
    BY <1>2, <1>3, EncodedIs
  <2>3. Patched(t, hunks) = [text |-> Encoded(target, t), report |-> "applied"]
    BY <1>5, <2>1
  <2> QED BY <2>2, <2>3
<1> QED BY <1>7, <1>8

\* The invariant: the file is a text, and the last call did what was asked.
TextInv == text \in Seq(Letters) /\ ChangesAreExact

\* A call with edits does what was asked.
LEMMA EditKeepsText ==
    ASSUME TextInv, NEW edits \in Edits, Edit(edits)
    PROVE  TextInv'
<1>1. text \in Seq(Letters)
  BY DEF TextInv
<1>2. edits \in Seq(EditRecords)
  BY TextAssumption DEF EditRecords
<1> DEFINE r == MultiEdit(text, edits)
<1>3. /\ r.text \in Seq(Letters)
      /\ /\ r.report = "edited" /\ Len(edits) = 1
         /\ ~edits[1].all /\ PlacesOf(text, edits[1]) # {}
         => \E i \in PlacesOf(text, edits[1]) : r.text = ChangedAt(text, edits[1], i)
  BY <1>1, <1>2, MultiEditDoes
<1>4. text' = r.text /\ last' = [NoChange EXCEPT !.tool = "edit", !.before = text, !.edits = edits, !.report = r.report]
  BY DEF Edit
<1> HIDE DEF r
<1>5. last'.tool = "edit" /\ last'.before = text /\ last'.edits = edits /\ last'.report = r.report
  BY <1>4 DEF NoChange
<1>6. EditIsLocal'
  <2> SUFFICES ASSUME last'.tool = "edit" /\ last'.report = "edited" /\ Len(last'.edits) = 1
               PROVE  LET edit == last'.edits[1]
                          n == Len(edit.old)
                          at == {i \in 1..(Len(last'.before) - n + 1) :
                                   ToLF(SubSeq(last'.before, i, i + n - 1)) = ToLF(edit.old)}
                      IN  (~edit.all /\ at # {}) =>
                              \E i \in at : text' = SubSeq(last'.before, 1, i - 1)
                                                  \o Encoded(ToLF(edit.new), last'.before)
                                                  \o SubSeq(last'.before, i + n, Len(last'.before))
    BY DEF EditIsLocal
  <2> DEFINE edit == edits[1]
             at == {i \in 1..(Len(text) - Len(edit.old) + 1) :
                      ToLF(SubSeq(text, i, i + Len(edit.old) - 1)) = ToLF(edit.old)}
  <2>1. at = PlacesOf(text, edit)
    BY DEF PlacesOf
  <2>2. ~edit.all /\ at # {} => \E i \in at : text' = ChangedAt(text, edit, i)
    BY <1>3, <1>4, <1>5, <2>1
  <2>3. ~edit.all /\ at # {} => \E i \in at : text' = SubSeq(text, 1, i - 1) \o Encoded(ToLF(edit.new), text)
                                                    \o SubSeq(text, i + Len(edit.old), Len(text))
    BY <2>2 DEF ChangedAt
  <2> QED BY <1>5, <2>3
<1>7. PatchGivesTarget'
  BY <1>5 DEF PatchGivesTarget
<1> QED BY <1>3, <1>4, <1>6, <1>7 DEF TextInv, ChangesAreExact

\* A call with a patch does what was asked.
LEMMA PatchKeepsText ==
    ASSUME TextInv, NEW target \in DiffTargets, Patch(target)
    PROVE  TextInv'
<1>1. text \in Seq(Letters)
  BY DEF TextInv
<1> DEFINE hunks == ParseUnifiedPatch(DiffOf(ToLF(text), target))
           r == Patched(text, hunks)
<1>2. hunks = ParseUnifiedPatch(DiffOf(ToLF(text), target))
  OBVIOUS
<1>3. text' = r.text /\ last' = [NoChange EXCEPT !.tool = "patch", !.before = text, !.target = target, !.report = r.report]
  BY DEF Patch
<1> HIDE DEF hunks
<1>4. /\ r.text \in Seq(Letters)
      /\ ToLF(text) # <<"lf">> => r.report = "applied" /\ ToLF(r.text) = target
  BY <1>1, <1>2, PatchedDoes
<1> HIDE DEF r
<1>5. last'.tool = "patch" /\ last'.before = text /\ last'.target = target /\ last'.report = r.report
  BY <1>3 DEF NoChange
<1>6. EditIsLocal'
  BY <1>5 DEF EditIsLocal
<1>7. PatchGivesTarget'
  <2>1. PatchGivesTarget' <=> (last'.tool = "patch" /\ ToLF(last'.before) # <<"lf">> =>
                                 last'.report = "applied" /\ ToLF(text') = last'.target)
    BY DEF PatchGivesTarget, ToLF
  <2> QED BY <1>3, <1>4, <1>5, <2>1
<1> QED BY <1>3, <1>4, <1>6, <1>7 DEF TextInv, ChangesAreExact

\* Whatever the texts and the edits and for any number of calls, a change does what was
\* asked and nothing else (applyEditText, files.go:470, applyHunks, patch.go:194).
THEOREM ChangesAlwaysExact == TextSpec => []ChangesAreExact
<1>1. TextInit => TextInv
  <2> SUFFICES ASSUME TextInit PROVE TextInv
    OBVIOUS
  <2>1. text \in Seq(Letters)
    BY TextAssumption DEF TextInit
  <2>2. last.tool = "none"
    BY DEF TextInit, NoChange
  <2>3. EditIsLocal /\ PatchGivesTarget
    BY <2>2 DEF EditIsLocal, PatchGivesTarget
  <2> QED BY <2>1, <2>3 DEF TextInv, ChangesAreExact
<1>2. TextInv /\ [TextNext]_textVars => TextInv'
  <2> SUFFICES ASSUME TextInv, [TextNext]_textVars PROVE TextInv'
    OBVIOUS
  <2>1. CASE TextNext
    BY <2>1, EditKeepsText, PatchKeepsText DEF TextNext
  <2>2. CASE UNCHANGED textVars
    <3>1. text' = text /\ last' = last
      BY <2>2 DEF textVars
    <3>2. EditIsLocal'
      BY <3>1 DEF TextInv, ChangesAreExact, EditIsLocal
    <3>3. PatchGivesTarget'
      BY <3>1 DEF TextInv, ChangesAreExact, PatchGivesTarget
    <3> QED BY <3>1, <3>2, <3>3 DEF TextInv, ChangesAreExact
  <2> QED BY <2>1, <2>2
<1>3. TextInv => ChangesAreExact
  BY DEF TextInv
<1> QED BY <1>1, <1>2, <1>3, PTL DEF TextSpec
=============================================================================
