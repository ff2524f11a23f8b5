--------------------------- MODULE ToolTurn_proofs ---------------------------
(***************************************************************************)
(* Proofs about the tool calls of a session (ToolTurn): each call of a     *)
(* task in progress has one result (TaskCallsAnsweredOnce), a call is      *)
(* answered as a duplicate only when running it would show the same        *)
(* (DuplicatesAlwaysFresh), and every request is one the upstream accepts  *)
(* and the repair leaves as it is (RequestsAlwaysWellFormed).  They hold   *)
(* for every set of files and every limit, with cancellation, failures,    *)
(* crashes, compaction and edits by other programs.                        *)
(*                                                                         *)
(* The invariants: ShapeInv types the conversation, the calls and the two  *)
(* queues of a batch; AnswerInv says of each announced call that it is     *)
(* open or answered once; FreshInv says what a ledger entry knows, and     *)
(* that the calls pass the gate in the order of their announcement.  What  *)
(* the repair makes of a conversation is proved of every sequence of       *)
(* messages whose announcements name no call twice (RepairRepairs).        *)
(***************************************************************************)
EXTENDS ToolTurn, FoldLemmas, FiniteSetTheorems, TLAPS

-----------------------------------------------------------------------------
(* Sequences: the first element and the rest, and one element more.        *)

LEMMA HeadTail ==
    ASSUME NEW S, NEW q \in Seq(S), q # <<>>
    PROVE  /\ Head(q) \in S /\ Tail(q) \in Seq(S) /\ 1 \in DOMAIN q /\ q[1] = Head(q)
           /\ \A i \in DOMAIN Tail(q) : i + 1 \in DOMAIN q /\ Tail(q)[i] = q[i + 1]
           /\ \A i \in DOMAIN q : i = 1 \/ (i - 1 \in DOMAIN Tail(q) /\ q[i] = Tail(q)[i - 1])
  OBVIOUS

LEMMA WiderSeq ==
    ASSUME NEW S, NEW T, S \subseteq T, NEW q \in Seq(S)
    PROVE  q \in Seq(T)
  OBVIOUS

LEMMA HeadTailSet ==
    ASSUME NEW S, NEW q \in Seq(S), q # <<>>
    PROVE  ToSet(q) = {Head(q)} \cup ToSet(Tail(q))
<1>1. ToSet(q) \subseteq {Head(q)} \cup ToSet(Tail(q))
  <2> SUFFICES ASSUME NEW i \in DOMAIN q PROVE q[i] \in {Head(q)} \cup ToSet(Tail(q))
    BY DEF ToSet
  <2>1. i = 1 \/ (i - 1 \in DOMAIN Tail(q) /\ q[i] = Tail(q)[i - 1])
    BY HeadTail
  <2>2. q[1] = Head(q)
    BY HeadTail
  <2> QED BY <2>1, <2>2 DEF ToSet
<1>2. Head(q) \in ToSet(q)
  BY HeadTail DEF ToSet
<1>3. ToSet(Tail(q)) \subseteq ToSet(q)
  <2>1. \A i \in DOMAIN Tail(q) : i + 1 \in DOMAIN q /\ Tail(q)[i] = q[i + 1]
    BY HeadTail
  <2> QED BY <2>1 DEF ToSet
<1> QED BY <1>1, <1>2, <1>3

LEMMA HeadTailInjective ==
    ASSUME NEW S, NEW q \in Seq(S), q # <<>>, IsInjective(q)
    PROVE  Head(q) \notin ToSet(Tail(q)) /\ IsInjective(Tail(q))
<1>1. \A i \in DOMAIN Tail(q) : i \in Nat \ {0}
  BY HeadTail
<1> QED BY <1>1, HeadTail DEF ToSet, IsInjective

LEMMA AppendIs ==
    ASSUME NEW S, NEW q \in Seq(S), NEW x \in S
    PROVE  /\ Append(q, x) \in Seq(S) /\ Len(Append(q, x)) = Len(q) + 1
           /\ Append(q, x)[Len(q) + 1] = x
           /\ \A i \in DOMAIN q : i \in DOMAIN Append(q, x) /\ Append(q, x)[i] = q[i]
           /\ \A i \in DOMAIN Append(q, x) : i \in DOMAIN q \/ i = Len(q) + 1
  OBVIOUS

LEMMA AppendSet ==
    ASSUME NEW S, NEW q \in Seq(S), NEW x \in S
    PROVE  ToSet(Append(q, x)) = ToSet(q) \cup {x}
<1>1. Len(q) + 1 \in DOMAIN Append(q, x)
  BY AppendIs
<1> QED BY <1>1, AppendIs DEF ToSet

LEMMA OneMoreInjective ==
    ASSUME NEW S, NEW q \in Seq(S), NEW x \in S, IsInjective(q), x \notin ToSet(q)
    PROVE  IsInjective(Append(q, x))
<1> SUFFICES ASSUME NEW a \in DOMAIN Append(q, x), NEW b \in DOMAIN Append(q, x),
                    Append(q, x)[a] = Append(q, x)[b]
             PROVE  a = b
  BY DEF IsInjective
<1>1. \A i \in DOMAIN q : Append(q, x)[i] = q[i] /\ q[i] # x
  BY AppendIs DEF ToSet
<1>2. /\ a \in DOMAIN q \/ a = Len(q) + 1
      /\ b \in DOMAIN q \/ b = Len(q) + 1
      /\ Append(q, x)[Len(q) + 1] = x
  BY AppendIs
<1> QED BY <1>1, <1>2 DEF IsInjective

LEMMA ElementsOf ==
    ASSUME NEW S, NEW q \in Seq(S)
    PROVE  /\ ToSet(q) \subseteq S
           /\ q = <<>> <=> ToSet(q) = {}
<1>1. ToSet(q) \subseteq S
  <2>1. \A i \in DOMAIN q : q[i] \in S
    OBVIOUS
  <2> QED BY <2>1 DEF ToSet
<1>2. q # <<>> => 1 \in DOMAIN q
  OBVIOUS
<1>3. DOMAIN <<>> = {}
  OBVIOUS
<1> QED BY <1>1, <1>2, <1>3 DEF ToSet

-----------------------------------------------------------------------------
(* Messages. *)

LEMMA MessageFields ==
    /\ User.role = "user"
    /\ \A calls : Assistant(calls).role = "assistant" /\ Assistant(calls).calls = calls
    /\ \A id : Result(id).role = "tool" /\ Result(id).id = id
  BY DEF User, Assistant, Result

LEMMA MessagesDiffer ==
    /\ ~Announces(User) /\ ~IsResult(User)
    /\ \A calls : ~IsResult(Assistant(calls)) /\ (Announces(Assistant(calls)) <=> calls # <<>>)
    /\ \A id : ~Announces(Result(id)) /\ IsResult(Result(id)) /\ Result(id) # User
    /\ \A id, calls : Result(id) # Assistant(calls)
    /\ \A a, b : Result(a) = Result(b) => a = b
  BY MessageFields DEF Announces, IsResult

-----------------------------------------------------------------------------
(* The shape of the state. *)

\* An announcement names no call twice.
Messages(n) == {User} \cup {Assistant(ids) : ids \in {q \in Seq(1 .. n) : IsInjective(q)}}
                      \cup {Result(id) : id \in 1 .. n}

CallRecords == [call : Calls, end : Ends, of : Nat, saw : 0 .. MaxVersion]

EntryRecords(n) == [id : 1 .. n, stamp : 0 .. MaxVersion]

Ids == 1 .. Len(trace)

\* What the conversation, the calls and the two queues of a batch are made of.
BatchShape ==
    /\ pc \in Pcs
    /\ trace \in Seq(CallRecords)
    /\ \A id \in Ids : trace[id].of <= Len(trace)
    /\ log \in Seq(Messages(Len(trace)))
    /\ taskStart \in 0 .. Len(log)
    /\ pending \in Seq(Ids) /\ IsInjective(pending) /\ outcomes \in Seq(Ids)
    /\ pc = "dispatch" <=> pending # <<>>
    /\ pc = "collect" => outcomes # <<>>
    /\ pc \in {"idle", "request", "respond"} => outcomes = <<>>
    /\ \A k \in DOMAIN pending : trace[pending[k]].end = "announced"

LedgerShape ==
    /\ version \in [Files -> 0 .. MaxVersion]
    /\ DOMAIN ledger \subseteq Inspections
    /\ \A i \in DOMAIN ledger : ledger[i] \in EntryRecords(Len(trace))

ShapeInv == BatchShape /\ LedgerShape

LEMMA MessagesGrow ==
    ASSUME NEW m \in Nat, NEW n \in Nat, m <= n
    PROVE  Messages(m) \subseteq Messages(n)
<1>1. 1 .. m \subseteq 1 .. n
  OBVIOUS
<1>2. Seq(1 .. m) \subseteq Seq(1 .. n)
  BY <1>1
<1> QED BY <1>1, <1>2 DEF Messages

LEMMA MessageKinds ==
    ASSUME NEW n \in Nat, NEW m \in Messages(n)
    PROVE  /\ Announces(m) => /\ m.calls \in Seq(1 .. n) /\ m = Assistant(m.calls)
                              /\ ToSet(m.calls) \subseteq 1 .. n
           /\ \A id : m = Result(id) => id \in 1 .. n
<1>1. CASE m = User
  BY <1>1, MessagesDiffer
<1>2. CASE \E ids \in Seq(1 .. n) : m = Assistant(ids)
  <2>1. PICK ids \in Seq(1 .. n) : m = Assistant(ids)
    BY <1>2
  <2>2. m.calls = ids /\ ToSet(ids) \subseteq 1 .. n
    BY <2>1, MessageFields, ElementsOf
  <2> QED BY <2>1, <2>2, MessagesDiffer
<1>3. CASE \E id \in 1 .. n : m = Result(id)
  BY <1>3, MessagesDiffer
<1> QED BY <1>1, <1>2, <1>3 DEF Messages

LEMMA UserAppended ==
    ASSUME NEW n \in Nat, NEW q \in Seq(Messages(n))
    PROVE  Append(q, User) \in Seq(Messages(n)) /\ Len(Append(q, User)) = Len(q) + 1
<1>1. User \in Messages(n)
  BY DEF Messages
<1> QED BY <1>1, AppendIs

\* The call at the gate, and its record once it is through.
LEMMA AtTheGate ==
    ASSUME ShapeInv, pc = "dispatch"
    PROVE  /\ Id \in Ids /\ Id = pending[1] /\ Call \in Calls /\ Stamp \in 0 .. MaxVersion
           /\ trace[Id] \in CallRecords /\ trace[Id].end = "announced"
           /\ Tail(pending) \in Seq(Ids) /\ 1 \in DOMAIN pending
           /\ \A k \in DOMAIN Tail(pending) : /\ k + 1 \in DOMAIN pending
                                              /\ Tail(pending)[k] = pending[k + 1]
<1>1. pending \in Seq(Ids) /\ pending # <<>>
  BY DEF ShapeInv, BatchShape
<1>2. /\ Id \in Ids /\ 1 \in DOMAIN pending /\ Id = pending[1] /\ Tail(pending) \in Seq(Ids)
      /\ \A k \in DOMAIN Tail(pending) : k + 1 \in DOMAIN pending
                                         /\ Tail(pending)[k] = pending[k + 1]
  BY <1>1, HeadTail DEF Id
<1>3. trace[Id] \in CallRecords
  BY <1>2 DEF ShapeInv, BatchShape, Ids
<1>4. Call \in Calls
  BY <1>3 DEF CallRecords, Call
<1>5. trace[Id].end = "announced"
  BY <1>2 DEF ShapeInv, BatchShape
<1>6. Stamp \in 0 .. MaxVersion
  <2>1. MaxVersion \in Nat
    BY ConstantsAssumption
  <2>2. Call.tool = "read" => Call.file \in Files
    BY <1>4 DEF Calls, Inspections, Mutations, Malformed, CutOff, Read, Write, Search, Shell
  <2> QED BY <2>1, <2>2 DEF Stamp, ShapeInv, LedgerShape
<1> QED BY <1>2, <1>3, <1>4, <1>5, <1>6

LEMMA CallConcluded ==
    ASSUME ShapeInv, pc = "dispatch", NEW end \in Ends, NEW referent \in 0 .. Len(trace),
           Conclude(end, referent)
    PROVE  /\ trace' \in Seq(CallRecords) /\ Len(trace') = Len(trace)
           /\ trace'[Id] = [call |-> Call, end |-> end, of |-> referent, saw |-> Stamp]
           /\ \A k \in Ids : k # Id => trace'[k] = trace[k]
<1> DEFINE record == [call |-> Call, end |-> end, of |-> referent, saw |-> Stamp]
<1>1. Id \in Ids /\ trace[Id] \in CallRecords /\ Call \in Calls /\ Stamp \in 0 .. MaxVersion
  BY AtTheGate
<1>2. record \in CallRecords
  BY <1>1 DEF CallRecords
<1>3. trace \in Seq(CallRecords)
  BY DEF ShapeInv, BatchShape
<1>4. trace' = [trace EXCEPT ![Id] = record]
  BY DEF Conclude
<1> HIDE DEF record
<1>5. /\ trace' \in Seq(CallRecords) /\ Len(trace') = Len(trace) /\ trace'[Id] = record
      /\ \A k \in Ids : k # Id => trace'[k] = trace[k]
  BY <1>1, <1>2, <1>3, <1>4 DEF Ids
<1> QED BY <1>5 DEF record

\* What a gate action may do, whichever it is.
LEMMA GateKinds ==
    ASSUME ShapeInv, Gate
    PROVE  /\ pc = "dispatch" /\ UNCHANGED <<taskStart, folded>>
           /\ log' = log \/ log' = Append(log, User)
           /\ version' = version \/ version' \in Effects
           /\ \/ Conclude("refused", 0) /\ (ledger' = ledger \/ ledger' = CheckedLedger)
              \/ /\ Conclude("duplicate", CheckedLedger[Call].id) /\ IsDuplicate
                 /\ ledger' = CheckedLedger
              \/ \E end \in {"ran", "failed"} :
                    /\ Conclude(end, 0) /\ PostDispatch(end)
                    /\ Call \in Inspections \cup Mutations
<1> USE DEF AtGate, Counted, Allowed, CountFailure, historyVars
<1>1. CASE Truncated \/ Reject \/ RepeatFailed \/ Limited
  BY <1>1 DEF Truncated, Reject, RepeatFailed, Limited
<1>2. CASE Duplicate \/ CancelledBefore \/ Interrupt
  BY <1>2 DEF Duplicate, CancelledBefore, Interrupt, Dispatch
<1>3. CASE Succeed \/ Fail
  BY <1>3 DEF Succeed, Fail, Dispatch
<1> QED BY <1>1, <1>2, <1>3 DEF Gate

-----------------------------------------------------------------------------
(* The steps, sorted by what they do to the conversation and the batch. *)

\* A user message enters: the prompt of a task, a notice, a nudge.
Told ==
    /\ log' = Append(log, User) /\ pc' = "request"
    /\ pc \in {"idle", "request", "respond"}
    /\ taskStart' = IF pc = "idle" THEN Len(log) ELSE taskStart
    /\ UNCHANGED <<batchVars, ledger, version>>

\* The task is left.
Left ==
    /\ pc' = "idle" /\ pending' = <<>> /\ outcomes' = <<>>
    /\ UNCHANGED <<log, taskStart, trace, ledger, version>>

\* Nothing of either changes.
Kept ==
    /\ pc' = pc \/ {pc, pc'} \subseteq {"request", "respond"}
    /\ version' = version \/ \E file \in Edited : EditOutside(file)
    /\ UNCHANGED <<log, taskStart, batchVars, ledger>>

LEMMA Concatenated ==
    ASSUME NEW S, NEW q \in Seq(S), NEW r \in Seq(S)
    PROVE  /\ q \o r \in Seq(S) /\ Len(q \o r) = Len(q) + Len(r)
           /\ \A i \in 1 .. Len(q) : (q \o r)[i] = q[i]
           /\ \A i \in 1 .. Len(q \o r) : i \notin 1 .. Len(q) =>
                 i - Len(q) \in DOMAIN r /\ (q \o r)[i] = r[i - Len(q)]
  OBVIOUS

LEMMA BatchIs ==
    ASSUME NEW batch \in Batches
    PROVE  batch \in Seq(Calls) /\ Len(batch) \in Nat \ {0} /\ DOMAIN batch = 1 .. Len(batch)
  BY ConstantsAssumption DEF Batches

LEMMA StepKinds ==
    ASSUME [Next]_vars
    PROVE  \/ Told \/ Left \/ Kept \/ Compact \/ Gate \/ Collect
           \/ \E batch \in Batches : Announce(batch)
<1> USE DEF historyVars, batchVars
<1>1. StartTask \/ Notice \/ Nudge => Told
  BY DEF StartTask, Notice, Nudge, Told
<1>2. Finish \/ CollectFails \/ Crash => Left
  BY DEF Finish, CollectFails, Crash, Leave, Left
<1>3. Cancel \/ Request \/ Retry \/ AtBound \/ UNCHANGED vars => Kept
  BY DEF Cancel, Request, Retry, AtBound, vars, Kept
<1>4. ASSUME NEW i, Fold(i) PROVE Kept
  BY <1>4 DEF Fold, Kept
<1>5. ASSUME NEW file \in Edited, EditOutside(file) PROVE Kept
  <2>1. \E f \in Edited : EditOutside(f)
    BY <1>5
  <2> QED BY <1>5, <2>1 DEF EditOutside, Kept
<1> QED BY <1>1, <1>2, <1>3, <1>4, <1>5 DEF Next

LEMMA VersionsStay ==
    ASSUME ShapeInv
    PROVE  /\ Effects \subseteq [Files -> 0 .. MaxVersion]
           /\ \A file \in Edited : EditOutside(file) => version' \in [Files -> 0 .. MaxVersion]
<1>1. MaxVersion \in Nat /\ Edited \subseteq Files /\ version \in [Files -> 0 .. MaxVersion]
  BY ConstantsAssumption DEF ShapeInv, LedgerShape
<1>2. ASSUME NEW S PROVE Edit(S) \in [Files -> Nat]
                         /\ \A f \in Files : Edit(S)[f] = version[f] + (IF f \in S THEN 1 ELSE 0)
  BY <1>1 DEF Edit
<1>3. ASSUME NEW after \in Effects PROVE after \in [Files -> 0 .. MaxVersion]
  <2>1. /\ \E S \in SUBSET Reach(Call) : after = Edit(S)
        /\ \A f \in Files : after[f] <= MaxVersion
    BY <1>3 DEF Effects
  <2>2. after \in [Files -> Nat]
    BY <2>1, <1>2
  <2>3. \A f \in Files : after[f] \in 0 .. MaxVersion
    BY <2>1, <2>2, <1>1
  <2> QED BY <2>2, <2>3
<1>4. ASSUME NEW file \in Edited, EditOutside(file) PROVE version' \in [Files -> 0 .. MaxVersion]
  <2>1. version[file] < MaxVersion /\ version' = Edit({file})
    BY <1>4 DEF EditOutside
  <2>2. \A f \in Files : Edit({file})[f] \in 0 .. MaxVersion
    BY <2>1, <1>1, <1>2
  <2> QED BY <1>2, <2>1, <2>2
<1> QED BY <1>3, <1>4

\* What the announcement of a batch adds.
LEMMA Announced ==
    ASSUME ShapeInv, NEW batch \in Batches, Announce(batch)
    PROVE  /\ trace' \in Seq(CallRecords) /\ Len(trace') = Len(trace) + Len(batch)
           /\ Len(batch) \in Nat \ {0}
           /\ \A id \in Ids : trace'[id] = trace[id]
           /\ \A id \in 1 .. Len(trace') : id \notin Ids =>
                 /\ trace'[id].call = batch[id - Len(trace)]
                 /\ trace'[id].end = "announced" /\ trace'[id].of = 0
<1>1. batch \in Seq(Calls) /\ Len(batch) \in Nat \ {0} /\ DOMAIN batch = 1 .. Len(batch)
  BY BatchIs
<1> DEFINE added == [k \in DOMAIN batch |->
                       [call |-> batch[k], end |-> "announced", of |-> 0, saw |-> 0]]
<1>2. /\ added \in Seq(CallRecords) /\ Len(added) = Len(batch) /\ DOMAIN added = DOMAIN batch
      /\ \A k \in DOMAIN batch : added[k] = [call |-> batch[k], end |-> "announced",
                                             of |-> 0, saw |-> 0]
  <2>1. MaxVersion \in Nat
    BY ConstantsAssumption
  <2>2. \A k \in DOMAIN batch : [call |-> batch[k], end |-> "announced", of |-> 0, saw |-> 0]
                                  \in CallRecords
    BY <1>1, <2>1 DEF CallRecords, Ends
  <2> QED BY <1>1, <2>2
<1>3. trace \in Seq(CallRecords) /\ trace' = trace \o added
  BY DEF Announce, ShapeInv, BatchShape
<1> HIDE DEF added
<1>4. /\ trace' \in Seq(CallRecords) /\ Len(trace') = Len(trace) + Len(batch)
      /\ \A id \in Ids : trace'[id] = trace[id]
      /\ \A id \in 1 .. Len(trace') : id \notin Ids => /\ id - Len(trace) \in DOMAIN batch
                                                       /\ trace'[id] = added[id - Len(trace)]
  <2>0. trace \in Seq(CallRecords) /\ added \in Seq(CallRecords)
    BY <1>2, <1>3
  <2>1. /\ trace \o added \in Seq(CallRecords)
        /\ Len(trace \o added) = Len(trace) + Len(added)
        /\ \A id \in 1 .. Len(trace) : (trace \o added)[id] = trace[id]
        /\ \A id \in 1 .. Len(trace \o added) : id \notin 1 .. Len(trace) =>
              /\ id - Len(trace) \in DOMAIN added
              /\ (trace \o added)[id] = added[id - Len(trace)]
    BY ONLY <2>0, Concatenated
  <2> QED BY <1>2, <1>3, <2>1 DEF Ids
<1>5. \A k \in DOMAIN batch : /\ added[k].call = batch[k]
                              /\ added[k].end = "announced" /\ added[k].of = 0
  BY <1>2
<1> QED BY <1>1, <1>4, <1>5

LEMMA AnnouncedIds ==
    ASSUME ShapeInv, NEW batch \in Batches, Announce(batch)
    PROVE  LET fresh == (1 .. Len(trace')) \ Ids
           IN  /\ pending' \in Seq(fresh) /\ pending' # <<>> /\ IsInjective(pending')
               /\ \E ids \in Seq(fresh) : /\ ids # <<>> /\ IsInjective(ids)
                                          /\ log' = Append(log, Assistant(ids))
                                          /\ ToSet(pending') = ToSet(ids)
<1> DEFINE fresh == (1 .. Len(trace')) \ Ids
           ids == [k \in DOMAIN batch |-> Len(trace) + k]
<1>1. batch \in Seq(Calls) /\ Len(batch) \in Nat \ {0} /\ DOMAIN batch = 1 .. Len(batch)
  BY BatchIs
<1>9. trace \in Seq(CallRecords)
  BY DEF ShapeInv, BatchShape
<1>2. Len(trace') = Len(trace) + Len(batch)
  BY Announced
<1>3. ids \in Seq(fresh) /\ ids # <<>> /\ IsInjective(ids)
  <2>1. \A k \in DOMAIN batch : Len(trace) + k \in fresh
    BY <1>1, <1>2, <1>9 DEF Ids
  <2>2. IsInjective(ids)
    BY <1>1, <1>9 DEF IsInjective
  <2> QED BY <1>1, <2>1, <2>2
<1>4. log' = Append(log, Assistant(ids)) /\ pending' \in Bijection(DOMAIN batch, ToSet(ids))
  BY DEF Announce
<1> HIDE DEF ids
<1>5. /\ pending' \in [DOMAIN batch -> ToSet(ids)] /\ IsInjective(pending')
      /\ \A id \in ToSet(ids) : \E k \in DOMAIN batch : pending'[k] = id
  BY <1>4 DEF Bijection, Injection, Surjection, IsInjective
<1>6. ToSet(ids) \subseteq fresh
  BY <1>3, ElementsOf
<1>7. pending' \in Seq(fresh) /\ pending' # <<>>
  BY <1>1, <1>5, <1>6
<1>8. ToSet(pending') = ToSet(ids)
  BY <1>5 DEF ToSet
<1> QED BY <1>3, <1>4, <1>5, <1>7, <1>8

-----------------------------------------------------------------------------
(* The shape is kept. *)

LEMMA UnitStartsInside ==
    ASSUME ShapeInv, NEW first \in UnitStarts
    PROVE  /\ first \in Nat \ {0} /\ first <= Len(log) + 1
           /\ LET n == Len(SubSeq(log, first, Len(log)))
              IN  /\ n = Len(log) + 1 - first
                  /\ SubSeq(log, first, Len(log)) \in Seq(Messages(Len(trace)))
                  /\ \A i \in 1 .. n : /\ i + (first - 1) \in DOMAIN log
                                       /\ SubSeq(log, first, Len(log))[i] = log[i + (first - 1)]
<1>1. log \in Seq(Messages(Len(trace)))
  BY DEF ShapeInv, BatchShape
<1>2. first \in Nat \ {0} /\ first <= Len(log) + 1
  BY <1>1 DEF UnitStarts
<1> QED BY <1>1, <1>2

LEMMA InitShape == Init => ShapeInv
<1> SUFFICES ASSUME Init PROVE ShapeInv
  OBVIOUS
<1> USE DEF Init
<1>1. MaxVersion \in Nat
  BY ConstantsAssumption
<1>2. /\ pc \in Pcs /\ taskStart \in 0 .. Len(log)
      /\ pc = "dispatch" <=> pending # <<>>
      /\ pc = "collect" => outcomes # <<>>
      /\ pc \in {"idle", "request", "respond"} => outcomes = <<>>
  BY DEF Pcs
<1>3. /\ trace \in Seq(CallRecords) /\ log \in Seq(Messages(Len(trace)))
      /\ pending \in Seq(Ids) /\ IsInjective(pending) /\ outcomes \in Seq(Ids)
  BY DEF IsInjective
<1>4. DOMAIN pending = {} /\ Ids = {} /\ DOMAIN ledger = {}
  BY DEF Ids
<1>5. version \in [Files -> 0 .. MaxVersion]
  BY <1>1
<1> QED BY <1>2, <1>3, <1>4, <1>5 DEF ShapeInv, BatchShape, LedgerShape

\* A ledger of typed entries stays one when entries are dropped or one is recorded.
LedgerOf(entries, n) ==
    /\ DOMAIN entries \subseteq Inspections
    /\ \A i \in DOMAIN entries : entries[i] \in EntryRecords(n)

LEMMA Forgotten ==
    ASSUME NEW entries, NEW call
    PROVE  /\ DOMAIN Forget(entries, call) = DOMAIN entries \ Affected(call)
           /\ \A i \in DOMAIN entries \ Affected(call) : Forget(entries, call)[i] = entries[i]
  BY DEF Forget, Restrict

LEMMA ForgetKeepsLedger ==
    ASSUME NEW entries, NEW call, NEW n, LedgerOf(entries, n)
    PROVE  LedgerOf(Forget(entries, call), n)
  BY Forgotten DEF LedgerOf

LEMMA CheckedIs ==
    /\ CheckedLedger = ledger \/ CheckedLedger = Forget(ledger, Call)
    /\ DOMAIN CheckedLedger \subseteq DOMAIN ledger
    /\ \A i \in DOMAIN CheckedLedger : CheckedLedger[i] = ledger[i]
    /\ Call \in DOMAIN CheckedLedger => ledger[Call].stamp = Stamp \/ Call \notin Affected(Call)
<1>1. CheckedLedger = ledger \/ CheckedLedger = Forget(ledger, Call)
  BY DEF CheckedLedger
<1>2. CASE CheckedLedger = ledger
  BY <1>2, Forgotten, ZenonT(30) DEF CheckedLedger
<1>3. CASE CheckedLedger = Forget(ledger, Call)
  BY <1>3, Forgotten, ZenonT(30)
<1> QED BY <1>1, <1>2, <1>3

LEMMA RecordedIs ==
    ASSUME NEW entries
    PROVE  /\ DOMAIN Recorded(entries) = DOMAIN entries \cup {Call}
           /\ Recorded(entries)[Call] = [id |-> Id, stamp |-> Stamp]
           /\ \A i \in DOMAIN entries : i # Call => Recorded(entries)[i] = entries[i]
  BY DEF Recorded

LEMMA GateLedger ==
    ASSUME ShapeInv, Gate
    PROVE  LedgerOf(ledger', Len(trace))
<1>1. Id \in Ids /\ Stamp \in 0 .. MaxVersion
  BY GateKinds, AtTheGate
<1>2. LedgerOf(ledger, Len(trace)) /\ LedgerOf(CheckedLedger, Len(trace))
  BY ForgetKeepsLedger, CheckedIs DEF ShapeInv, LedgerShape, LedgerOf
<1>3. CASE ledger' = ledger \/ ledger' = CheckedLedger
  BY <1>2, <1>3
<1>4. ASSUME NEW end \in {"ran", "failed"}, PostDispatch(end)
      PROVE  LedgerOf(ledger', Len(trace))
  <2>1. Call \in Inspections => LedgerOf(Recorded(CheckedLedger), Len(trace))
    <3> SUFFICES ASSUME Call \in Inspections PROVE LedgerOf(Recorded(CheckedLedger), Len(trace))
      OBVIOUS
    <3>1. [id |-> Id, stamp |-> Stamp] \in EntryRecords(Len(trace))
      BY <1>1 DEF EntryRecords, Ids
    <3> QED BY <1>2, <3>1, RecordedIs DEF LedgerOf
  <2> QED BY <1>2, <1>4, <2>1, ForgetKeepsLedger DEF PostDispatch
<1> QED BY <1>3, <1>4, GateKinds

LEMMA GateShape ==
    ASSUME ShapeInv, Gate
    PROVE  ShapeInv'
<1>1. PICK end \in Ends, referent \in 0 .. Len(trace) : Conclude(end, referent)
  <2>1. ASSUME IsDuplicate PROVE CheckedLedger[Call].id \in Ids
    <3>1. CheckedLedger[Call] \in EntryRecords(Len(trace))
      BY <2>1, CheckedIs DEF ShapeInv, LedgerShape, IsDuplicate
    <3> QED BY <3>1 DEF EntryRecords, Ids
  <2>2. trace \in Seq(CallRecords)
    BY DEF ShapeInv, BatchShape
  <2> QED BY <2>1, <2>2, GateKinds DEF Ends, Ids
<1>2. /\ pc = "dispatch" /\ UNCHANGED <<taskStart, folded>>
      /\ log' = log \/ log' = Append(log, User)
      /\ version' = version \/ version' \in Effects
  BY GateKinds
<1>3. /\ trace' \in Seq(CallRecords) /\ Len(trace') = Len(trace)
      /\ trace'[Id] = [call |-> Call, end |-> end, of |-> referent, saw |-> Stamp]
      /\ \A k \in Ids : k # Id => trace'[k] = trace[k]
  BY <1>1, <1>2, CallConcluded
<1>4. Ids' = Ids /\ trace \in Seq(CallRecords) /\ Len(trace) \in Nat
  BY <1>3 DEF Ids, ShapeInv, BatchShape
<1>5. /\ log' \in Seq(Messages(Len(trace'))) /\ taskStart' \in 0 .. Len(log')
  <2>1. log \in Seq(Messages(Len(trace))) /\ taskStart \in 0 .. Len(log)
    BY DEF ShapeInv, BatchShape
  <2>2. /\ Append(log, User) \in Seq(Messages(Len(trace)))
        /\ Len(Append(log, User)) = Len(log) + 1
    BY <1>4, <2>1, UserAppended
  <2>3. Len(log) \in Nat
    BY <2>1
  <2> QED BY <1>2, <1>3, <2>1, <2>2, <2>3
<1>6. /\ Id \in Ids /\ Tail(pending) \in Seq(Ids) /\ IsInjective(Tail(pending))
      /\ \A k \in DOMAIN Tail(pending) : /\ Tail(pending)[k] \in Ids \ {Id}
                                         /\ trace[Tail(pending)[k]].end = "announced"
  <2>1. pending \in Seq(Ids) /\ IsInjective(pending) /\ pending # <<>>
    BY <1>2 DEF ShapeInv, BatchShape
  <2>2. /\ Id \notin ToSet(Tail(pending)) /\ IsInjective(Tail(pending))
    BY <2>1, HeadTailInjective DEF Id
  <2>3. /\ Id \in Ids /\ Tail(pending) \in Seq(Ids)
        /\ \A k \in DOMAIN Tail(pending) : /\ k + 1 \in DOMAIN pending
                                           /\ Tail(pending)[k] = pending[k + 1]
    BY <1>2, AtTheGate
  <2>4. \A k \in DOMAIN Tail(pending) : Tail(pending)[k] \in Ids \ {Id}
    BY <2>2, <2>3 DEF ToSet
  <2> QED BY <2>2, <2>3, <2>4 DEF ShapeInv, BatchShape
<1>7. outcomes' \in Seq(Ids) /\ outcomes' # <<>> /\ pending' = Tail(pending)
  <2>1. outcomes \in Seq(Ids) /\ outcomes' = Append(outcomes, Id) /\ pending' = Tail(pending)
    BY <1>1 DEF ShapeInv, BatchShape, Conclude
  <2> QED BY <1>6, <2>1
<1>8. /\ pc' \in Pcs
      /\ (pc' = "dispatch" <=> pending' # <<>>)
      /\ pc' \notin {"idle", "request", "respond"}
  BY <1>1 DEF Conclude, Pcs
<1>9. \A id \in Ids' : trace'[id].of <= Len(trace')
  <2>1. trace'[Id].of = referent /\ referent <= Len(trace)
    BY <1>3
  <2> QED BY <1>3, <1>4, <2>1 DEF ShapeInv, BatchShape
<1>10. \A k \in DOMAIN pending' : trace'[pending'[k]].end = "announced"
  BY <1>3, <1>6, <1>7
<1>11. LedgerShape'
  <2>1. version' \in [Files -> 0 .. MaxVersion]
    BY <1>2, VersionsStay DEF ShapeInv, LedgerShape
  <2>2. LedgerOf(ledger', Len(trace'))
    BY <1>3, GateLedger
  <2> QED BY <2>1, <2>2 DEF LedgerShape, LedgerOf
<1> QED BY <1>3, <1>4, <1>5, <1>6, <1>7, <1>8, <1>9, <1>10, <1>11 DEF ShapeInv, BatchShape

LEMMA AnnounceShape ==
    ASSUME ShapeInv, NEW batch \in Batches, Announce(batch)
    PROVE  ShapeInv'
<1> DEFINE n == Len(trace')
           fresh == (1 .. n) \ Ids
<1>1. /\ trace' \in Seq(CallRecords) /\ n = Len(trace) + Len(batch)
      /\ Len(batch) \in Nat \ {0}
      /\ \A id \in Ids : trace'[id] = trace[id]
      /\ \A id \in 1 .. n : id \notin Ids =>
            trace'[id].end = "announced" /\ trace'[id].of = 0
  BY Announced
<1>2. /\ pending' \in Seq(fresh) /\ pending' # <<>> /\ IsInjective(pending')
      /\ \E ids \in Seq(fresh) : /\ ids # <<>> /\ IsInjective(ids)
                                 /\ log' = Append(log, Assistant(ids))
                                 /\ ToSet(pending') = ToSet(ids)
  BY AnnouncedIds
<1>3. /\ pc = "respond" /\ pc' = "dispatch"
      /\ UNCHANGED <<taskStart, outcomes, ledger, version>>
  BY DEF Announce
<1>4. /\ trace \in Seq(CallRecords) /\ log \in Seq(Messages(Len(trace)))
      /\ taskStart \in 0 .. Len(log) /\ outcomes = <<>> /\ pending = <<>>
  BY <1>3 DEF ShapeInv, BatchShape
<1>5. n \in Nat /\ Len(trace) \in Nat /\ Len(trace) <= n /\ Ids' = 1 .. n
  BY <1>1, <1>4 DEF Ids
<1> HIDE DEF n
<1>6. log' \in Seq(Messages(n)) /\ taskStart' \in 0 .. Len(log')
  <2>1. PICK ids \in Seq(fresh) : IsInjective(ids) /\ log' = Append(log, Assistant(ids))
    BY <1>2
  <2>2. Assistant(ids) \in Messages(n)
    <3>1. fresh \subseteq 1 .. n
      OBVIOUS
    <3> HIDE DEF fresh
    <3>2. ids \in Seq(1 .. n)
      BY <2>1, <3>1, WiderSeq
    <3> QED BY <2>1, <3>2 DEF Messages
  <2>3. log \in Seq(Messages(n))
    BY <1>4, <1>5, MessagesGrow
  <2>4. log' \in Seq(Messages(n)) /\ Len(log') = Len(log) + 1
    BY <2>1, <2>2, <2>3, AppendIs
  <2> QED BY <1>3, <1>4, <2>4
<1>7. pending' \in Seq(Ids') /\ outcomes' \in Seq(Ids')
  <2>1. fresh \subseteq Ids'
    BY <1>5
  <2>2. outcomes' = <<>>
    BY <1>3, <1>4
  <2> QED BY <1>2, <2>1, <2>2
<1>8. \A id \in Ids' : trace'[id].of <= n
  <2>1. \A id \in Ids : trace[id].of <= n /\ trace'[id] = trace[id]
    <3>1. \A id \in Ids : trace[id] \in CallRecords /\ trace[id].of <= Len(trace)
      BY <1>4 DEF ShapeInv, BatchShape, Ids
    <3>2. \A id \in Ids : trace[id].of \in Nat
      BY <3>1 DEF CallRecords
    <3> QED BY <1>1, <1>5, <3>1, <3>2
  <2>2. \A id \in Ids' : id \notin Ids => trace'[id].of = 0
    BY <1>1, <1>5
  <2> QED BY <1>5, <2>1, <2>2
<1>9. \A k \in DOMAIN pending' : trace'[pending'[k]].end = "announced"
  <2>1. \A k \in DOMAIN pending' : pending'[k] \in fresh
    BY <1>2
  <2> QED BY <1>1, <2>1
<1>10. LedgerShape'
  <2>1. \A i \in DOMAIN ledger : ledger[i] \in EntryRecords(n)
    <3>1. EntryRecords(Len(trace)) \subseteq EntryRecords(n)
      BY <1>5 DEF EntryRecords
    <3> QED BY <3>1 DEF ShapeInv, LedgerShape
  <2> QED BY <1>3, <2>1 DEF ShapeInv, LedgerShape, n
<1> QED
  BY <1>1, <1>2, <1>3, <1>5, <1>6, <1>7, <1>8, <1>9, <1>10
  DEF ShapeInv, BatchShape, Pcs, n

\* The first outcome, and the conversation with its result.
LEMMA Collected ==
    ASSUME ShapeInv, Collect
    PROVE  /\ Head(outcomes) \in Ids /\ Tail(outcomes) \in Seq(Ids) /\ outcomes # <<>>
           /\ log' = Append(log, Result(Head(outcomes)))
           /\ Result(Head(outcomes)) \in Messages(Len(trace))
           /\ log' \in Seq(Messages(Len(trace))) /\ Len(log') = Len(log) + 1
<1>1. /\ outcomes \in Seq(Ids) /\ outcomes # <<>> /\ log \in Seq(Messages(Len(trace)))
      /\ log' = Append(log, Result(Head(outcomes)))
  BY DEF ShapeInv, BatchShape, Collect
<1>2. Head(outcomes) \in Ids /\ Tail(outcomes) \in Seq(Ids)
  BY <1>1, HeadTail
<1>3. Result(Head(outcomes)) \in Messages(Len(trace))
  BY <1>2 DEF Messages, Ids
<1> QED BY <1>1, <1>2, <1>3, AppendIs

LEMMA CollectShape ==
    ASSUME ShapeInv, Collect
    PROVE  ShapeInv'
<1>1. /\ Tail(outcomes) \in Seq(Ids)
      /\ log' \in Seq(Messages(Len(trace))) /\ Len(log') = Len(log) + 1
  BY Collected
<1>2. /\ pc = "collect" /\ outcomes' = Tail(outcomes)
      /\ pc' = IF Tail(outcomes) = <<>> THEN "request" ELSE "collect"
      /\ UNCHANGED <<taskStart, trace, pending, ledger, version>>
  BY DEF Collect
<1>3. pending = <<>> /\ Ids' = Ids /\ LedgerShape' /\ log \in Seq(Messages(Len(trace)))
  BY <1>2 DEF ShapeInv, BatchShape, LedgerShape, Ids
<1>4. taskStart' \in 0 .. Len(log')
  BY <1>1, <1>2, <1>3 DEF ShapeInv, BatchShape
<1> QED BY <1>1, <1>2, <1>3, <1>4 DEF ShapeInv, BatchShape, Pcs

LEMMA QuietShape ==
    ASSUME ShapeInv, Told \/ Left \/ Kept
    PROVE  ShapeInv'
<1>0. /\ trace' = trace /\ Ids' = Ids
      /\ log \in Seq(Messages(Len(trace))) /\ trace \in Seq(CallRecords)
      /\ taskStart \in 0 .. Len(log)
  BY DEF Told, Left, Kept, batchVars, ShapeInv, BatchShape, Ids
<1>1. LedgerShape'
  <2>1. ledger' = ledger /\ version' \in [Files -> 0 .. MaxVersion]
    BY VersionsStay DEF Told, Left, Kept, ShapeInv, LedgerShape
  <2> QED BY <1>0, <2>1 DEF ShapeInv, LedgerShape
<1>2. CASE Told
  <2>1. /\ log' \in Seq(Messages(Len(trace))) /\ Len(log') = Len(log) + 1
    BY <1>0, <1>2, UserAppended DEF Told
  <2>2. taskStart' \in 0 .. Len(log')
    BY <1>0, <1>2, <2>1 DEF Told
  <2> QED BY <1>0, <1>1, <1>2, <2>1, <2>2 DEF Told, batchVars, ShapeInv, BatchShape, Pcs
<1>3. CASE Left
  <2>1. pending' = <<>> /\ pending' \in Seq(Ids) /\ outcomes' \in Seq(Ids)
        /\ IsInjective(pending') /\ DOMAIN pending' = {}
    BY <1>3 DEF Left, IsInjective
  <2> QED BY <1>0, <1>1, <1>3, <2>1 DEF Left, ShapeInv, BatchShape, Pcs
<1>4. CASE Kept
  BY <1>0, <1>1, <1>4 DEF Kept, batchVars, ShapeInv, BatchShape, Pcs
<1> QED BY <1>2, <1>3, <1>4

LEMMA CompactShape ==
    ASSUME ShapeInv, Compact
    PROVE  ShapeInv'
<1>1. PICK first \in UnitStarts :
          /\ log' = SubSeq(log, first, Len(log))
          /\ taskStart' = IF taskStart < first THEN 0 ELSE taskStart - (first - 1)
  BY DEF Compact
<1>2. UNCHANGED <<pc, batchVars, ledger, version>>
  BY DEF Compact
<1>3. /\ log' \in Seq(Messages(Len(trace))) /\ Len(log') = Len(log) + 1 - first
      /\ first \in Nat \ {0} /\ first <= Len(log) + 1
  BY <1>1, UnitStartsInside
<1>4. taskStart' \in 0 .. Len(log')
  <2>1. taskStart \in 0 .. Len(log) /\ Len(log) \in Nat
    BY DEF ShapeInv, BatchShape
  <2> QED BY <1>1, <1>3, <2>1
<1> QED BY <1>2, <1>3, <1>4 DEF ShapeInv, BatchShape, LedgerShape, batchVars, Ids

LEMMA ShapeStep == ShapeInv /\ [Next]_vars => ShapeInv'
  BY StepKinds, QuietShape, CompactShape, GateShape, CollectShape, AnnounceShape

LEMMA ShapeAlways == Spec => []ShapeInv
  BY InitShape, ShapeStep, PTL DEF Spec

-----------------------------------------------------------------------------
(* One result for each call. *)

\* The result of the call stands once in q, after place i.
AnsweredIn(q, i, id) ==
    \E j \in i + 1 .. Len(q) : /\ q[j] = Result(id)
                               /\ \A k \in DOMAIN q : q[k] = Result(id) => k = j

LEMMA StaysAnswered ==
    ASSUME NEW S, NEW q \in Seq(S), NEW x \in S, NEW i \in Nat, NEW id,
           AnsweredIn(q, i, id), x # Result(id)
    PROVE  AnsweredIn(Append(q, x), i, id)
<1>1. PICK j \in i + 1 .. Len(q) : /\ q[j] = Result(id)
                                   /\ \A k \in DOMAIN q : q[k] = Result(id) => k = j
  BY DEF AnsweredIn
<1>2. Len(q) \in Nat /\ DOMAIN q = 1 .. Len(q)
  OBVIOUS
<1>3. /\ j \in i + 1 .. Len(Append(q, x)) /\ Append(q, x)[j] = Result(id)
      /\ \A k \in DOMAIN Append(q, x) : Append(q, x)[k] = Result(id) => k = j
  BY <1>1, <1>2, AppendIs
<1> QED BY <1>3 DEF AnsweredIn

LEMMA NowAnswered ==
    ASSUME NEW S, NEW q \in Seq(S), NEW i \in DOMAIN q, NEW id, Result(id) \in S,
           \A k \in DOMAIN q : q[k] # Result(id)
    PROVE  AnsweredIn(Append(q, Result(id)), i, id)
<1> DEFINE r == Append(q, Result(id))
           j == Len(q) + 1
<1>1. Len(q) \in Nat /\ DOMAIN q = 1 .. Len(q)
  OBVIOUS
<1>2. /\ Len(r) = j /\ r[j] = Result(id)
      /\ \A k \in DOMAIN q : r[k] = q[k]
      /\ \A k \in DOMAIN r : k \in DOMAIN q \/ k = j
  BY AppendIs
<1>3. j \in i + 1 .. Len(r)
  BY <1>1, <1>2
<1>4. \A k \in DOMAIN r : r[k] = Result(id) => k = j
  BY <1>2
<1> HIDE DEF r, j
<1>5. AnsweredIn(r, i, id)
  BY <1>2, <1>3, <1>4 DEF AnsweredIn
<1> QED BY <1>5 DEF r

LEMMA AnsweredAfterCut ==
    ASSUME ShapeInv, NEW first \in UnitStarts, NEW id,
           NEW i \in 1 .. Len(SubSeq(log, first, Len(log))),
           AnsweredIn(log, i + (first - 1), id)
    PROVE  AnsweredIn(SubSeq(log, first, Len(log)), i, id)
<1> DEFINE q == SubSeq(log, first, Len(log))
<1>1. /\ first \in Nat \ {0} /\ Len(q) = Len(log) + 1 - first
      /\ q \in Seq(Messages(Len(trace)))
      /\ \A k \in 1 .. Len(q) : /\ k + (first - 1) \in DOMAIN log
                                /\ q[k] = log[k + (first - 1)]
  BY UnitStartsInside
<1>2. PICK j \in i + (first - 1) + 1 .. Len(log) :
          /\ log[j] = Result(id)
          /\ \A k \in DOMAIN log : log[k] = Result(id) => k = j
  BY DEF AnsweredIn
<1>3. log \in Seq(Messages(Len(trace))) /\ Len(log) \in Nat
  BY DEF ShapeInv, BatchShape
<1>4. i \in Nat /\ j \in Nat
  BY <1>1, <1>3
<1> HIDE DEF q
<1>5. /\ j - (first - 1) \in i + 1 .. Len(q) /\ j - (first - 1) \in 1 .. Len(q)
      /\ (j - (first - 1)) + (first - 1) = j
  BY <1>1, <1>2, <1>3, <1>4
<1>6. q[j - (first - 1)] = Result(id)
  BY <1>1, <1>2, <1>5
<1>7. \A k \in DOMAIN q : q[k] = Result(id) => k = j - (first - 1)
  <2>1. \A k \in DOMAIN q : k \in 1 .. Len(q) /\ k \in Nat
    BY <1>1
  <2>2. \A k \in DOMAIN q : q[k] = Result(id) => k + (first - 1) = j
    BY <1>1, <1>2, <2>1
  <2> QED BY <1>1, <1>4, <2>1, <2>2
<1>8. AnsweredIn(q, i, id)
  BY <1>5, <1>6, <1>7 DEF AnsweredIn
<1> QED BY <1>8 DEF q

\* Calls of a batch that have no result in the conversation yet.
Open == ToSet(pending) \cup ToSet(outcomes)

BatchIsOpen ==
    /\ IsInjective(outcomes) /\ ToSet(pending) \cap ToSet(outcomes) = {}
    /\ \A id \in Open : \A k \in DOMAIN log : log[k] # Result(id)

TaskIsAnswered ==
    pc # "idle" => \A i \in taskStart + 1 .. Len(log) : Announces(log[i]) =>
                      \A id \in ToSet(log[i].calls) : id \in Open \/ AnsweredIn(log, i, id)

AnswerInv == BatchIsOpen /\ TaskIsAnswered

LEMMA NothingOpen ==
    ASSUME ShapeInv, pc \in {"idle", "request", "respond"}
    PROVE  Open = {}
<1>1. pending = <<>> /\ outcomes = <<>>
  BY DEF ShapeInv, BatchShape
<1> QED BY <1>1 DEF Open, ToSet

LEMMA InitAnswer == Init => AnswerInv
<1> SUFFICES ASSUME Init PROVE AnswerInv
  OBVIOUS
<1>1. pc = "idle" /\ pending = <<>> /\ outcomes = <<>>
  BY DEF Init
<1>2. Open = {} /\ ToSet(pending) = {} /\ IsInjective(outcomes)
  BY <1>1 DEF Open, ToSet, IsInjective
<1> QED BY <1>1, <1>2 DEF AnswerInv, BatchIsOpen, TaskIsAnswered

\* A message that is neither an announcement nor a result of the task's calls
\* leaves every answer where it is.
LEMMA AnswersStay ==
    ASSUME ShapeInv, AnswerInv, NEW n \in Nat, NEW x \in Messages(n), Len(trace) <= n,
           NEW i \in DOMAIN log, NEW id, AnsweredIn(log, i, id), x # Result(id)
    PROVE  AnsweredIn(Append(log, x), i, id)
<1>1. log \in Seq(Messages(Len(trace))) /\ Len(trace) \in Nat
  BY DEF ShapeInv, BatchShape
<1>2. log \in Seq(Messages(n))
  BY <1>1, MessagesGrow, WiderSeq
<1>3. i \in Nat
  BY <1>1
<1> QED BY <1>2, <1>3, StaysAnswered

LEMMA AppendedMessage ==
    ASSUME ShapeInv, AnswerInv, pc # "idle",
           NEW n \in Nat, Len(trace) <= n, NEW x \in Messages(n),
           log' = Append(log, x), taskStart' = taskStart,
           \A id \in Open : id \in Open' \/ x = Result(id),
           \A id : x = Result(id) => id \in Open,
           Announces(x) => ToSet(x.calls) \subseteq Open'
    PROVE  TaskIsAnswered'
<1>1. log \in Seq(Messages(n)) /\ taskStart \in Nat /\ Len(log) \in Nat
  <2>1. /\ log \in Seq(Messages(Len(trace))) /\ trace \in Seq(CallRecords)
        /\ taskStart \in 0 .. Len(log)
    BY DEF ShapeInv, BatchShape
  <2>2. log \in Seq(Messages(n))
    BY <2>1, MessagesGrow, WiderSeq
  <2> QED BY <2>1, <2>2
<1>2. /\ Len(log') = Len(log) + 1 /\ log'[Len(log) + 1] = x
      /\ \A i \in DOMAIN log : log'[i] = log[i]
  BY <1>1, AppendIs
<1> SUFFICES ASSUME NEW i \in taskStart + 1 .. Len(log'), Announces(log'[i]),
                    NEW id \in ToSet(log'[i].calls)
             PROVE  id \in Open' \/ AnsweredIn(log', i, id)
  BY DEF TaskIsAnswered
<1>3. CASE i = Len(log) + 1
  BY <1>2, <1>3
<1>4. CASE i # Len(log) + 1
  <2>1. i \in taskStart + 1 .. Len(log) /\ i \in DOMAIN log
    BY <1>1, <1>2, <1>4
  <2>2. id \in Open \/ AnsweredIn(log, i, id)
    BY <1>2, <2>1 DEF AnswerInv, TaskIsAnswered
  <2>3. CASE id \in Open
    <3>1. ASSUME x = Result(id) PROVE AnsweredIn(log', i, id)
      <4>1. \A k \in DOMAIN log : log[k] # Result(id)
        BY <2>3 DEF AnswerInv, BatchIsOpen
      <4>2. Result(id) \in Messages(n)
        BY <3>1
      <4> QED BY <1>1, <2>1, <3>1, <4>1, <4>2, NowAnswered
    <3> QED BY <2>3, <3>1
  <2>4. CASE AnsweredIn(log, i, id)
    <3>1. x # Result(id)
      <4> SUFFICES ASSUME x = Result(id) PROVE FALSE
        OBVIOUS
      <4>1. \A k \in DOMAIN log : log[k] # Result(id)
        BY DEF AnswerInv, BatchIsOpen
      <4>2. i \in Nat /\ DOMAIN log = 1 .. Len(log)
        BY <1>1, <2>1
      <4> QED BY <2>4, <4>1, <4>2 DEF AnsweredIn
    <3> QED BY <2>1, <2>4, <3>1, AnswersStay
  <2> QED BY <2>2, <2>3, <2>4
<1> QED BY <1>3, <1>4

LEMMA UserMessage ==
    ASSUME ShapeInv
    PROVE  /\ User \in Messages(Len(trace)) /\ Len(trace) \in Nat
           /\ ~Announces(User) /\ \A id : User # Result(id)
           /\ log \in Seq(Messages(Len(trace)))
<1>1. log \in Seq(Messages(Len(trace))) /\ trace \in Seq(CallRecords)
  BY DEF ShapeInv, BatchShape
<1> QED BY <1>1, MessagesDiffer DEF Messages

\* A user message answers nothing.
LEMMA UserIsNoAnswer ==
    ASSUME ShapeInv, AnswerInv, log' = Append(log, User), NEW id \in Open
    PROVE  \A k \in DOMAIN log' : log'[k] # Result(id)
<1>1. \A k \in DOMAIN log : log[k] # Result(id)
  BY DEF AnswerInv, BatchIsOpen
<1>2. /\ \A k \in DOMAIN log' : k \in DOMAIN log \/ k = Len(log) + 1
      /\ \A k \in DOMAIN log : log'[k] = log[k]
      /\ log'[Len(log) + 1] = User
  BY UserMessage, AppendIs
<1> QED BY <1>1, <1>2, UserMessage

LEMMA ToldAnswer ==
    ASSUME ShapeInv, AnswerInv, Told
    PROVE  AnswerInv'
<1>1. /\ log' = Append(log, User) /\ pending' = pending /\ outcomes' = outcomes
      /\ taskStart' = IF pc = "idle" THEN Len(log) ELSE taskStart
  BY DEF Told, batchVars
<1>2. Open' = Open
  BY <1>1 DEF Open
<1>3. BatchIsOpen'
  BY <1>1, <1>2, UserIsNoAnswer DEF AnswerInv, BatchIsOpen
<1>4. CASE pc = "idle"
  <2>1. /\ Len(log') = Len(log) + 1 /\ log'[Len(log) + 1] = User /\ Len(log) \in Nat
    BY <1>1, UserMessage, AppendIs
  <2>2. \A i \in taskStart' + 1 .. Len(log') : ~Announces(log'[i])
    BY <1>1, <1>4, <2>1, UserMessage
  <2> QED BY <1>3, <2>2 DEF AnswerInv, TaskIsAnswered
<1>5. CASE pc # "idle"
  <2>1. taskStart' = taskStart
    BY <1>1, <1>5
  <2>2. TaskIsAnswered'
    BY <1>1, <1>2, <1>5, <2>1, UserMessage, AppendedMessage
  <2> QED BY <1>3, <2>2 DEF AnswerInv
<1> QED BY <1>4, <1>5

LEMMA GateAnswer ==
    ASSUME ShapeInv, AnswerInv, Gate
    PROVE  AnswerInv'
<1>1. /\ pc = "dispatch" /\ UNCHANGED taskStart
      /\ log' = log \/ log' = Append(log, User)
      /\ outcomes' = Append(outcomes, Id) /\ pending' = Tail(pending)
  BY GateKinds DEF Conclude
<1>2. /\ outcomes \in Seq(Ids) /\ pending \in Seq(Ids) /\ pending # <<>>
      /\ IsInjective(pending) /\ IsInjective(outcomes)
      /\ ToSet(pending) \cap ToSet(outcomes) = {}
  BY <1>1 DEF ShapeInv, BatchShape, AnswerInv, BatchIsOpen
<1>3. Id \in Ids /\ Id \in ToSet(pending) /\ ToSet(pending) = {Id} \cup ToSet(Tail(pending))
  BY <1>2, HeadTail, HeadTailSet DEF Id
<1>4. Id \notin ToSet(Tail(pending)) /\ Id \notin ToSet(outcomes)
  BY <1>2, <1>3, HeadTailInjective DEF Id
<1>5. ToSet(outcomes') = ToSet(outcomes) \cup {Id} /\ IsInjective(outcomes')
  BY <1>1, <1>2, <1>3, <1>4, AppendSet, OneMoreInjective
<1>6. Open' = Open /\ ToSet(pending') \cap ToSet(outcomes') = {}
  BY <1>1, <1>2, <1>3, <1>4, <1>5 DEF Open
<1>7. BatchIsOpen'
  BY <1>1, <1>5, <1>6, UserIsNoAnswer DEF AnswerInv, BatchIsOpen
<1>8. TaskIsAnswered'
  <2>1. CASE log' = log
    BY <1>1, <1>6, <2>1 DEF AnswerInv, TaskIsAnswered
  <2>2. CASE log' = Append(log, User)
    BY <1>1, <1>6, <2>2, UserMessage, AppendedMessage
  <2> QED BY <1>1, <2>1, <2>2
<1> QED BY <1>7, <1>8 DEF AnswerInv

LEMMA CollectAnswer ==
    ASSUME ShapeInv, AnswerInv, Collect
    PROVE  AnswerInv'
<1> DEFINE id0 == Head(outcomes)
<1>1. /\ pc = "collect" /\ outcomes' = Tail(outcomes) /\ taskStart' = taskStart
      /\ pending' = pending /\ pending = <<>>
  BY DEF Collect, ShapeInv, BatchShape
<1>2. /\ id0 \in Ids /\ outcomes # <<>> /\ outcomes \in Seq(Ids) /\ IsInjective(outcomes)
      /\ log' = Append(log, Result(id0)) /\ Result(id0) \in Messages(Len(trace))
  BY Collected DEF ShapeInv, BatchShape, AnswerInv, BatchIsOpen
<1>3. /\ ToSet(outcomes) = {id0} \cup ToSet(outcomes')
      /\ id0 \notin ToSet(outcomes') /\ IsInjective(outcomes')
  BY <1>1, <1>2, HeadTailSet, HeadTailInjective
<1>4. ToSet(pending) = {}
  BY <1>1 DEF ToSet
<1> HIDE DEF id0
<1>5. Open = {id0} \cup Open' /\ id0 \notin Open'
  BY <1>1, <1>3, <1>4 DEF Open
<1>6. log \in Seq(Messages(Len(trace))) /\ Len(trace) \in Nat
  BY UserMessage
<1>7. BatchIsOpen'
  <2>1. ASSUME NEW id \in Open' PROVE \A k \in DOMAIN log' : log'[k] # Result(id)
    <3>1. id \in Open /\ id # id0
      BY <1>5
    <3>2. \A k \in DOMAIN log : log[k] # Result(id)
      BY <3>1 DEF AnswerInv, BatchIsOpen
    <3>3. /\ \A k \in DOMAIN log' : k \in DOMAIN log \/ k = Len(log) + 1
          /\ \A k \in DOMAIN log : log'[k] = log[k]
          /\ log'[Len(log) + 1] = Result(id0)
      BY <1>2, <1>6, AppendIs
    <3> QED BY <3>1, <3>2, <3>3, MessagesDiffer
  <2> QED BY <1>1, <1>3, <1>4, <2>1 DEF BatchIsOpen
<1>8. TaskIsAnswered'
  <2>1. \A id : Result(id0) = Result(id) => id = id0
    BY MessagesDiffer
  <2>2. ~Announces(Result(id0))
    BY MessagesDiffer
  <2> QED BY <1>1, <1>2, <1>5, <1>6, <2>1, <2>2, AppendedMessage
<1> QED BY <1>7, <1>8 DEF AnswerInv

LEMMA AnnounceAnswer ==
    ASSUME ShapeInv, AnswerInv, NEW batch \in Batches, Announce(batch)
    PROVE  AnswerInv'
<1> DEFINE fresh == (1 .. Len(trace')) \ Ids
<1>1. /\ pending' \in Seq(fresh)
      /\ \E ids \in Seq(fresh) : /\ ids # <<>> /\ IsInjective(ids)
                                 /\ log' = Append(log, Assistant(ids))
                                 /\ ToSet(pending') = ToSet(ids)
  BY AnnouncedIds
<1>2. PICK ids \in Seq(fresh) : /\ IsInjective(ids) /\ log' = Append(log, Assistant(ids))
                                /\ ToSet(pending') = ToSet(ids)
  BY <1>1
<1>3. /\ pc = "respond" /\ taskStart' = taskStart /\ outcomes' = outcomes /\ outcomes = <<>>
  BY DEF Announce, ShapeInv, BatchShape
<1>4. Open = {} /\ Open' = ToSet(ids) /\ ToSet(outcomes') = {} /\ IsInjective(outcomes')
  <2>1. ToSet(outcomes) = {}
    BY <1>3 DEF ToSet
  <2> QED BY <1>2, <1>3, <2>1, NothingOpen DEF Open, AnswerInv, BatchIsOpen
<1>5. log \in Seq(Messages(Len(trace))) /\ Len(trace) \in Nat
  BY UserMessage
<1>6. Len(trace') \in Nat /\ Len(trace) <= Len(trace')
  BY <1>5, Announced
<1>7. fresh \subseteq 1 .. Len(trace') /\ \A id \in fresh : id \notin 1 .. Len(trace)
  BY DEF Ids
<1> HIDE DEF fresh
<1>8. ids \in Seq(1 .. Len(trace')) /\ ToSet(ids) \subseteq fresh
  BY <1>7, WiderSeq, ElementsOf
<1>9. Assistant(ids) \in Messages(Len(trace')) /\ log \in Seq(Messages(Len(trace')))
  <2>1. Assistant(ids) \in Messages(Len(trace'))
    BY <1>2, <1>8 DEF Messages
  <2> QED BY <1>5, <1>6, <2>1, MessagesGrow, WiderSeq
<1>10. BatchIsOpen'
  <2>1. ASSUME NEW id \in Open' PROVE \A k \in DOMAIN log' : log'[k] # Result(id)
    <3>1. id \notin 1 .. Len(trace)
      BY <1>4, <1>7, <1>8
    <3>2. \A k \in DOMAIN log : log[k] # Result(id)
      <4>1. \A k \in DOMAIN log : log[k] \in Messages(Len(trace))
        BY <1>5
      <4> QED BY <1>5, <3>1, <4>1, MessageKinds
    <3>3. /\ \A k \in DOMAIN log' : k \in DOMAIN log \/ k = Len(log) + 1
          /\ \A k \in DOMAIN log : log'[k] = log[k]
          /\ log'[Len(log) + 1] = Assistant(ids)
      BY <1>2, <1>9, AppendIs
    <3> QED BY <3>2, <3>3, MessagesDiffer
  <2> QED BY <1>4, <2>1 DEF BatchIsOpen
<1>11. TaskIsAnswered'
  <2>1. \A id : Assistant(ids) # Result(id)
    BY MessagesDiffer
  <2>2. ToSet(Assistant(ids).calls) \subseteq Open'
    BY <1>4, MessageFields
  <2> QED BY <1>2, <1>3, <1>4, <1>6, <1>9, <2>1, <2>2, AppendedMessage
<1> QED BY <1>10, <1>11 DEF AnswerInv

LEMMA CompactAnswer ==
    ASSUME ShapeInv, AnswerInv, Compact
    PROVE  AnswerInv'
<1>1. PICK first \in UnitStarts :
          /\ log' = SubSeq(log, first, Len(log))
          /\ taskStart' = IF taskStart < first THEN 0 ELSE taskStart - (first - 1)
  BY DEF Compact
<1>2. pc = "request" /\ pending' = pending /\ outcomes' = outcomes /\ Open = {} /\ Open' = Open
  BY NothingOpen DEF Compact, batchVars, Open
<1>3. BatchIsOpen'
  BY <1>2 DEF AnswerInv, BatchIsOpen
<1>4. /\ first \in Nat \ {0} /\ Len(log') = Len(log) + 1 - first
      /\ \A k \in 1 .. Len(log') : /\ k + (first - 1) \in DOMAIN log
                                   /\ log'[k] = log[k + (first - 1)]
  BY <1>1, UnitStartsInside
<1>5. taskStart \in 0 .. Len(log) /\ Len(log) \in Nat
  BY DEF ShapeInv, BatchShape
<1>6. ASSUME NEW i \in taskStart' + 1 .. Len(log'), Announces(log'[i]),
             NEW id \in ToSet(log'[i].calls)
      PROVE  AnsweredIn(log', i, id)
  <2>1. /\ i \in 1 .. Len(log') /\ i + (first - 1) \in taskStart + 1 .. Len(log)
    BY <1>1, <1>4, <1>5, SMTT(30)
  <2>2. log'[i] = log[i + (first - 1)]
    BY <1>4, <2>1
  <2>3. AnsweredIn(log, i + (first - 1), id)
    BY <1>2, <1>6, <2>1, <2>2 DEF AnswerInv, TaskIsAnswered
  <2> QED BY <1>1, <2>1, <2>3, AnsweredAfterCut
<1> QED BY <1>3, <1>6 DEF AnswerInv, TaskIsAnswered

LEMMA QuietAnswer ==
    ASSUME ShapeInv, AnswerInv, Left \/ Kept
    PROVE  AnswerInv'
<1>1. CASE Left
  <2>1. ToSet(pending') = {} /\ Open' = {} /\ IsInjective(outcomes') /\ pc' = "idle"
    BY <1>1 DEF Left, Open, ToSet, IsInjective
  <2> QED BY <2>1 DEF AnswerInv, BatchIsOpen, TaskIsAnswered
<1>2. CASE Kept
  <2>1. /\ UNCHANGED <<log, taskStart, pending, outcomes>> /\ (pc = "idle" => pc' = "idle")
    BY <1>2 DEF Kept, batchVars
  <2>2. Open' = Open
    BY <2>1 DEF Open
  <2> QED BY <2>1, <2>2 DEF AnswerInv, BatchIsOpen, TaskIsAnswered
<1> QED BY <1>1, <1>2

LEMMA AnswerStep == ShapeInv /\ AnswerInv /\ [Next]_vars => AnswerInv'
  BY StepKinds, ToldAnswer, QuietAnswer, CompactAnswer, GateAnswer, CollectAnswer,
     AnnounceAnswer

LEMMA AnswerAlways == Spec => []AnswerInv
  BY InitAnswer, AnswerStep, ShapeAlways, PTL DEF Spec

\* While a task goes on, every call it announced has exactly one recorded result
\* after its announcement, whatever was cancelled, folded or compacted before.
THEOREM TaskCallsAnsweredOnce == Spec => []AnsweredOnce
<1>1. ShapeInv /\ AnswerInv => AnsweredOnce
  <2> SUFFICES ASSUME ShapeInv, AnswerInv, pc = "request",
                      NEW i \in taskStart + 1 .. Len(log), Announces(log[i]),
                      NEW id \in ToSet(log[i].calls)
               PROVE  Cardinality({j \in i + 1 .. Len(log) : log[j] = Result(id)}) = 1
    BY DEF AnsweredOnce
  <2>1. AnsweredIn(log, i, id)
    BY NothingOpen DEF AnswerInv, TaskIsAnswered
  <2>2. PICK j \in i + 1 .. Len(log) : /\ log[j] = Result(id)
                                       /\ \A k \in DOMAIN log : log[k] = Result(id) => k = j
    BY <2>1 DEF AnsweredIn
  <2>3. i \in Nat /\ DOMAIN log = 1 .. Len(log)
    BY DEF ShapeInv, BatchShape
  <2>4. {k \in i + 1 .. Len(log) : log[k] = Result(id)} = {j}
    BY <2>2, <2>3
  <2> QED BY <2>4, FS_Singleton
<1> QED BY <1>1, ShapeAlways, AnswerAlways, PTL

-----------------------------------------------------------------------------
(* What a duplicate points to. *)

\* The call t may have changed the workspace.
Settles(t) == t.call \in Mutations /\ t.end \in {"ran", "failed"}

EntriesAreTrue ==
    \A i \in DOMAIN ledger : LET t == trace[ledger[i].id]
                             IN  t.call = i /\ t.end = "ran" /\ t.saw = ledger[i].stamp

SearchIsLast ==
    Search \in DOMAIN ledger => \A m \in Ids : m >= ledger[Search].id => ~Settles(trace[m])

DuplicatesPoint ==
    \A id \in Ids : trace[id].end = "duplicate" =>
       /\ trace[id].of \in Ids /\ trace[trace[id].of].end = "ran"
       /\ trace[trace[id].of].saw = trace[id].saw
       /\ trace[id].call = Search => \A m \in trace[id].of .. id : ~Settles(trace[m])

\* But for the cut-off calls, which go first, calls pass the gate as announced.
InOrder ==
    /\ \A p \in ToSet(pending), id \in Ids :
          trace[p].call # CutOff /\ trace[id].call # CutOff /\ trace[id].end # "announced" => id < p
    /\ \A j, k \in DOMAIN pending :
          j < k /\ trace[pending[j]].call # CutOff /\ trace[pending[k]].call # CutOff =>
             pending[j] < pending[k]

FreshInv == EntriesAreTrue /\ SearchIsLast /\ DuplicatesPoint /\ InOrder

LEMMA CallKinds ==
    /\ Search \in Inspections
    /\ \A c \in Inspections : c \notin Mutations /\ c # CutOff /\ c \in Affected(c)
    /\ \A c \in Mutations : c # CutOff /\ Search \in Affected(c)
<1> USE DEF Inspections, Mutations, Read, Write, Search, Shell, CutOff
<1>1. \A c \in Inspections : c.tool \in {"read", "search"}
  OBVIOUS
<1>2. \A c \in Mutations : c.tool = "shell" \/ (c.tool = "write" /\ c.file \in Files)
  OBVIOUS
<1>3. CutOff.tool = "write" /\ CutOff.file \notin Files
  BY ConstantsAssumption
<1>4. Search \in Inspections /\ Search.tool = "search"
  OBVIOUS
<1> HIDE DEF Inspections, Mutations, Read, Write, Search, Shell, CutOff
<1> QED BY <1>1, <1>2, <1>3, <1>4 DEF Affected

LEMMA InitFresh == Init => FreshInv
<1> SUFFICES ASSUME Init PROVE FreshInv
  OBVIOUS
<1>1. DOMAIN ledger = {} /\ Ids = {} /\ DOMAIN pending = {} /\ ToSet(pending) = {}
  BY DEF Init, Ids, ToSet
<1> QED BY <1>1 DEF FreshInv, EntriesAreTrue, SearchIsLast, DuplicatesPoint, InOrder

LEMMA CalmFresh ==
    ASSUME ShapeInv, FreshInv, UNCHANGED <<trace, ledger>>,
           pending' = pending \/ pending' = <<>>
    PROVE  FreshInv'
<1>1. Ids' = Ids /\ trace' = trace
  BY DEF Ids
<1>2. EntriesAreTrue' /\ SearchIsLast' /\ DuplicatesPoint'
  BY <1>1 DEF FreshInv, EntriesAreTrue, SearchIsLast, DuplicatesPoint
<1>3. CASE pending' = pending
  BY <1>1, <1>2, <1>3 DEF FreshInv, InOrder
<1>4. CASE pending' = <<>>
  <2>1. ToSet(pending') = {} /\ DOMAIN pending' = {}
    BY <1>4 DEF ToSet
  <2> QED BY <1>2, <2>1 DEF FreshInv, InOrder
<1> QED BY <1>3, <1>4

LEMMA AnnounceFresh ==
    ASSUME ShapeInv, FreshInv, NEW batch \in Batches, Announce(batch)
    PROVE  FreshInv'
<1>1. /\ Len(trace') = Len(trace) + Len(batch) /\ Len(batch) \in Nat \ {0}
      /\ \A id \in Ids : trace'[id] = trace[id]
      /\ \A id \in 1 .. Len(trace') : id \notin Ids =>
            /\ trace'[id].call = batch[id - Len(trace)]
            /\ trace'[id].end = "announced"
  BY Announced
<1>2. Ids \subseteq Ids' /\ Ids' = 1 .. Len(trace') /\ Len(trace) \in Nat
  BY <1>1 DEF Ids, ShapeInv, BatchShape
<1>3. /\ \A m \in Ids : Settles(trace'[m]) <=> Settles(trace[m])
      /\ \A m \in Ids' : m \notin Ids => ~Settles(trace'[m])
  BY <1>1, <1>2 DEF Settles
<1>4. ledger' = ledger
  BY DEF Announce
<1>5. \A i \in DOMAIN ledger : ledger[i].id \in Ids
  BY DEF ShapeInv, LedgerShape, EntryRecords, Ids
<1>6. EntriesAreTrue'
  BY <1>1, <1>4, <1>5 DEF FreshInv, EntriesAreTrue
<1>7. SearchIsLast'
  BY <1>3, <1>4 DEF FreshInv, SearchIsLast
<1>8. DuplicatesPoint'
  <2> SUFFICES ASSUME NEW id \in Ids', trace'[id].end = "duplicate"
               PROVE  /\ trace'[id].of \in Ids' /\ trace'[trace'[id].of].end = "ran"
                      /\ trace'[trace'[id].of].saw = trace'[id].saw
                      /\ trace'[id].call = Search => \A m \in trace'[id].of .. id : ~Settles(trace'[m])
    BY DEF DuplicatesPoint
  <2>1. id \in Ids /\ trace'[id] = trace[id]
    BY <1>1, <1>2
  <2>2. /\ trace[id].of \in Ids /\ trace[trace[id].of].end = "ran"
        /\ trace[trace[id].of].saw = trace[id].saw
        /\ trace[id].call = Search => \A m \in trace[id].of .. id : ~Settles(trace[m])
    BY <2>1 DEF FreshInv, DuplicatesPoint
  <2>3. \A m \in trace[id].of .. id : m \in Ids
    BY <1>2, <2>1, <2>2 DEF Ids
  <2> QED BY <1>1, <1>2, <1>3, <2>1, <2>2, <2>3
<1>9. InOrder'
  <2> DEFINE fresh == (1 .. Len(trace')) \ Ids
  <2>1. pending' \in Seq(fresh)
    BY AnnouncedIds
  <2>2. ToSet(pending') \subseteq fresh /\ \A k \in DOMAIN pending' : pending'[k] \in fresh
    BY <2>1, ElementsOf
  <2>3. \A p \in fresh, id \in Ids : id < p
    BY <1>2 DEF Ids
  <2>4. \A id \in Ids' : trace'[id].end # "announced" => id \in Ids
    BY <1>1, <1>2
  <2>5. \A j, k \in DOMAIN pending' : j < k =>
           \/ pending'[j] < pending'[k]
           \/ batch[pending'[j] - Len(trace)] = CutOff
           \/ batch[pending'[k] - Len(trace)] = CutOff
    <3>1. DOMAIN pending' = DOMAIN batch
      BY DEF Announce, Bijection, Injection
    <3> QED BY <3>1 DEF Announce
  <2>6. \A k \in DOMAIN pending' : trace'[pending'[k]].call = batch[pending'[k] - Len(trace)]
    BY <1>1, <2>2
  <2> HIDE DEF fresh
  <2> QED BY <2>2, <2>3, <2>4, <2>5, <2>6 DEF InOrder
<1> QED BY <1>6, <1>7, <1>8, <1>9 DEF FreshInv

\* What every gate action does to the calls: the first pending one is concluded,
\* the others stay, and none of the ledger's or a duplicate's calls is the one.
Concluded(end, referent) ==
    /\ trace'[Id].call = Call /\ trace'[Id].end = end
    /\ trace'[Id].of = referent /\ trace'[Id].saw = Stamp
    /\ \A m \in Ids : m # Id => trace'[m] = trace[m]
    /\ Ids' = Ids /\ Id \in Ids /\ trace[Id].end = "announced"

LEMMA GateConcludes ==
    ASSUME ShapeInv, pc = "dispatch", NEW end \in Ends, NEW referent \in 0 .. Len(trace),
           Conclude(end, referent)
    PROVE  Concluded(end, referent)
<1>1. /\ Len(trace') = Len(trace)
      /\ trace'[Id] = [call |-> Call, end |-> end, of |-> referent, saw |-> Stamp]
      /\ \A k \in Ids : k # Id => trace'[k] = trace[k]
  BY CallConcluded
<1>2. /\ trace'[Id].call = Call /\ trace'[Id].end = end
      /\ trace'[Id].of = referent /\ trace'[Id].saw = Stamp
  BY <1>1
<1>3. Id \in Ids /\ trace[Id].end = "announced" /\ Ids' = Ids
  BY <1>1, AtTheGate DEF Ids
<1> QED BY <1>1, <1>2, <1>3 DEF Concluded

LEMMA GateOrder ==
    ASSUME ShapeInv, FreshInv, pc = "dispatch", NEW end, NEW referent,
           Conclude(end, referent), Concluded(end, referent)
    PROVE  InOrder'
<1>1. /\ pending \in Seq(Ids) /\ pending # <<>> /\ IsInjective(pending)
      /\ pending' = Tail(pending) /\ Id = pending[1] /\ 1 \in DOMAIN pending
      /\ \A k \in DOMAIN Tail(pending) : /\ k + 1 \in DOMAIN pending
                                         /\ Tail(pending)[k] = pending[k + 1]
  BY AtTheGate DEF ShapeInv, BatchShape, Conclude
<1>2. \A k \in DOMAIN pending' : /\ k \in Nat \ {0} /\ k + 1 \in DOMAIN pending
                                 /\ pending'[k] = pending[k + 1]
                                 /\ pending'[k] \in Ids /\ pending'[k] # Id
  <2>1. \A k \in DOMAIN pending' : k \in Nat \ {0} /\ k + 1 # 1
    BY <1>1
  <2> QED BY <1>1, <2>1 DEF IsInjective
<1>3. \A k \in DOMAIN pending' : trace'[pending'[k]] = trace[pending[k + 1]]
  BY <1>2 DEF Concluded
<1>4. ASSUME NEW j \in DOMAIN pending', NEW k \in DOMAIN pending', j < k,
             trace'[pending'[j]].call # CutOff, trace'[pending'[k]].call # CutOff
      PROVE  pending'[j] < pending'[k]
  <2>1. j + 1 < k + 1 /\ j + 1 \in DOMAIN pending /\ k + 1 \in DOMAIN pending
    BY <1>2, <1>4
  <2>2. trace[pending[j + 1]].call # CutOff /\ trace[pending[k + 1]].call # CutOff
    BY <1>3, <1>4
  <2> QED BY <1>2, <2>1, <2>2 DEF FreshInv, InOrder
<1>5. ASSUME NEW k \in DOMAIN pending', NEW id \in Ids',
             trace'[pending'[k]].call # CutOff, trace'[id].call # CutOff,
             trace'[id].end # "announced"
      PROVE  id < pending'[k]
  <2>1. id \in Ids /\ pending'[k] \in ToSet(pending) /\ trace[pending'[k]].call # CutOff
    BY <1>2, <1>3, <1>5 DEF Concluded, ToSet
  <2>2. CASE id = Id
    <3>1. trace[pending[1]].call # CutOff /\ trace[pending[k + 1]].call # CutOff /\ 1 < k + 1
      BY <1>1, <1>2, <1>3, <1>5, <2>2 DEF Concluded, Call
    <3> QED BY <1>1, <1>2, <2>2, <3>1 DEF FreshInv, InOrder
  <2>3. CASE id # Id
    <3>1. trace'[id] = trace[id]
      BY <2>1, <2>3 DEF Concluded
    <3> QED BY <1>5, <2>1, <3>1 DEF FreshInv, InOrder
  <2> QED BY <2>2, <2>3
<1> QED BY <1>4, <1>5 DEF InOrder, ToSet

\* Entries that stay in the ledger stay true, and so do the duplicates of before.
LEMMA OldEntriesStay ==
    ASSUME ShapeInv, FreshInv, NEW end, NEW referent, Concluded(end, referent)
    PROVE  /\ \A i \in DOMAIN ledger : /\ ledger[i].id \in Ids \ {Id}
                                       /\ trace'[ledger[i].id].call = i
                                       /\ trace'[ledger[i].id].end = "ran"
                                       /\ trace'[ledger[i].id].saw = ledger[i].stamp
           /\ Search \in DOMAIN ledger => \A m \in Ids : m >= ledger[Search].id => ~Settles(trace[m])
<1>1. \A i \in DOMAIN ledger : ledger[i].id \in Ids
  BY DEF ShapeInv, LedgerShape, EntryRecords, Ids
<1> QED BY <1>1 DEF FreshInv, EntriesAreTrue, SearchIsLast, Concluded

LEMMA OldDuplicatesStay ==
    ASSUME ShapeInv, FreshInv, pc = "dispatch", NEW end, NEW referent,
           Concluded(end, referent), NEW id \in Ids \ {Id}, trace'[id].end = "duplicate"
    PROVE  /\ trace'[id].of \in Ids' /\ trace'[trace'[id].of].end = "ran"
           /\ trace'[trace'[id].of].saw = trace'[id].saw
           /\ trace'[id].call = Search => \A m \in trace'[id].of .. id : ~Settles(trace'[m])
<1>1. trace'[id] = trace[id] /\ Ids' = Ids
  BY DEF Concluded
<1>2. /\ trace[id].of \in Ids /\ trace[trace[id].of].end = "ran"
      /\ trace[trace[id].of].saw = trace[id].saw
      /\ trace[id].call = Search => \A m \in trace[id].of .. id : ~Settles(trace[m])
  BY <1>1 DEF FreshInv, DuplicatesPoint
<1>3. trace[id].of # Id
  BY <1>2 DEF Concluded
<1>4. ASSUME trace[id].call = Search, NEW m \in trace[id].of .. id
      PROVE  ~Settles(trace'[m])
  <2>1. m \in Ids /\ id \in Nat
    BY <1>2, <1>4 DEF Ids, ShapeInv, BatchShape
  <2>2. CASE m = Id
    <3> SUFFICES ASSUME Call \in Mutations PROVE FALSE
      BY <2>2 DEF Concluded, Settles
    <3>2. trace[Id].call # CutOff /\ trace[id].call # CutOff
      BY <1>4, CallKinds DEF Call
    <3>3. Id \in ToSet(pending)
      BY AtTheGate DEF ToSet
    <3>4. id < Id
      BY <1>1, <3>2, <3>3 DEF FreshInv, InOrder
    <3> QED BY <1>2, <1>4, <2>1, <2>2, <3>4
  <2>3. CASE m # Id
    BY <1>2, <1>4, <2>1, <2>3 DEF Concluded
  <2> QED BY <2>2, <2>3
<1> QED BY <1>1, <1>2, <1>3, <1>4 DEF Concluded

\* The call is refused, or fails without effect on the ledger: fewer entries.
LEMMA FewerEntries ==
    ASSUME ShapeInv, FreshInv, NEW end, NEW referent, Concluded(end, referent),
           NEW entries, DOMAIN entries \subseteq DOMAIN ledger,
           \A i \in DOMAIN entries : entries[i] = ledger[i], ledger' = entries,
           Search \in DOMAIN entries => ~Settles(trace'[Id])
    PROVE  EntriesAreTrue' /\ SearchIsLast'
<1>1. EntriesAreTrue'
  BY OldEntriesStay DEF EntriesAreTrue
<1>2. SearchIsLast'
  <2> SUFFICES ASSUME Search \in DOMAIN entries, NEW m \in Ids, m >= entries[Search].id
               PROVE  ~Settles(trace'[m])
    BY DEF SearchIsLast, Concluded
  <2>1. ~Settles(trace[m])
    BY OldEntriesStay
  <2> QED BY <2>1 DEF Concluded
<1> QED BY <1>1, <1>2

\* A gate action that concludes a call otherwise than as a duplicate.
LEMMA DuplicatesKept ==
    ASSUME ShapeInv, FreshInv, pc = "dispatch", NEW end, NEW referent,
           Concluded(end, referent), end # "duplicate"
    PROVE  DuplicatesPoint'
<1>1. trace'[Id].end # "duplicate" /\ Ids' = Ids
  BY DEF Concluded
<1> QED BY <1>1, OldDuplicatesStay DEF DuplicatesPoint

LEMMA RefusedFresh ==
    ASSUME ShapeInv, FreshInv, pc = "dispatch", Conclude("refused", 0),
           ledger' = ledger \/ ledger' = CheckedLedger
    PROVE  FreshInv'
<1>1. Concluded("refused", 0) /\ "refused" # "duplicate"
  <2>1. "refused" \in Ends /\ 0 \in 0 .. Len(trace)
    BY DEF Ends, ShapeInv, BatchShape
  <2> QED BY <2>1, GateConcludes
<1>2. ~Settles(trace'[Id])
  BY <1>1 DEF Concluded, Settles
<1>3. EntriesAreTrue' /\ SearchIsLast'
  BY <1>1, <1>2, CheckedIs, FewerEntries
<1> QED BY <1>1, <1>3, GateOrder, DuplicatesKept DEF FreshInv

LEMMA DuplicateFresh ==
    ASSUME ShapeInv, FreshInv, pc = "dispatch", IsDuplicate,
           Conclude("duplicate", CheckedLedger[Call].id), ledger' = CheckedLedger
    PROVE  FreshInv'
<1> DEFINE referent == CheckedLedger[Call].id
<1>1. /\ Call \in DOMAIN ledger /\ CheckedLedger[Call] = ledger[Call]
      /\ Call \in Inspections /\ ledger[Call].stamp = Stamp
  BY CheckedIs, CallKinds DEF IsDuplicate, ShapeInv, LedgerShape
<1>2. referent \in Ids
  BY <1>1 DEF ShapeInv, LedgerShape, EntryRecords, Ids
<1>3. Concluded("duplicate", referent)
  <2>1. "duplicate" \in Ends /\ referent \in 0 .. Len(trace)
    BY <1>2 DEF Ends, Ids, ShapeInv, BatchShape
  <2> QED BY <2>1, GateConcludes
<1>4. ~Settles(trace'[Id])
  BY <1>3 DEF Concluded, Settles
<1>5. EntriesAreTrue' /\ SearchIsLast'
  BY <1>3, <1>4, CheckedIs, FewerEntries
<1>6. referent # Id /\ trace'[referent].end = "ran" /\ trace'[referent].saw = Stamp
  BY <1>1, <1>3, OldEntriesStay
<1>7. Call = Search => \A m \in referent .. Id : ~Settles(trace'[m])
  <2> SUFFICES ASSUME Call = Search, NEW m \in referent .. Id PROVE ~Settles(trace'[m])
    OBVIOUS
  <2>1. m \in Ids /\ m >= ledger[Search].id
    BY <1>1, <1>2, <1>3 DEF Concluded, Ids, ShapeInv, BatchShape
  <2>2. ~Settles(trace[m])
    BY <1>1, <1>3, <2>1, OldEntriesStay
  <2> QED BY <1>3, <1>4, <2>1, <2>2 DEF Concluded
<1>8. /\ trace'[Id].of = referent /\ trace'[Id].saw = Stamp /\ trace'[Id].call = Call
      /\ Ids' = Ids
  BY <1>3 DEF Concluded
<1> HIDE DEF referent
<1>9. DuplicatesPoint'
  <2>1. ASSUME NEW id \in Ids', trace'[id].end = "duplicate"
        PROVE  /\ trace'[id].of \in Ids' /\ trace'[trace'[id].of].end = "ran"
               /\ trace'[trace'[id].of].saw = trace'[id].saw
               /\ trace'[id].call = Search =>
                     \A m \in trace'[id].of .. id : ~Settles(trace'[m])
    <3>1. CASE id = Id
      BY <1>2, <1>6, <1>7, <1>8, <3>1
    <3>2. CASE id # Id
      BY <1>3, <1>8, <2>1, <3>2, OldDuplicatesStay
    <3> QED BY <3>1, <3>2
  <2> QED BY <2>1 DEF DuplicatesPoint
<1> QED BY <1>3, <1>5, <1>9, GateOrder DEF FreshInv, referent

\* A settled mutation leaves no search in the ledger.
LEMMA MutatedFresh ==
    ASSUME ShapeInv, FreshInv, NEW end, Concluded(end, 0), Call \in Mutations,
           ledger' = Forget(CheckedLedger, Call)
    PROVE  EntriesAreTrue' /\ SearchIsLast'
<1>1. Search \notin DOMAIN Forget(CheckedLedger, Call)
  <2>1. Search \in Affected(Call)
    BY CallKinds
  <2> QED BY <2>1, Forgotten
<1>2. /\ DOMAIN Forget(CheckedLedger, Call) \subseteq DOMAIN ledger
      /\ \A i \in DOMAIN Forget(CheckedLedger, Call) :
            Forget(CheckedLedger, Call)[i] = ledger[i]
  BY CheckedIs, Forgotten, ZenonT(30)
<1> QED BY <1>1, <1>2, FewerEntries

\* A recorded search is the last call but for those still to pass the gate.
LEMMA RecordedFresh ==
    ASSUME ShapeInv, FreshInv, pc = "dispatch", Concluded("ran", 0), Call \in Inspections,
           ledger' = Recorded(CheckedLedger)
    PROVE  EntriesAreTrue' /\ SearchIsLast'
<1>1. /\ DOMAIN ledger' = DOMAIN CheckedLedger \cup {Call}
      /\ ledger'[Call].id = Id /\ ledger'[Call].stamp = Stamp
      /\ \A i \in DOMAIN CheckedLedger : i # Call => ledger'[i] = ledger[i] /\ i \in DOMAIN ledger
  <2>1. /\ DOMAIN ledger' = DOMAIN CheckedLedger \cup {Call}
        /\ ledger'[Call] = [id |-> Id, stamp |-> Stamp]
        /\ \A i \in DOMAIN CheckedLedger : i # Call => ledger'[i] = CheckedLedger[i]
    BY RecordedIs
  <2>2. ledger'[Call].id = Id /\ ledger'[Call].stamp = Stamp
    BY <2>1
  <2> QED BY <2>1, <2>2, CheckedIs
<1>2. EntriesAreTrue'
  <2>1. ASSUME NEW i \in DOMAIN ledger'
        PROVE  /\ trace'[ledger'[i].id].call = i /\ trace'[ledger'[i].id].end = "ran"
               /\ trace'[ledger'[i].id].saw = ledger'[i].stamp
    <3>1. CASE i = Call
      BY <1>1, <3>1 DEF Concluded
    <3>2. CASE i # Call
      BY <1>1, <3>2, OldEntriesStay
    <3> QED BY <3>1, <3>2
  <2> QED BY <2>1 DEF EntriesAreTrue
<1>3. ~Settles(trace'[Id])
  BY CallKinds DEF Concluded, Settles
<1>4. SearchIsLast'
  <2> SUFFICES ASSUME Search \in DOMAIN ledger', NEW m \in Ids, m >= ledger'[Search].id
               PROVE  ~Settles(trace'[m])
    BY DEF SearchIsLast, Concluded
  <2>1. CASE m = Id
    BY <1>3, <2>1
  <2>2. CASE m # Id /\ Call # Search
    <3>1. ~Settles(trace[m])
      BY <1>1, <2>2, OldEntriesStay
    <3> QED BY <2>2, <3>1 DEF Concluded
  <2>3. CASE m # Id /\ Call = Search
    <3> SUFFICES ASSUME Settles(trace[m]) PROVE FALSE
      BY <2>3 DEF Concluded
    <3>1. trace[m].call # CutOff /\ trace[m].end # "announced" /\ trace[Id].call # CutOff
      BY CallKinds DEF Settles, Call
    <3>2. Id \in ToSet(pending)
      BY AtTheGate DEF ToSet
    <3>3. m < Id
      BY <3>1, <3>2 DEF FreshInv, InOrder
    <3>4. m >= Id /\ m \in Nat /\ Id \in Nat
      BY <1>1, <2>3 DEF Ids, Concluded
    <3> QED BY <3>3, <3>4
  <2> QED BY <2>1, <2>2, <2>3
<1> QED BY <1>2, <1>4

LEMMA DispatchedFresh ==
    ASSUME ShapeInv, FreshInv, pc = "dispatch", NEW end \in {"ran", "failed"},
           Conclude(end, 0), PostDispatch(end), Call \in Inspections \cup Mutations
    PROVE  FreshInv'
<1>1. Concluded(end, 0) /\ end # "duplicate"
  <2>1. end \in Ends /\ 0 \in 0 .. Len(trace) /\ end # "duplicate"
    BY DEF Ends, ShapeInv, BatchShape
  <2> QED BY <2>1, GateConcludes
<1>2. EntriesAreTrue' /\ SearchIsLast'
  <2>1. CASE Call \in Mutations
    <3>1. ledger' = Forget(CheckedLedger, Call)
      <4>1. Call \notin Inspections
        BY <2>1, CallKinds
      <4> QED BY <2>1, <4>1 DEF PostDispatch
    <3> QED BY <1>1, <2>1, <3>1, MutatedFresh
  <2>2. CASE Call \notin Mutations /\ end = "ran"
    <3>1. ledger' = Recorded(CheckedLedger) /\ Call \in Inspections
      BY <2>2 DEF PostDispatch
    <3> QED BY <1>1, <2>2, <3>1, RecordedFresh
  <2>3. CASE Call \notin Mutations /\ end = "failed"
    <3>1. ledger' = CheckedLedger
      BY <2>3 DEF PostDispatch
    <3>2. ~Settles(trace'[Id])
      BY <1>1, <2>3 DEF Concluded, Settles
    <3> QED BY <1>1, <3>1, <3>2, CheckedIs, FewerEntries
  <2> QED BY <2>1, <2>2, <2>3
<1> QED BY <1>1, <1>2, GateOrder, DuplicatesKept DEF FreshInv

LEMMA GateFresh == ShapeInv /\ FreshInv /\ Gate => FreshInv'
  BY GateKinds, RefusedFresh, DuplicateFresh, DispatchedFresh

LEMMA FreshStep == ShapeInv /\ FreshInv /\ [Next]_vars => FreshInv'
<1>1. Told \/ Kept \/ Left => UNCHANGED <<trace, ledger>>
                              /\ (pending' = pending \/ pending' = <<>>)
  BY DEF Told, Kept, Left, batchVars
<1>2. Compact \/ Collect => UNCHANGED <<trace, ledger, pending>>
  BY DEF Compact, Collect, batchVars
<1> QED BY <1>1, <1>2, StepKinds, CalmFresh, GateFresh, AnnounceFresh

LEMMA FreshAlways == Spec => []FreshInv
  BY InitFresh, FreshStep, ShapeAlways, PTL DEF Spec

\* A call is answered as a duplicate of an earlier one only when running it would
\* show the same, for every set of files, limits and interleaving.
THEOREM DuplicatesAlwaysFresh == Spec => []DuplicatesAreFresh
<1>1. ShapeInv /\ FreshInv => DuplicatesAreFresh
  <2> SUFFICES ASSUME ShapeInv, FreshInv PROVE DuplicatesAreFresh
    OBVIOUS
  <2>1. DOMAIN trace = Ids
    BY DEF ShapeInv, BatchShape, Ids
  <2> QED
    BY <2>1 DEF FreshInv, DuplicatesPoint, Settles, DuplicatesAreFresh,
                DuplicateReadIsFresh, DuplicateSearchSeesMutations
<1> QED BY <1>1, ShapeAlways, FreshAlways, PTL

-----------------------------------------------------------------------------
(* The repair of a conversation: the messages it sees, and what stands behind one. *)

\* The messages of a wire whose announcements name no call twice.
WireMessages(S) ==
    {User} \cup {Assistant(calls) : calls \in {q \in Seq(S) : IsInjective(q)}}
           \cup {Result(id) : id \in S} \cup {Unavailable(id) : id \in S}

\* What the messages of a wire carry.
LEMMA WireKinds ==
    ASSUME NEW S, NEW m \in WireMessages(S)
    PROVE  /\ IsResult(m) => m.id \in S /\ ~Announces(m)
           /\ Announces(m) => m.calls \in Seq(S) /\ IsInjective(m.calls) /\ m.calls # <<>> /\ ~IsResult(m)
<1>1. CASE m = User
  BY <1>1 DEF User, IsResult, Announces
<1>2. CASE \E calls \in Seq(S) : IsInjective(calls) /\ m = Assistant(calls)
  BY <1>2 DEF Assistant, IsResult, Announces
<1>3. CASE \E id \in S : m = Result(id) \/ m = Unavailable(id)
  BY <1>3 DEF Result, Unavailable, IsResult, Announces
<1> QED BY <1>1, <1>2, <1>3 DEF WireMessages

\* The results after a message reach up to the next message of another role.
LEMMA AfterIs ==
    ASSUME NEW S, NEW s \in Seq(S), NEW i \in DOMAIN s
    PROVE  \E last \in i .. Len(s) :
              /\ ResultsAfter(s, i) = SubSeq(s, i + 1, last)
              /\ \A j \in i + 1 .. last : IsResult(s[j])
              /\ last < Len(s) => ~IsResult(s[last + 1])
<1> DEFINE n == Len(s)
           others == {j \in i + 1 .. n : ~IsResult(s[j])}
<1>1. n \in Nat /\ i \in 1 .. n /\ i + 1 \in Nat
  BY LenProperties
<1>2. CASE others = {}
  <2>1. ResultsAfter(s, i) = SubSeq(s, i + 1, (n + 1) - 1)
    BY <1>2 DEF ResultsAfter
  <2>2. (n + 1) - 1 = n /\ n \in i .. n
    BY <1>1
  <2>3. (\A j \in i + 1 .. n : IsResult(s[j])) /\ ~(n < Len(s))
    BY <1>1, <1>2
  <2> QED BY <2>1, <2>2, <2>3
<1>3. CASE others # {}
  <2>1. others \in SUBSET Nat
    BY <1>1
  <2>2. \E j \in others : \A k \in others : j <= k
    <3> HIDE DEF others
    <3> QED BY <1>3, <2>1, LeastNumber
  <2>3. Min(others) \in others /\ \A k \in others : Min(others) <= k
    <3> HIDE DEF others
    <3> QED BY <2>2 DEF Min
  <2> DEFINE min == Min(others)
  <2>4. ResultsAfter(s, i) = SubSeq(s, i + 1, min - 1)
    BY <1>3 DEF ResultsAfter
  <2> HIDE DEF min
  <2>5. min \in i + 1 .. n /\ ~IsResult(s[min]) /\ \A k \in i + 1 .. n : ~IsResult(s[k]) => min <= k
    BY <2>3 DEF min
  <2>6. min - 1 \in i .. n /\ (min - 1) + 1 = min
    BY <1>1, <2>5
  <2>7. \A j \in i + 1 .. min - 1 : j \in i + 1 .. n /\ ~(min <= j)
    BY <1>1, <2>5
  <2> QED BY <2>4, <2>5, <2>6, <2>7
<1> QED BY <1>2, <1>3

\* Some results of calls in a set, each of another call.
SomeResults(q, T, S) ==
    /\ q \in Seq(WireMessages(S))
    /\ \A j \in DOMAIN q : IsResult(q[j]) /\ q[j].id \in T
    /\ \A j, k \in DOMAIN q : q[j].id = q[k].id => j = k

LEMMA OneMoreResult ==
    ASSUME NEW S, NEW T, NEW q, SomeResults(q, T, S), NEW m \in WireMessages(S), IsResult(m),
           m.id \in T, m.id \notin {r.id : r \in ToSet(q)}
    PROVE  SomeResults(Append(q, m), T, S)
<1> DEFINE W == WireMessages(S)
<1>0. q \in Seq(W) /\ m \in W /\ \A j \in DOMAIN q : q[j].id # m.id
  BY DEF SomeResults, ToSet
<1> HIDE DEF W
<1>1. /\ Append(q, m) \in Seq(W) /\ Len(q) \in Nat /\ DOMAIN q = 1 .. Len(q)
      /\ DOMAIN Append(q, m) = 1 .. Len(q) + 1 /\ Append(q, m)[Len(q) + 1] = m
      /\ \A i \in 1 .. Len(q) : Append(q, m)[i] = q[i]
  BY <1>0, AppendProperties, LenProperties
<1> DEFINE longer == Append(q, m)
<1> HIDE DEF longer
<1>2. \A j \in DOMAIN longer : \/ j \in DOMAIN q /\ longer[j] = q[j]
                               \/ j = Len(q) + 1 /\ longer[j] = m
  BY <1>1 DEF longer
<1>3. \A j \in DOMAIN longer : IsResult(longer[j]) /\ longer[j].id \in T
  BY <1>2 DEF SomeResults
<1>4. \A j, k \in DOMAIN longer : longer[j].id = longer[k].id => j = k
  BY <1>0, <1>2 DEF SomeResults
<1> QED BY <1>1, <1>3, <1>4 DEF SomeResults, longer, W

\* Two lists that name the same things once each are equally long.
LEMMA SameLength ==
    ASSUME NEW T, NEW m \in Nat, NEW n \in Nat, NEW f \in Bijection(1 .. m, T), NEW g \in Bijection(1 .. n, T)
    PROVE  m = n
<1>1. ExistsBijection(1 .. m, T) /\ ExistsBijection(1 .. n, T)
  BY DEF ExistsBijection
<1>2. IsFiniteSet(1 .. m) /\ Cardinality(1 .. m) = m /\ IsFiniteSet(1 .. n) /\ Cardinality(1 .. n) = n
  BY FS_Interval
<1>3. Cardinality(T) = Cardinality(1 .. m) /\ Cardinality(T) = Cardinality(1 .. n)
  BY <1>1, <1>2, FS_Bijection
<1> QED BY <1>2, <1>3

\* As many results of different calls as there are calls, if each call has one.
LEMMA OneForEach ==
    ASSUME NEW S, NEW calls \in Seq(S), IsInjective(calls), NEW q, SomeResults(q, ToSet(calls), S),
           {q[j].id : j \in DOMAIN q} = ToSet(calls)
    PROVE  Len(q) = Len(calls)
<1> DEFINE T == ToSet(calls)
           f == [j \in 1 .. Len(q) |-> q[j].id]
<1>1. /\ Len(q) \in Nat /\ DOMAIN q = 1 .. Len(q) /\ Len(calls) \in Nat
      /\ DOMAIN calls = 1 .. Len(calls) /\ calls \in [1 .. Len(calls) -> S]
  BY LenProperties DEF SomeResults
<1>2. f \in [1 .. Len(q) -> T] /\ \A t \in T : \E j \in 1 .. Len(q) : f[j] = t
  BY <1>1
<1>3. f \in Bijection(1 .. Len(q), T)
  BY <1>1, <1>2 DEF SomeResults, Bijection, Injection, Surjection, IsInjective
<1>4. calls \in Bijection(1 .. Len(calls), T)
  BY <1>1 DEF ToSet, Bijection, Injection, Surjection, IsInjective
<1> QED BY <1>1, <1>3, <1>4, SameLength

-----------------------------------------------------------------------------
(* The answers and the stand-ins for the calls of a message are one for each. *)

\* What is kept of the results behind a message, as a run through them.
SeenOf(run, after, calls, S) ==
    /\ run \in [0 .. Len(after) -> Seq(WireMessages(S))] /\ run[0] = <<>>
    /\ \A k \in 1 .. Len(after) :
          run[k] = IF after[k].id \in ToSet(calls) \ {m.id : m \in ToSet(run[k - 1])}
                   THEN Append(run[k - 1], after[k]) ELSE run[k - 1]

\* The kept results are the last value of such a run.
LEMMA AnswersAreRun ==
    ASSUME NEW S, NEW s, NEW i, ResultsAfter(s, i) \in Seq(WireMessages(S))
    PROVE  \E run : /\ SeenOf(run, ResultsAfter(s, i), s[i].calls, S)
                    /\ Answers(s, i) = run[Len(ResultsAfter(s, i))]
<1> DEFINE after == ResultsAfter(s, i)
           calls == s[i].calls
           n == Len(after)
           X == Seq(WireMessages(S))
           Next1(q, m) == IF m.id \in ToSet(calls) \ {r.id : r \in ToSet(q)} THEN Append(q, m) ELSE q
           step == [k \in 1 .. n |-> [q \in X |-> Next1(q, after[k])]]
           body(g) == [k \in 0 .. n |-> IF k = 0 THEN <<>>
                                        ELSE LET before == g[k - 1]
                                                 open == ToSet(s[i].calls) \ {m.id : m \in ToSet(before)}
                                             IN  IF after[k].id \in open THEN Append(before, after[k]) ELSE before]
           iter == CHOOSE iter : iter = body(iter)
<1>1. n \in Nat /\ DOMAIN after = 1 .. n /\ \A k \in 1 .. n : after[k] \in WireMessages(S)
  BY LenProperties, ElementOfSeq
<1>2. Answers(s, i) = iter[n]
  BY DEF Answers
<1>3. <<>> \in X /\ \A k \in 1 .. n : \A q \in X : Next1(q, after[k]) \in X
  BY <1>1, EmptySeq, AppendProperties
<1>4. PICK run \in [0 .. n -> X] : run[0] = <<>> /\ \A k \in 1 .. n : run[k] = Next1(run[k - 1], after[k])
  <2> HIDE DEF X, n, Next1
  <2>1. \A k \in 1 .. n : step[k] \in [X -> X]
    BY <1>3
  <2>2. RunOf(<<>>, step, n, X) # {}
    <3> HIDE DEF step
    <3> QED BY <1>1, <1>3, <2>1, RunExists
  <2>3. PICK run \in [0 .. n -> X] : run[0] = <<>> /\ \A k \in 1 .. n : run[k] = step[k][run[k - 1]]
    BY <2>2 DEF RunOf
  <2>4. \A k \in 1 .. n : k - 1 \in 0 .. n /\ run[k - 1] \in X
    BY <1>1, <2>3
  <2> QED BY <2>3, <2>4
<1>5. run = body(run)
  <2>1. run = [k \in 0 .. n |-> run[k]]
    BY <1>4
  <2>2. \A k \in 0 .. n : run[k] = IF k = 0 THEN <<>> ELSE Next1(run[k - 1], after[k])
    <3> HIDE DEF Next1
    <3> QED BY <1>1, <1>4
  <2> QED BY <2>1, <2>2
<1>6. iter = body(iter)
  <2> HIDE DEF body
  <2> QED BY <1>5
<1>7. \A k \in 0 .. n : iter[k] = IF k = 0 THEN <<>> ELSE Next1(iter[k - 1], after[k])
  <2> HIDE DEF iter
  <2> QED BY <1>6
<1> HIDE DEF Next1, iter, body, X
<1> DEFINE P == {k \in 0 .. n : iter[k] = run[k]}
<1>8. 0 .. n \subseteq P
  <2>1. 0 \in P
    BY <1>1, <1>4, <1>7
  <2>2. ASSUME NEW k \in 0 .. n, k < n, k \in P
        PROVE  k + 1 \in P
    <3>1. k + 1 \in 1 .. n /\ k + 1 \in 0 .. n /\ k + 1 # 0 /\ (k + 1) - 1 = k
      BY <1>1, <2>2
    <3> QED BY <1>4, <1>7, <2>2, <3>1
  <2> HIDE DEF P
  <2> QED BY <1>1, <2>1, <2>2, UpTo
<1>9. Answers(s, i) = run[n]
  BY <1>1, <1>2, <1>8
<1>10. SeenOf(run, after, calls, S)
  BY <1>4 DEF SeenOf, X, Next1
<1> QED BY <1>9, <1>10

\* The answers of a message are results of calls of its own, one of each at most.
LEMMA AnswersAre ==
    ASSUME NEW S, NEW s \in Seq(WireMessages(S)), NEW i \in DOMAIN s
    PROVE  SomeResults(Answers(s, i), ToSet(s[i].calls), S)
<1> DEFINE W == WireMessages(S)
           T == ToSet(s[i].calls)
           after == ResultsAfter(s, i)
           n == Len(after)
<1>1. PICK last \in i .. Len(s) : after = SubSeq(s, i + 1, last) /\ \A j \in i + 1 .. last : IsResult(s[j])
  BY AfterIs
<1>2. /\ after \in Seq(W) /\ n \in Nat /\ \A k \in 1 .. n : after[k] \in W /\ IsResult(after[k])
  <2>1. i \in 1 .. Len(s) /\ Len(s) \in Nat /\ \A j \in 1 .. Len(s) : s[j] \in W
    BY LenProperties, ElementOfSeq
  <2> HIDE DEF W
  <2>2. \A j \in i + 1 .. last : s[j] \in W
    BY <2>1
  <2>3. /\ SubSeq(s, i + 1, last) \in Seq(W)
        /\ Len(SubSeq(s, i + 1, last)) = IF i + 1 <= last THEN last - (i + 1) + 1 ELSE 0
        /\ \A k \in 1 .. last - (i + 1) + 1 : SubSeq(s, i + 1, last)[k] = s[i + 1 + k - 1]
    BY <2>1, <2>2, SubSeqProperties
  <2> HIDE DEF after
  <2>4. n \in Nat /\ \A k \in 1 .. n : i + 1 + k - 1 \in i + 1 .. last /\ after[k] = s[i + 1 + k - 1]
    BY <1>1, <2>1, <2>3
  <2> QED BY <1>1, <2>2, <2>3, <2>4
<1>3. PICK run : SeenOf(run, after, s[i].calls, S) /\ Answers(s, i) = run[n]
  BY <1>2, AnswersAreRun
<1> HIDE DEF n, after
<1> DEFINE P == {k \in 0 .. n : SomeResults(run[k], T, S)}
<1>4. 0 \in P
  BY <1>2, <1>3 DEF SeenOf, SomeResults, n
<1>5. ASSUME NEW k \in 0 .. n, k < n, k \in P
      PROVE  k + 1 \in P
  <2>1. k + 1 \in 1 .. n /\ (k + 1) - 1 = k /\ after[k + 1] \in W /\ IsResult(after[k + 1])
    BY <1>2, <1>5
  <2>2. run[k + 1] = IF after[k + 1].id \in T \ {m.id : m \in ToSet(run[k])}
                     THEN Append(run[k], after[k + 1]) ELSE run[k]
    BY <1>3, <2>1 DEF SeenOf, n
  <2>3. SomeResults(run[k], T, S)
    BY <1>5
  <2> HIDE DEF T
  <2>4. SomeResults(run[k + 1], T, S)
    BY <2>1, <2>2, <2>3, OneMoreResult
  <2> QED BY <2>1, <2>4
<1>6. 0 .. n \subseteq P
  <2> HIDE DEF P
  <2> QED BY <1>2, <1>4, <1>5, UpTo
<1> QED BY <1>2, <1>3, <1>6

\* The calls that a sequence of results answers.
AnsweredBy(q) == {m.id : m \in ToSet(q)}

\* The stand-ins made for the calls without an answer, as a run through the calls.
MadeOf(run, calls, answered, S) ==
    /\ run \in [0 .. Len(calls) -> Seq(WireMessages(S))] /\ run[0] = <<>>
    /\ \A k \in 1 .. Len(calls) :
          run[k] = IF calls[k] \in answered THEN run[k - 1]
                   ELSE Append(run[k - 1], Unavailable(calls[k]))

\* The stand-ins are the last value of such a run.
LEMMA MissingIsRun ==
    ASSUME NEW S, NEW s, NEW i, s[i].calls \in Seq(S)
    PROVE  \E run : /\ MadeOf(run, s[i].calls, AnsweredBy(Answers(s, i)), S)
                    /\ Missing(s, i) = run[Len(s[i].calls)]
<1> DEFINE calls == s[i].calls
           answered == AnsweredBy(Answers(s, i))
           n == Len(calls)
           X == Seq(WireMessages(S))
           After(q, id) == IF id \in answered THEN q ELSE Append(q, Unavailable(id))
           step == [k \in 1 .. n |-> [q \in X |-> After(q, calls[k])]]
           body(g) == [k \in 0 .. n |-> IF k = 0 THEN <<>>
                                        ELSE IF calls[k] \in answered THEN g[k - 1]
                                        ELSE Append(g[k - 1], Unavailable(calls[k]))]
           iter == CHOOSE iter : iter = body(iter)
<1>1. n \in Nat /\ DOMAIN calls = 1 .. n /\ \A k \in 1 .. n : Unavailable(calls[k]) \in WireMessages(S)
  <2>1. n \in Nat /\ DOMAIN calls = 1 .. n /\ \A k \in 1 .. n : calls[k] \in S
    BY LenProperties, ElementOfSeq
  <2> QED BY <2>1 DEF WireMessages
<1>2. Missing(s, i) = iter[n]
  BY DEF Missing, AnsweredBy
<1> HIDE DEF calls, answered
<1>3. <<>> \in X /\ \A k \in 1 .. n : \A q \in X : After(q, calls[k]) \in X
  BY <1>1, EmptySeq, AppendProperties
<1>4. PICK run \in [0 .. n -> X] : run[0] = <<>> /\ \A k \in 1 .. n : run[k] = After(run[k - 1], calls[k])
  <2> HIDE DEF X, n, After
  <2>1. \A k \in 1 .. n : step[k] \in [X -> X]
    BY <1>3
  <2>2. RunOf(<<>>, step, n, X) # {}
    <3> HIDE DEF step
    <3> QED BY <1>1, <1>3, <2>1, RunExists
  <2>3. PICK run \in [0 .. n -> X] : run[0] = <<>> /\ \A k \in 1 .. n : run[k] = step[k][run[k - 1]]
    BY <2>2 DEF RunOf
  <2>4. \A k \in 1 .. n : k - 1 \in 0 .. n /\ run[k - 1] \in X
    BY <1>1, <2>3
  <2> QED BY <2>3, <2>4
<1>5. run = body(run)
  <2>1. run = [k \in 0 .. n |-> run[k]]
    BY <1>4
  <2>2. \A k \in 0 .. n : run[k] = IF k = 0 THEN <<>> ELSE After(run[k - 1], calls[k])
    <3> HIDE DEF After
    <3> QED BY <1>1, <1>4
  <2> QED BY <2>1, <2>2
<1>6. iter = body(iter)
  <2> HIDE DEF body
  <2> QED BY <1>5
<1>7. \A k \in 0 .. n : iter[k] = IF k = 0 THEN <<>> ELSE After(iter[k - 1], calls[k])
  <2> HIDE DEF iter
  <2> QED BY <1>6
<1> HIDE DEF After, iter, body, X
<1> DEFINE P == {k \in 0 .. n : iter[k] = run[k]}
<1>8. 0 .. n \subseteq P
  <2>1. 0 \in P
    BY <1>1, <1>4, <1>7
  <2>2. ASSUME NEW k \in 0 .. n, k < n, k \in P
        PROVE  k + 1 \in P
    <3>1. k + 1 \in 1 .. n /\ k + 1 \in 0 .. n /\ k + 1 # 0 /\ (k + 1) - 1 = k
      BY <1>1, <2>2
    <3> QED BY <1>4, <1>7, <2>2, <3>1
  <2> HIDE DEF P
  <2> QED BY <1>1, <2>1, <2>2, UpTo
<1>9. Missing(s, i) = run[n]
  BY <1>1, <1>2, <1>8
<1>10. MadeOf(run, calls, answered, S)
  BY <1>4 DEF MadeOf, X, After
<1> QED BY <1>9, <1>10 DEF calls, answered

\* The stand-ins are for the calls without an answer, one for each.
LEMMA MissingAre ==
    ASSUME NEW S, NEW s, NEW i, s[i].calls \in Seq(S), IsInjective(s[i].calls)
    PROVE  /\ SomeResults(Missing(s, i), ToSet(s[i].calls) \ AnsweredBy(Answers(s, i)), S)
           /\ AnsweredBy(Missing(s, i)) = ToSet(s[i].calls) \ AnsweredBy(Answers(s, i))
<1> DEFINE calls == s[i].calls
           answered == AnsweredBy(Answers(s, i))
           n == Len(calls)
           left(k) == {calls[j] : j \in 1 .. k} \ answered
<1>1. n \in Nat /\ DOMAIN calls = 1 .. n /\ \A k \in 1 .. n : calls[k] \in S
  BY LenProperties, ElementOfSeq
<1>2. PICK run : MadeOf(run, calls, answered, S) /\ Missing(s, i) = run[n]
  BY MissingIsRun
<1>3. \A j, k \in 1 .. n : calls[j] = calls[k] => j = k
  BY <1>1 DEF IsInjective
<1> HIDE DEF calls, answered
<1> DEFINE P == {k \in 0 .. n : SomeResults(run[k], left(k), S) /\ AnsweredBy(run[k]) = left(k)}
<1>4. 0 \in P
  <2>1. run[0] = <<>> /\ left(0) = {} /\ DOMAIN <<>> = {} /\ <<>> \in Seq(WireMessages(S))
    BY <1>1, <1>2 DEF MadeOf
  <2>2. ToSet(<<>>) = {}
    BY <2>1 DEF ToSet
  <2>3. AnsweredBy(<<>>) = {}
    BY <2>2 DEF AnsweredBy
  <2>4. SomeResults(<<>>, left(0), S)
    BY <2>1 DEF SomeResults
  <2> QED BY <1>1, <2>1, <2>3, <2>4
<1>5. ASSUME NEW k \in 0 .. n, k < n, k \in P
      PROVE  k + 1 \in P
  <2> DEFINE id == calls[k + 1]
  <2>1. k + 1 \in 1 .. n /\ k + 1 \in 0 .. n /\ (k + 1) - 1 = k /\ id \in S
    BY <1>1, <1>5
  <2>2. run[k + 1] = IF id \in answered THEN run[k] ELSE Append(run[k], Unavailable(id))
    BY <1>2, <2>1 DEF MadeOf
  <2>3. SomeResults(run[k], left(k), S) /\ AnsweredBy(run[k]) = left(k)
    BY <1>5
  <2>4. \A j \in 1 .. k : j \in 1 .. n /\ j # k + 1
    BY <1>1
  <2>5. id \notin {calls[j] : j \in 1 .. k}
    BY <1>3, <2>1, <2>4
  <2>6. {calls[j] : j \in 1 .. k + 1} = {calls[j] : j \in 1 .. k} \cup {id}
    <3>1. \A j : j \in 1 .. k + 1 <=> j \in 1 .. k \/ j = k + 1
      BY <2>1
    <3> QED BY <3>1
  <2> HIDE DEF id
  <2>7. CASE id \in answered
    <3>1. left(k + 1) = left(k)
      BY <2>6, <2>7
    <3> QED BY <2>1, <2>2, <2>3, <2>7, <3>1
  <2>8. CASE id \notin answered
    <3>1. left(k + 1) = left(k) \cup {id} /\ id \notin left(k)
      BY <2>5, <2>6, <2>8
    <3> DEFINE m == Unavailable(id)
    <3>2. m \in WireMessages(S) /\ IsResult(m) /\ m.id = id
      BY <2>1 DEF WireMessages, Unavailable, IsResult
    <3> HIDE DEF left, m
    <3>3. SomeResults(run[k], left(k + 1), S)
      BY <2>3, <3>1 DEF SomeResults
    <3>4. id \notin {r.id : r \in ToSet(run[k])}
      BY <2>3, <3>1 DEF AnsweredBy
    <3>5. SomeResults(Append(run[k], m), left(k + 1), S)
      BY <3>1, <3>2, <3>3, <3>4, OneMoreResult
    <3>6. ToSet(Append(run[k], m)) = ToSet(run[k]) \cup {m}
      <4>1. run[k] \in Seq(WireMessages(S))
        BY <2>3 DEF SomeResults
      <4> DEFINE W == WireMessages(S)
                 q == run[k]
      <4> HIDE DEF W, q
      <4>2. q \in Seq(W) /\ m \in W
        BY <3>2, <4>1 DEF W, q
      <4>3. ToSet(Append(q, m)) = ToSet(q) \cup {m}
        BY <4>2, AppendProperties DEF ToSet
      <4> QED BY <4>3 DEF q
    <3>7. AnsweredBy(Append(run[k], m)) = left(k + 1)
      BY <2>3, <3>1, <3>2, <3>6 DEF AnsweredBy
    <3> QED BY <2>1, <2>2, <2>8, <3>5, <3>7 DEF m
  <2> QED BY <2>7, <2>8
<1>6. 0 .. n \subseteq P
  <2> HIDE DEF P
  <2> QED BY <1>1, <1>4, <1>5, UpTo
<1>7. left(n) = ToSet(calls) \ answered
  BY <1>1 DEF ToSet
<1>8. SomeResults(run[n], left(n), S) /\ AnsweredBy(run[n]) = left(n)
  <2>1. n \in P
    <3> HIDE DEF P, n
    <3>1. n \in 0 .. n
      BY <1>1
    <3> QED BY <1>6, <3>1
  <2> HIDE DEF left, n
  <2> QED BY <2>1
<1> HIDE DEF left
<1> QED BY <1>2, <1>7, <1>8 DEF calls, answered

\* Results of some calls and results of others are results of different calls.
LEMMA JoinedResults ==
    ASSUME NEW S, NEW T, NEW a, NEW b, SomeResults(a, T, S), SomeResults(b, T \ AnsweredBy(a), S)
    PROVE  SomeResults(a \o b, T, S)
<1> DEFINE W == WireMessages(S)
           r == a \o b
<1>1. a \in Seq(W) /\ b \in Seq(W)
  BY DEF SomeResults
<1> HIDE DEF W
<1>2. /\ r \in Seq(W) /\ Len(a) \in Nat /\ Len(b) \in Nat /\ DOMAIN a = 1 .. Len(a) /\ DOMAIN b = 1 .. Len(b)
      /\ DOMAIN r = 1 .. Len(a) + Len(b)
      /\ \A j \in 1 .. Len(a) + Len(b) : r[j] = IF j <= Len(a) THEN a[j] ELSE b[j - Len(a)]
  BY <1>1, ConcatProperties, LenProperties
<1> HIDE DEF r
<1>3. \A j \in DOMAIN r : \/ j \in DOMAIN a /\ r[j] = a[j]
                          \/ j - Len(a) \in DOMAIN b /\ r[j] = b[j - Len(a)] /\ j \notin DOMAIN a
  BY <1>2
<1>4. /\ \A j \in DOMAIN a : j \in DOMAIN r /\ r[j] = a[j]
      /\ \A j \in DOMAIN b : j + Len(a) \in DOMAIN r /\ r[j + Len(a)] = b[j]
  BY <1>2
<1>5. \A j \in DOMAIN a, k \in DOMAIN b : a[j].id # b[k].id
  BY DEF SomeResults, AnsweredBy, ToSet
<1>6. \A j \in DOMAIN r : IsResult(r[j]) /\ r[j].id \in T
  BY <1>3 DEF SomeResults
<1>7. ASSUME NEW j \in DOMAIN r, NEW k \in DOMAIN r, r[j].id = r[k].id
      PROVE  j = k
  <2>1. CASE j \in DOMAIN a /\ k \in DOMAIN a
    BY <1>4, <1>7, <2>1 DEF SomeResults
  <2>2. CASE j \notin DOMAIN a /\ k \notin DOMAIN a
    <3>1. j - Len(a) = k - Len(a)
      BY <1>3, <1>7, <2>2 DEF SomeResults
    <3> QED BY <1>2, <3>1
  <2>3. CASE j \in DOMAIN a /\ k \notin DOMAIN a
    BY <1>3, <1>5, <1>7, <2>3
  <2>4. CASE j \notin DOMAIN a /\ k \in DOMAIN a
    BY <1>3, <1>5, <1>7, <2>4
  <2> QED BY <2>1, <2>2, <2>3, <2>4
<1>8. SomeResults(r, T, S)
  BY <1>2, <1>6, <1>7 DEF SomeResults, W
<1> QED BY <1>8 DEF r

\* Two sequences one after the other answer what either answers.
LEMMA JoinedIds ==
    ASSUME NEW W, NEW a \in Seq(W), NEW b \in Seq(W)
    PROVE  AnsweredBy(a \o b) = AnsweredBy(a) \cup AnsweredBy(b)
<1> DEFINE r == a \o b
<1>1. /\ Len(a) \in Nat /\ Len(b) \in Nat /\ DOMAIN a = 1 .. Len(a) /\ DOMAIN b = 1 .. Len(b)
      /\ DOMAIN r = 1 .. Len(a) + Len(b)
      /\ \A j \in 1 .. Len(a) + Len(b) : r[j] = IF j <= Len(a) THEN a[j] ELSE b[j - Len(a)]
  BY ConcatProperties, LenProperties
<1> HIDE DEF r
<1>2. \A j \in DOMAIN r : \/ j \in DOMAIN a /\ r[j] = a[j]
                          \/ j - Len(a) \in DOMAIN b /\ r[j] = b[j - Len(a)]
  BY <1>1
<1>3. /\ \A j \in DOMAIN a : j \in DOMAIN r /\ r[j] = a[j]
      /\ \A j \in DOMAIN b : j + Len(a) \in DOMAIN r /\ r[j + Len(a)] = b[j]
  BY <1>1
<1>4. ToSet(r) = ToSet(a) \cup ToSet(b)
  BY <1>2, <1>3 DEF ToSet
<1>5. AnsweredBy(r) = AnsweredBy(a) \cup AnsweredBy(b)
  BY <1>4 DEF AnsweredBy
<1> QED BY <1>5 DEF r

\* Behind position i stand n results, one for each call of a set.
Stretch(q, i, n, T) ==
    /\ i + n \in DOMAIN q
    /\ \A j \in i + 1 .. i + n : IsResult(q[j]) /\ q[j].id \in T
    /\ \A id \in T : \E j \in i + 1 .. i + n : q[j].id = id
    /\ \A j, k \in i + 1 .. i + n : q[j].id = q[k].id => j = k

HasGroup(q, i) == Stretch(q, i, Len(q[i].calls), ToSet(q[i].calls))

\* Position j belongs to the group of an announcement before it.
InGroup(q, j) == \E i \in 1 .. j - 1 : Announces(q[i]) /\ j <= i + Len(q[i].calls)

\* Each announcement has its group, and each result is in one.
Grouped(q) ==
    /\ \A i \in DOMAIN q : Announces(q[i]) => HasGroup(q, i)
    /\ \A j \in DOMAIN q : IsResult(q[j]) => InGroup(q, j)

\* A message with its group, or one that announces nothing.
Block(b, S) ==
    /\ b \in Seq(WireMessages(S)) /\ 1 \in DOMAIN b /\ ~IsResult(b[1])
    /\ ~Announces(b[1]) => Len(b) = 1
    /\ Announces(b[1]) => Len(b) = 1 + Len(b[1].calls) /\ HasGroup(b, 1)

\* The answers and the stand-ins of an announcement are one for each of its calls.
LEMMA AnswersGroup ==
    ASSUME NEW S, NEW s \in Seq(WireMessages(S)), NEW i \in DOMAIN s, Announces(s[i])
    PROVE  LET b == Answers(s, i) \o Missing(s, i)
           IN  /\ SomeResults(b, ToSet(s[i].calls), S)
               /\ AnsweredBy(b) = ToSet(s[i].calls) /\ Len(b) = Len(s[i].calls)
<1> DEFINE a == Answers(s, i)
           m == Missing(s, i)
           T == ToSet(s[i].calls)
<1>1. s[i].calls \in Seq(S) /\ IsInjective(s[i].calls)
  <2>1. s[i] \in WireMessages(S)
    BY ElementOfSeq
  <2> QED BY <2>1, WireKinds
<1>2. SomeResults(a, T, S)
  BY AnswersAre
<1>3. SomeResults(m, T \ AnsweredBy(a), S) /\ AnsweredBy(m) = T \ AnsweredBy(a)
  BY <1>1, MissingAre
<1>4. AnsweredBy(a) \subseteq T
  BY <1>2 DEF SomeResults, AnsweredBy, ToSet
<1> HIDE DEF a, m
<1>5. SomeResults(a \o m, T, S)
  <2> HIDE DEF T
  <2> QED BY <1>2, <1>3, JoinedResults
<1>10. AnsweredBy(a \o m) = AnsweredBy(a) \cup AnsweredBy(m)
  <2>1. a \in Seq(WireMessages(S)) /\ m \in Seq(WireMessages(S))
    BY <1>2, <1>3 DEF SomeResults
  <2> QED BY <2>1, JoinedIds
<1> DEFINE x == AnsweredBy(a \o m)
           y == AnsweredBy(a)
           z == AnsweredBy(m)
           r == a \o m
<1>6. x = T
  <2>1. x = y \cup z /\ z = T \ y /\ y \subseteq T
    BY <1>3, <1>4, <1>10
  <2> HIDE DEF x, y, z, T
  <2> QED BY <2>1
<1>7. SomeResults(r, T, S) /\ AnsweredBy(r) = T
  BY <1>5, <1>6
<1> HIDE DEF r, x, y, z
<1>8. {r[j].id : j \in DOMAIN r} = ToSet(s[i].calls)
  BY <1>7 DEF AnsweredBy, ToSet
<1>9. Len(r) = Len(s[i].calls)
  BY <1>1, <1>7, <1>8, OneForEach
<1> QED BY <1>7, <1>9 DEF a, m, r

\* What the repair makes of a message: nothing of a result, a block of any other.
LEMMA SettledIs ==
    ASSUME NEW S, NEW s \in Seq(WireMessages(S)), NEW i \in DOMAIN s
    PROVE  /\ Settled(s, i) \in Seq(WireMessages(S))
           /\ IF IsResult(s[i]) THEN Settled(s, i) = <<>> ELSE Block(Settled(s, i), S)
<1> DEFINE W == WireMessages(S)
           first == s[i]
           calls == s[i].calls
<1>1. first \in W
  BY ElementOfSeq
<1>2. CASE IsResult(first)
  <2>1. Settled(s, i) = <<>>
    BY <1>1, <1>2, WireKinds DEF Settled
  <2> QED BY <1>2, <2>1, EmptySeq
<1>3. CASE ~IsResult(first) /\ ~Announces(first)
  <2>1. Settled(s, i) = <<first>>
    BY <1>3 DEF Settled
  <2> HIDE DEF first, W
  <2>2. <<first>> \in Seq(W) /\ Len(<<first>>) = 1 /\ 1 \in DOMAIN <<first>> /\ <<first>>[1] = first
    BY <1>1
  <2> QED BY <1>3, <2>1, <2>2 DEF Block, W, first
<1>4. CASE Announces(first)
  <2> DEFINE g == Answers(s, i) \o Missing(s, i)
             T == ToSet(calls)
             n == Len(calls)
             b == <<first>> \o g
  <2>1. ~IsResult(first) /\ calls \in Seq(S) /\ n \in Nat
    BY <1>1, <1>4, WireKinds, LenProperties
  <2>2. SomeResults(g, T, S) /\ AnsweredBy(g) = T /\ Len(g) = n
    BY <1>4, AnswersGroup
  <2>3. Settled(s, i) = <<first>> \o Answers(s, i) \o Missing(s, i)
    BY <1>4, <2>1 DEF Settled
  <2>4. Settled(s, i) = b
    <3>1. Answers(s, i) \in Seq(W) /\ Missing(s, i) \in Seq(W)
      <4>1. calls \in Seq(S) /\ IsInjective(calls)
        BY <1>1, <1>4, WireKinds
      <4> QED BY <4>1, AnswersAre, MissingAre DEF SomeResults
    <3>2. <<first>> \in Seq(W)
      BY <1>1
    <3> HIDE DEF W, first
    <3>3. (<<first>> \o Answers(s, i)) \o Missing(s, i) = <<first>> \o (Answers(s, i) \o Missing(s, i))
      BY <3>1, <3>2, ConcatAssociative
    <3> QED BY <2>3, <3>3
  <2>5. g \in Seq(W) /\ DOMAIN g = 1 .. n
    BY <2>2, LenProperties DEF SomeResults
  <2> HIDE DEF g, T, n, first, W, calls
  <2>6. /\ b \in Seq(W) /\ Len(b) = 1 + n /\ DOMAIN b = 1 .. 1 + n /\ 1 \in DOMAIN b /\ b[1] = first
        /\ \A j \in 1 .. n : b[1 + j] = g[j]
    BY <1>1, <2>1, <2>2, <2>5
  <2> HIDE DEF b
  <2>7. \A j \in 2 .. 1 + n : j - 1 \in DOMAIN g /\ b[j] = g[j - 1]
    BY <2>1, <2>5, <2>6
  <2>8. \A j \in 2 .. 1 + n : IsResult(b[j]) /\ b[j].id \in T
    BY <2>2, <2>7 DEF SomeResults
  <2>9. ASSUME NEW id \in T
        PROVE  \E j \in 2 .. 1 + n : b[j].id = id
    <3>1. PICK k \in 1 .. n : g[k].id = id
      BY <2>2, <2>5 DEF AnsweredBy, ToSet
    <3>2. 1 + k \in 2 .. 1 + n /\ b[1 + k] = g[k]
      BY <2>1, <2>6
    <3> QED BY <3>1, <3>2
  <2>10. ASSUME NEW j \in 2 .. 1 + n, NEW k \in 2 .. 1 + n, b[j].id = b[k].id
         PROVE  j = k
    <3>1. j - 1 = k - 1
      BY <2>2, <2>7, <2>10, SMTT(30) DEF SomeResults
    <3> QED BY <2>1, <3>1
  <2>11. first.calls = calls
    BY DEF first, calls
  <2>12. HasGroup(b, 1)
    <3>1. b[1].calls = calls
      BY <2>6, <2>11
    <3>2. Stretch(b, 1, n, T)
      <4>1. 1 + 1 = 2 /\ 1 + n \in DOMAIN b
        BY <2>1, <2>6
      <4> QED BY <2>8, <2>9, <2>10, <4>1 DEF Stretch
    <3> QED BY <3>1, <3>2 DEF HasGroup, T, n
  <2>13. Block(b, S)
    BY <1>4, <2>1, <2>6, <2>11, <2>12 DEF Block, W, n
  <2> QED BY <2>1, <2>4, <2>6, <2>13 DEF W, first
<1> QED BY <1>2, <1>3, <1>4

-----------------------------------------------------------------------------
(* A repair makes groups, which are what the upstream requires. *)

\* A group stays one wherever its stretch stands.
LEMMA GroupMoves ==
    ASSUME NEW q, NEW r, NEW i \in Int, NEW d \in Int, NEW n \in Nat, NEW T, Stretch(q, i, n, T),
           \A j \in i .. i + n : j + d \in DOMAIN r /\ r[j + d] = q[j]
    PROVE  Stretch(r, i + d, n, T)
<1>1. (i + d) + n \in DOMAIN r
  <2>1. i + n \in i .. i + n /\ (i + n) + d = (i + d) + n
    OBVIOUS
  <2> QED BY <2>1
<1>2. /\ \A j \in i + 1 .. i + n : IsResult(q[j]) /\ q[j].id \in T
      /\ \A id \in T : \E j \in i + 1 .. i + n : q[j].id = id
      /\ \A j, k \in i + 1 .. i + n : q[j].id = q[k].id => j = k
  BY DEF Stretch
<1>3. \A j \in i + d + 1 .. i + d + n : j \in Int /\ j - d \in i + 1 .. i + n /\ r[j] = q[j - d]
  <2>1. \A j \in i + d + 1 .. i + d + n :
           j \in Int /\ j - d \in i + 1 .. i + n /\ j - d \in i .. i + n /\ (j - d) + d = j
    OBVIOUS
  <2> QED BY <2>1
<1>4. \A j \in i + d + 1 .. i + d + n : IsResult(r[j]) /\ r[j].id \in T
  BY <1>2, <1>3
<1>5. ASSUME NEW id \in T
      PROVE  \E j \in i + d + 1 .. i + d + n : r[j].id = id
  <2>1. PICK k \in i + 1 .. i + n : q[k].id = id
    BY <1>2
  <2>2. k + d \in i + d + 1 .. i + d + n /\ (k + d) - d = k
    OBVIOUS
  <2> QED BY <1>3, <2>1, <2>2
<1>6. ASSUME NEW j \in i + d + 1 .. i + d + n, NEW k \in i + d + 1 .. i + d + n, r[j].id = r[k].id
      PROVE  j = k
  <2>1. j - d = k - d
    BY <1>2, <1>3, <1>6
  <2> QED BY <1>3, <2>1
<1> QED BY <1>1, <1>4, <1>5, <1>6 DEF Stretch

\* A grouped sequence stays one with a block at its end.
LEMMA OneMoreBlock ==
    ASSUME NEW S, NEW q \in Seq(WireMessages(S)), Grouped(q), NEW b, Block(b, S)
    PROVE  Grouped(q \o b)
<1> DEFINE W == WireMessages(S)
           r == q \o b
           m == Len(q)
<1>1. q \in Seq(W) /\ b \in Seq(W) /\ 1 \in DOMAIN b
  BY DEF Block
<1>2. \A x \in W : Announces(x) => Len(x.calls) \in Nat /\ ~IsResult(x)
  BY WireKinds, LenProperties
<1> HIDE DEF W
<1>3. /\ m \in Nat /\ Len(b) \in Nat /\ DOMAIN q = 1 .. m /\ DOMAIN b = 1 .. Len(b)
      /\ DOMAIN r = 1 .. m + Len(b)
      /\ \A j \in 1 .. m + Len(b) : r[j] = IF j <= m THEN q[j] ELSE b[j - m]
  BY <1>1, ConcatProperties, LenProperties
<1>6. (\A j \in 1 .. m : q[j] \in W) /\ \A j \in 1 .. Len(b) : b[j] \in W
  BY <1>1, ElementOfSeq
<1> HIDE DEF r, m
<1>4. /\ \A j \in 1 .. m : j + 0 \in DOMAIN r /\ r[j + 0] = q[j] /\ r[j] = q[j]
      /\ \A j \in 1 .. Len(b) : j + m \in DOMAIN r /\ r[j + m] = b[j]
  BY <1>3
<1>5. \A j \in DOMAIN r : \/ j \in 1 .. m /\ r[j] = q[j]
                          \/ j - m \in 1 .. Len(b) /\ r[j] = b[j - m]
  BY <1>3
<1>7. ~IsResult(b[1]) /\ \A j \in 2 .. Len(b) : Announces(b[1]) /\ IsResult(b[j]) /\ j <= 1 + Len(b[1].calls)
  <2>1. CASE Announces(b[1])
    <3> DEFINE n == Len(b[1].calls)
    <3>1. ~IsResult(b[1]) /\ Len(b) = 1 + n /\ Stretch(b, 1, n, ToSet(b[1].calls))
      BY <2>1 DEF Block, HasGroup
    <3>2. n \in Nat
      BY <1>1, <1>2, <1>3, <1>6, <2>1
    <3> HIDE DEF n
    <3>3. \A j \in 2 .. Len(b) : j \in 1 + 1 .. 1 + n /\ j <= 1 + n
      BY <3>1, <3>2
    <3>4. \A j \in 2 .. Len(b) : IsResult(b[j])
      BY <3>1, <3>3 DEF Stretch
    <3> QED BY <2>1, <3>1, <3>3, <3>4 DEF n
  <2>2. CASE ~Announces(b[1])
    <3>1. Len(b) = 1 /\ ~IsResult(b[1])
      BY <2>2 DEF Block
    <3> QED BY <3>1
  <2> QED BY <2>1, <2>2
<1>8. ASSUME NEW i \in DOMAIN r, Announces(r[i])
      PROVE  HasGroup(r, i)
  <2>1. CASE i \in 1 .. m /\ r[i] = q[i]
    <3> DEFINE n == Len(q[i].calls)
               T == ToSet(q[i].calls)
    <3>1. n \in Nat /\ Stretch(q, i, n, T)
      <4>1. HasGroup(q, i) /\ n \in Nat
        BY <1>2, <1>3, <1>6, <1>8, <2>1 DEF Grouped
      <4> QED BY <4>1 DEF HasGroup
    <3>2. i + n \in 1 .. m
      BY <1>3, <3>1 DEF Stretch
    <3> HIDE DEF n, T
    <3>3. \A j \in i .. i + n : j + 0 \in DOMAIN r /\ r[j + 0] = q[j]
      BY <1>3, <1>4, <2>1, <3>1, <3>2
    <3>4. i \in Int /\ 0 \in Int /\ i + 0 = i
      BY <1>3
    <3>5. Stretch(r, i + 0, n, T)
      BY <3>1, <3>3, <3>4, GroupMoves
    <3> QED BY <2>1, <3>4, <3>5 DEF HasGroup, n, T
  <2>2. CASE i - m \in 1 .. Len(b) /\ r[i] = b[i - m]
    <3> DEFINE n == Len(b[1].calls)
               T == ToSet(b[1].calls)
    <3>1. i = 1 + m
      <4>1. i \in Int /\ m \in Int /\ i - m \notin 2 .. Len(b)
        BY <1>2, <1>3, <1>6, <1>7, <1>8, <2>2
      <4> QED BY <1>3, <2>2, <4>1
    <3>2. Announces(b[1])
      BY <1>3, <1>8, <2>2, <3>1
    <3>3. n \in Nat /\ Stretch(b, 1, n, T) /\ Len(b) = 1 + n
      BY <1>1, <1>2, <1>3, <1>6, <3>2 DEF Block, HasGroup
    <3> HIDE DEF n, T
    <3>4. \A j \in 1 .. 1 + n : j + m \in DOMAIN r /\ r[j + m] = b[j]
      BY <1>4, <3>3
    <3>5. 1 \in Int /\ m \in Int
      BY <1>3
    <3>6. Stretch(r, 1 + m, n, T)
      BY <3>3, <3>4, <3>5, GroupMoves
    <3> QED BY <2>2, <1>3, <3>1, <3>6 DEF HasGroup, n, T
  <2> QED BY <1>5, <1>8, <2>1, <2>2
<1>9. ASSUME NEW j \in DOMAIN r, IsResult(r[j])
      PROVE  InGroup(r, j)
  <2>1. CASE j \in 1 .. m /\ r[j] = q[j]
    <3>1. PICK i \in 1 .. j - 1 : Announces(q[i]) /\ j <= i + Len(q[i].calls)
      BY <1>3, <1>9, <2>1 DEF Grouped, InGroup
    <3>2. i \in 1 .. m /\ r[i] = q[i]
      BY <1>3, <1>4, <2>1
    <3> QED BY <3>1, <3>2 DEF InGroup
  <2>2. CASE j - m \in 1 .. Len(b) /\ r[j] = b[j - m]
    <3>1. j - m # 1
      BY <1>7, <1>9, <2>2
    <3>2. j - m \in 2 .. Len(b) /\ j \in Nat
      BY <1>3, <2>2, <3>1
    <3>3. Announces(b[1]) /\ j - m <= 1 + Len(b[1].calls) /\ Len(b[1].calls) \in Nat
      BY <1>2, <1>6, <1>7, <3>2, <1>1, <1>3
    <3> DEFINE n == Len(b[1].calls)
    <3>4. n \in Nat /\ j - m <= 1 + n /\ r[1 + m] = b[1]
      BY <1>1, <1>3, <1>4, <3>3
    <3> HIDE DEF n
    <3>5. 1 + m \in 1 .. j - 1 /\ j <= (1 + m) + n
      BY <1>3, <3>2, <3>4
    <3> QED BY <3>3, <3>4, <3>5 DEF InGroup, n
  <2> QED BY <1>5, <1>9, <2>1, <2>2
<1>10. Grouped(r)
  BY <1>8, <1>9 DEF Grouped
<1> QED BY <1>10 DEF r

\* A repaired sequence is one of groups.
LEMMA RepairIsGrouped ==
    ASSUME NEW S, NEW s \in Seq(WireMessages(S))
    PROVE  Repair(s) \in Seq(WireMessages(S)) /\ Grouped(Repair(s))
<1> DEFINE W == WireMessages(S)
           n == Len(s)
           blocks == [i \in DOMAIN s |-> Settled(s, i)]
<1>1. n \in Nat /\ DOMAIN s = 1 .. n /\ \A i \in 1 .. n : blocks[i] = Settled(s, i) /\ blocks[i] \in Seq(W)
  BY SettledIs, LenProperties
<1>2. blocks \in Seq(Seq(W)) /\ Len(blocks) = n
  <2> HIDE DEF W, n
  <2>1. blocks = [i \in 1 .. n |-> blocks[i]]
    BY <1>1
  <2> HIDE DEF blocks
  <2>2. [i \in 1 .. n |-> blocks[i]] \in Seq(Seq(W)) /\ Len([i \in 1 .. n |-> blocks[i]]) = n
    BY <1>1, IsASeq, LenProperties
  <2> QED BY <2>1, <2>2
<1>3. \A i \in 1 .. n : blocks[i] = <<>> \/ Block(blocks[i], S)
  BY <1>1, SettledIs
<1>4. Repair(s) = FlattenSeq(blocks)
  BY DEF Repair
<1> HIDE DEF blocks, W, n
<1>5. PICK run : FlatOf(run, blocks, W) /\ FlattenSeq(blocks) = run[Len(blocks)]
  BY <1>2, FlattenIs
<1> DEFINE P == {k \in 0 .. n : run[k] \in Seq(W) /\ Grouped(run[k])}
<1>6. 0 \in P
  <2>1. run[0] = <<>> /\ <<>> \in Seq(W) /\ DOMAIN <<>> = {}
    BY <1>5 DEF FlatOf
  <2>2. Grouped(<<>>)
    BY <2>1 DEF Grouped
  <2>3. 0 \in 0 .. n
    BY <1>1
  <2> QED BY <2>1, <2>2, <2>3
<1>7. ASSUME NEW k \in 0 .. n, k < n, k \in P
      PROVE  k + 1 \in P
  <2>1. k + 1 \in 1 .. n /\ k + 1 \in 0 .. n /\ (k + 1) - 1 = k
    BY <1>1, <1>7
  <2>2. run[k + 1] = run[k] \o blocks[k + 1] /\ run[k + 1] \in Seq(W)
    BY <1>2, <1>5, <2>1 DEF FlatOf
  <2>3. run[k] \in Seq(W) /\ Grouped(run[k])
    BY <1>7
  <2>4. CASE blocks[k + 1] = <<>>
    BY <2>1, <2>2, <2>3, <2>4, ConcatEmptySeq
  <2>5. CASE Block(blocks[k + 1], S)
    <3>1. Grouped(run[k] \o blocks[k + 1])
      BY <2>3, <2>5, OneMoreBlock DEF W
    <3> QED BY <2>1, <2>2, <3>1
  <2> QED BY <1>3, <2>1, <2>4, <2>5
<1>8. 0 .. n \subseteq P
  <2> HIDE DEF P
  <2> QED BY <1>1, <1>6, <1>7, UpTo
<1> QED BY <1>1, <1>2, <1>4, <1>5, <1>8 DEF W

\* And one of groups is what the upstream requires.
LEMMA GroupedIsWellFormed ==
    ASSUME NEW S, NEW s \in Seq(WireMessages(S)), Grouped(s)
    PROVE  WellFormed(s)
<1>1. ASSUME NEW i \in DOMAIN s, Announces(s[i])
      PROVE  Answered(s, i)
  <2> DEFINE n == Len(s[i].calls)
             group == i + 1 .. i + n
             T == ToSet(s[i].calls)
  <2>1. s[i] \in WireMessages(S) /\ DOMAIN s = 1 .. Len(s) /\ Len(s) \in Nat /\ i \in Nat
    BY ElementOfSeq, LenProperties
  <2>2. n \in Nat
    BY <1>1, <2>1, WireKinds, LenProperties
  <2>3. Stretch(s, i, n, T)
    BY <1>1 DEF Grouped, HasGroup
  <2> HIDE DEF n, T
  <2>4. i + n \in DOMAIN s /\ \A j \in group : IsResult(s[j]) /\ s[j].id \in T
    BY <2>3 DEF Stretch
  <2>5. \A id \in T : \E j \in group : s[j].id = id
    BY <2>3 DEF Stretch
  <2>6. group \subseteq DOMAIN s
    BY <2>1, <2>2, <2>4
  <2> HIDE DEF group
  <2>7. {s[j].id : j \in group} = T
    BY <2>4, <2>5
  <2> QED BY <2>4, <2>6, <2>7 DEF Answered, group, n, T
<1>2. \A j \in DOMAIN s : IsResult(s[j]) => InGroup(s, j)
  BY DEF Grouped
<1> QED BY <1>1, <1>2 DEF WellFormed, InGroup

-----------------------------------------------------------------------------
(* A repair leaves groups as they are. *)

\* Results of different calls behind a message are all kept, up to any of them.
LEMMA KeptUpTo ==
    ASSUME NEW S, NEW T, NEW calls, T = ToSet(calls), NEW after, SomeResults(after, T, S),
           NEW run, SeenOf(run, after, calls, S)
    PROVE  run[Len(after)] = after
<1> DEFINE W == WireMessages(S)
           n == Len(after)
           P == {k \in 0 .. n : run[k] = SubSeq(after, 1, k)}
<1>1. after \in Seq(W) /\ n \in Nat /\ DOMAIN after = 1 .. n
  BY LenProperties DEF SomeResults
<1>2. \A k \in 1 .. n : after[k] \in W /\ after[k].id \in T
  BY <1>1, ElementOfSeq DEF SomeResults
<1>3. \A j, k \in 1 .. n : after[j].id = after[k].id => j = k
  BY <1>1 DEF SomeResults
<1>4. /\ run[0] = <<>>
      /\ \A k \in 1 .. n : run[k] = IF after[k].id \in T \ {m.id : m \in ToSet(run[k - 1])}
                                    THEN Append(run[k - 1], after[k]) ELSE run[k - 1]
  BY DEF SeenOf
<1> HIDE DEF W, n
<1>5. 0 \in P
  <2>1. SubSeq(after, 1, 0) = <<>> /\ 0 \in 0 .. n
    BY <1>1, SubSeqEmpty
  <2> QED BY <1>4, <2>1
<1>6. ASSUME NEW k \in 0 .. n, k < n, k \in P
      PROVE  k + 1 \in P
  <2> DEFINE kept == SubSeq(after, 1, k)
  <2>1. k + 1 \in 1 .. n /\ k + 1 \in 0 .. n /\ (k + 1) - 1 = k
    BY <1>1, <1>6
  <2>2. kept \in Seq(W) /\ Len(kept) = k /\ \A j \in 1 .. k : kept[j] = after[j] /\ j \in 1 .. n /\ j # k + 1
    <3>1. 1 \in Int /\ k \in Int /\ \A j \in 1 .. k : after[j] \in W /\ j \in 1 .. n /\ j # k + 1
      BY <1>1, <1>2
    <3>2. k - 1 + 1 = k /\ (1 <= k => k - 1 + 1 = k) /\ (~(1 <= k) => k = 0) /\ \A j \in 1 .. k : 1 + j - 1 = j
      BY <1>1
    <3> QED BY <3>1, <3>2, SubSeqProperties
  <2> HIDE DEF kept
  <2>3. DOMAIN kept = 1 .. k
    BY <2>2, LenProperties
  <2>4. after[k + 1].id \notin {m.id : m \in ToSet(kept)}
    BY <1>3, <2>1, <2>2, <2>3 DEF ToSet
  <2>5. run[k + 1] = Append(kept, after[k + 1])
    BY <1>2, <1>4, <1>6, <2>1, <2>4 DEF kept
  <2>6. Append(kept, after[k + 1]) = kept \o <<after[k + 1]>>
    BY <1>2, <2>1, <2>2, AppendIsConcat
  <2>7. SubSeq(after, 1, k + 1) = SubSeq(after, 1, (k + 1) - 1) \o <<after[k + 1]>>
    <3>1. 1 \in 1 .. Len(after) /\ k + 1 \in 1 .. Len(after)
      BY <1>1, <2>1 DEF n
    <3> QED BY <1>1, <3>1, SubSeqRecursiveSecond
  <2> QED BY <2>1, <2>5, <2>6, <2>7 DEF kept
<1>7. 0 .. n \subseteq P
  <2> HIDE DEF P
  <2> QED BY <1>1, <1>5, <1>6, UpTo
<1>8. run[n] = SubSeq(after, 1, n)
  BY <1>1, <1>7
<1> QED BY <1>1, <1>8, SubSeqFull DEF n

\* The answers of a message with its group are the group, and nothing is missing.
LEMMA GroupIsAnswers ==
    ASSUME NEW S, NEW s \in Seq(WireMessages(S)), NEW i \in DOMAIN s, NEW m \in Nat,
           s[i].calls \in Seq(S), IsInjective(s[i].calls), Stretch(s, i, m, ToSet(s[i].calls)),
           i + m < Len(s) => ~IsResult(s[i + m + 1])
    PROVE  Answers(s, i) = SubSeq(s, i + 1, i + m) /\ Missing(s, i) = <<>>
<1> DEFINE W == WireMessages(S)
           T == ToSet(s[i].calls)
           n == Len(s)
           after == SubSeq(s, i + 1, i + m)
<1>1. n \in Nat /\ DOMAIN s = 1 .. n /\ \A j \in 1 .. n : s[j] \in W
  BY ElementOfSeq, LenProperties
<1>2. PICK last \in i .. n : /\ ResultsAfter(s, i) = SubSeq(s, i + 1, last)
                             /\ \A j \in i + 1 .. last : IsResult(s[j])
                             /\ last < n => ~IsResult(s[last + 1])
  BY AfterIs
<1> HIDE DEF W, n, T
<1>3. /\ i + m \in DOMAIN s
      /\ \A j \in i + 1 .. i + m : IsResult(s[j]) /\ s[j].id \in T
      /\ \A id \in T : \E j \in i + 1 .. i + m : s[j].id = id
      /\ \A j, k \in i + 1 .. i + m : s[j].id = s[k].id => j = k
  BY DEF Stretch, T
<1>4. i \in Nat /\ i + m \in 1 .. n
  BY <1>1, <1>3
<1>5. last = i + m
  <2>1. ~(last < i + m)
    <3> SUFFICES ASSUME last < i + m PROVE FALSE
      OBVIOUS
    <3>1. last < n /\ last + 1 \in i + 1 .. i + m
      BY <1>1, <1>4
    <3> QED BY <1>2, <1>3, <3>1
  <2>2. ~(i + m < last)
    <3> SUFFICES ASSUME i + m < last PROVE FALSE
      OBVIOUS
    <3>1. i + m < n /\ i + m + 1 \in i + 1 .. last
      BY <1>1, <1>4
    <3> QED BY <1>2, <3>1 DEF n
  <2> QED BY <1>1, <1>4, <2>1, <2>2
<1>6. \A j \in i + 1 .. i + m : j \in 1 .. n
  BY <1>1, <1>4
<1>7. after \in Seq(W) /\ Len(after) = m /\ \A j \in 1 .. m : after[j] = s[i + j]
  <2>1. i + 1 \in Int /\ i + m \in Int /\ \A j \in i + 1 .. i + m : s[j] \in W
    BY <1>1, <1>4, <1>6
  <2>2. /\ after \in Seq(W)
        /\ Len(after) = IF i + 1 <= i + m THEN (i + m) - (i + 1) + 1 ELSE 0
        /\ \A j \in 1 .. (i + m) - (i + 1) + 1 : after[j] = s[(i + 1) + j - 1]
    BY <2>1, SubSeqProperties, SMTT(30)
  <2> HIDE DEF after
  <2>3. (i + m) - (i + 1) + 1 = m /\ (~(i + 1 <= i + m) => m = 0) /\ \A j \in 1 .. m : (i + 1) + j - 1 = i + j
    BY <1>4
  <2> QED BY <2>2, <2>3
<1>8. ResultsAfter(s, i) = after
  BY <1>2, <1>5
<1> HIDE DEF after
<1>9. DOMAIN after = 1 .. m
  BY <1>7, LenProperties
<1>10. \A j \in DOMAIN after : \E k \in i + 1 .. i + m :
          k = i + j /\ after[j] = s[k] /\ IsResult(s[k]) /\ s[k].id \in T
  <2> SUFFICES ASSUME NEW j \in 1 .. m
               PROVE  \E k \in i + 1 .. i + m : k = i + j /\ after[j] = s[k] /\ IsResult(s[k]) /\ s[k].id \in T
    BY <1>9
  <2>1. i + j \in i + 1 .. i + m
    BY <1>4
  <2> DEFINE k == i + j
  <2>2. k \in i + 1 .. i + m /\ k = i + j /\ after[j] = s[k]
    BY <1>7, <2>1
  <2> HIDE DEF k
  <2> QED BY <1>3, <2>2
<1>11. SomeResults(after, T, S)
  <2>1. \A j \in DOMAIN after : IsResult(after[j]) /\ after[j].id \in T
    BY <1>10
  <2>2. ASSUME NEW j \in DOMAIN after, NEW k \in DOMAIN after, after[j].id = after[k].id
        PROVE  j = k
    <3>1. i + j = i + k
      BY <1>3, <1>10, <2>2
    <3> QED BY <1>4, <1>9, <3>1
  <2> QED BY <1>7, <2>1, <2>2 DEF SomeResults, W
<1>12. Answers(s, i) = after
  <2>1. PICK run : SeenOf(run, after, s[i].calls, S) /\ Answers(s, i) = run[Len(after)]
    BY <1>7, <1>8, AnswersAreRun DEF W
  <2> QED BY <1>11, <2>1, KeptUpTo DEF T
<1>13. AnsweredBy(after) = T
  <2>1. \A j \in DOMAIN after : after[j].id \in T
    BY <1>11 DEF SomeResults
  <2>2. ASSUME NEW id \in T
        PROVE  \E j \in DOMAIN after : after[j].id = id
    <3>1. PICK k \in i + 1 .. i + m : s[k].id = id
      BY <1>3
    <3>2. k - i \in 1 .. m /\ i + (k - i) = k
      BY <1>4
    <3> QED BY <1>7, <1>9, <3>1, <3>2
  <2> QED BY <2>1, <2>2 DEF AnsweredBy, ToSet
<1>14. Missing(s, i) = <<>>
  <2>1. SomeResults(Missing(s, i), T \ AnsweredBy(Answers(s, i)), S)
    BY MissingAre DEF T
  <2>2. T \ AnsweredBy(Answers(s, i)) = {}
    BY <1>12, <1>13
  <2>3. DOMAIN Missing(s, i) = {} /\ Missing(s, i) \in Seq(WireMessages(S))
    BY <2>1, <2>2 DEF SomeResults
  <2> QED BY <2>3, EmptySeq, LenProperties
<1> QED BY <1>12, <1>14 DEF after

\* What a repair has gone through when its results so far are the first e messages.
UpToGroup(q, s, k, e) ==
    /\ q = SubSeq(s, 1, e)
    /\ \A j \in k + 1 .. e : IsResult(s[j])
    /\ e < Len(s) => ~IsResult(s[e + 1])

\* Nothing but another announcement or a message of no group follows a group.
LEMMA GroupEnds ==
    ASSUME NEW S, NEW s \in Seq(WireMessages(S)), Grouped(s), NEW i \in DOMAIN s, ~IsResult(s[i]),
           NEW m \in Nat, Announces(s[i]) => m = Len(s[i].calls), ~Announces(s[i]) => m = 0, i + m < Len(s)
    PROVE  ~IsResult(s[i + m + 1])
<1> DEFINE n == Len(s)
           T(a) == ToSet(s[a].calls)
           W == WireMessages(S)
<1>1. n \in Nat /\ DOMAIN s = 1 .. n /\ i \in Nat /\ i + m + 1 \in 1 .. n /\ \A a \in 1 .. n : s[a] \in W
  BY LenProperties, ElementOfSeq
<1>2. \A x \in W : Announces(x) => Len(x.calls) \in Nat /\ ~IsResult(x)
  BY WireKinds, LenProperties
<1> HIDE DEF n, W
<1>3. \A a \in 1 .. n : Announces(s[a]) => Len(s[a].calls) \in Nat /\ Stretch(s, a, Len(s[a].calls), T(a))
  BY <1>1, <1>2 DEF Grouped, HasGroup
<1> HIDE DEF T
<1>4. \A a \in 1 .. n : Announces(s[a]) => \A j \in a + 1 .. a + Len(s[a].calls) : IsResult(s[j])
  BY <1>3 DEF Stretch
<1> SUFFICES ASSUME IsResult(s[i + m + 1])
             PROVE  FALSE
  OBVIOUS
<1>5. PICK a \in 1 .. (i + m + 1) - 1 : Announces(s[a]) /\ i + m + 1 <= a + Len(s[a].calls)
  BY <1>1 DEF Grouped, InGroup
<1> DEFINE l == Len(s[a].calls)
<1>6. a \in 1 .. n /\ a \in 1 .. i + m /\ l \in Nat /\ ~IsResult(s[a])
  BY <1>1, <1>2, <1>3, <1>5
<1>7. \A j \in a + 1 .. a + l : IsResult(s[j])
  BY <1>4, <1>5, <1>6
<1>8. i + m + 1 <= a + l
  BY <1>5
<1>9. a = i => m = l
  BY <1>5
<1>10. Announces(s[i]) => \A j \in i + 1 .. i + m : IsResult(s[j])
  BY <1>1, <1>4
<1> HIDE DEF l
<1>11. a # i
  BY <1>1, <1>6, <1>8, <1>9
<1>12. CASE a < i
  <2>1. i \in a + 1 .. a + l
    BY <1>1, <1>6, <1>8, <1>12
  <2> QED BY <1>7, <2>1
<1>13. CASE i < a
  <2>1. a \in i + 1 .. i + m
    BY <1>1, <1>6, <1>13
  <2>2. Announces(s[i])
    BY <1>1, <2>1
  <2> QED BY <1>6, <1>10, <2>1, <2>2
<1> QED BY <1>1, <1>6, <1>11, <1>12, <1>13

\* A sequence of groups is repaired already.
LEMMA GroupedIsRepaired ==
    ASSUME NEW S, NEW s \in Seq(WireMessages(S)), Grouped(s)
    PROVE  Repair(s) = s
<1> DEFINE W == WireMessages(S)
           n == Len(s)
           blocks == [i \in DOMAIN s |-> Settled(s, i)]
<1>1. /\ n \in Nat /\ DOMAIN s = 1 .. n
      /\ \A i \in 1 .. n : blocks[i] = Settled(s, i) /\ blocks[i] \in Seq(W) /\ s[i] \in W
  BY SettledIs, LenProperties, ElementOfSeq
<1>2. blocks \in Seq(Seq(W)) /\ Len(blocks) = n
  <2> HIDE DEF W, n
  <2>1. blocks = [i \in 1 .. n |-> blocks[i]]
    BY <1>1
  <2> HIDE DEF blocks
  <2>2. [i \in 1 .. n |-> blocks[i]] \in Seq(Seq(W)) /\ Len([i \in 1 .. n |-> blocks[i]]) = n
    BY <1>1, IsASeq, LenProperties
  <2> QED BY <2>1, <2>2
<1>3. Repair(s) = FlattenSeq(blocks)
  BY DEF Repair
<1> HIDE DEF blocks, W, n
<1>4. PICK run : FlatOf(run, blocks, W) /\ FlattenSeq(blocks) = run[Len(blocks)]
  BY <1>2, FlattenIs
<1>5. run[0] = <<>> /\ \A k \in 1 .. n : run[k] = run[k - 1] \o blocks[k]
  BY <1>2, <1>4 DEF FlatOf
<1> DEFINE P == {k \in 0 .. n : \E e \in k .. n : UpToGroup(run[k], s, k, e)}
<1>6. 0 \in P
  <2>1. run[0] = SubSeq(s, 1, 0)
    BY <1>5, SubSeqEmpty
  <2>2. 0 < n => ~IsResult(s[1])
    BY <1>1 DEF Grouped, InGroup
  <2>3. UpToGroup(run[0], s, 0, 0)
    BY <2>1, <2>2 DEF UpToGroup, n
  <2>4. 0 \in 0 .. n
    BY <1>1
  <2> QED BY <2>3, <2>4
<1>7. ASSUME NEW k \in 0 .. n, k < n, k \in P
      PROVE  k + 1 \in P
  <2> DEFINE i == k + 1
  <2>1. i \in 1 .. n /\ i \in 0 .. n /\ i - 1 = k /\ k \in Nat
    BY <1>1, <1>7
  <2>2. PICK e \in k .. n : UpToGroup(run[k], s, k, e)
    BY <1>7
  <2>3. run[i] = run[k] \o Settled(s, i)
    BY <1>1, <1>5, <2>1
  <2>4. CASE e # k
    <3>1. i \in k + 1 .. e /\ e \in i .. n
      BY <1>1, <2>1, <2>4
    <3>2. IsResult(s[i])
      BY <2>2, <3>1 DEF UpToGroup
    <3>3. Settled(s, i) = <<>> /\ s \in Seq(W)
      BY <1>1, <2>1, <3>2, SettledIs DEF W
    <3>4. SubSeq(s, 1, e) \in Seq(W)
      <4>1. 1 \in Int /\ e \in Int /\ \A j \in 1 .. e : s[j] \in W
        BY <1>1, <3>1
      <4> QED BY <4>1, SubSeqProperties
    <3>5. run[i] = SubSeq(s, 1, e)
      BY <2>2, <2>3, <3>3, <3>4, ConcatEmptySeq DEF UpToGroup
    <3>6. \A j \in i + 1 .. e : j \in k + 1 .. e
      BY <2>1
    <3>7. UpToGroup(run[i], s, i, e)
      BY <2>2, <3>5, <3>6 DEF UpToGroup
    <3> QED BY <2>1, <3>1, <3>7
  <2>5. CASE e = k
    <3>1. ~IsResult(s[i]) /\ run[k] = SubSeq(s, 1, k)
      BY <1>7, <2>2, <2>5 DEF UpToGroup, n
    <3>2. \E m \in Nat : /\ i + m \in i .. n
                         /\ Settled(s, i) = SubSeq(s, i, i + m)
                         /\ \A j \in i + 1 .. i + m : IsResult(s[j])
                         /\ i + m < n => ~IsResult(s[i + m + 1])
      <4>1. CASE Announces(s[i])
        <5> DEFINE m == Len(s[i].calls)
        <5>1. s[i].calls \in Seq(S) /\ IsInjective(s[i].calls) /\ m \in Nat
          BY <1>1, <2>1, <4>1, WireKinds, LenProperties DEF W
        <5>2. Stretch(s, i, m, ToSet(s[i].calls))
          BY <1>1, <2>1, <4>1 DEF Grouped, HasGroup
        <5>3. i + m < n => ~IsResult(s[i + m + 1])
          BY <1>1, <2>1, <3>1, <4>1, <5>1, GroupEnds DEF n
        <5> HIDE DEF m, i
        <5>4. Answers(s, i) = SubSeq(s, i + 1, i + m) /\ Missing(s, i) = <<>>
          BY <1>1, <2>1, <5>1, <5>2, <5>3, GroupIsAnswers DEF n
        <5>5. i + m \in i .. n /\ \A j \in i + 1 .. i + m : IsResult(s[j])
          BY <1>1, <2>1, <5>1, <5>2 DEF Stretch
        <5>6. SubSeq(s, i, i + m) = <<s[i]>> \o SubSeq(s, i + 1, i + m)
          BY <1>1, <2>1, <5>5, SubSeqRecursiveFirst DEF n
        <5>7. Settled(s, i) = <<s[i]>> \o Answers(s, i) \o Missing(s, i)
          BY <3>1, <4>1 DEF Settled
        <5>8. Settled(s, i) = SubSeq(s, i, i + m)
          <6>1. SubSeq(s, i, i + m) \in Seq(W)
            <7>1. i \in Int /\ i + m \in Int /\ \A j \in i .. i + m : s[j] \in W
              BY <1>1, <2>1, <5>1, <5>5
            <7> QED BY <7>1, SubSeqProperties
          <6> QED BY <5>4, <5>6, <5>7, <6>1, ConcatEmptySeq
        <5> QED BY <5>1, <5>3, <5>5, <5>8
      <4>2. CASE ~Announces(s[i])
        <5>1. Settled(s, i) = <<s[i]>>
          BY <3>1, <4>2 DEF Settled
        <5>2. i + 0 < n => ~IsResult(s[i + 0 + 1])
          <6>1. 0 \in Nat
            OBVIOUS
          <6> QED BY <1>1, <2>1, <3>1, <4>2, <6>1, GroupEnds DEF n
        <5> HIDE DEF i
        <5>3. SubSeq(s, i, i) = <<s[i]>>
          <6>1. SubSeq(s, i, i) = <<s[i]>> \o SubSeq(s, i + 1, i)
            BY <1>1, <2>1, SubSeqRecursiveFirst DEF n
          <6>2. SubSeq(s, i + 1, i) = <<>>
            BY <2>1, SubSeqEmpty
          <6>3. <<s[i]>> \in Seq(W)
            BY <1>1, <2>1
          <6> QED BY <6>1, <6>2, <6>3, ConcatEmptySeq
        <5>4. i + 0 = i /\ i \in i .. n /\ i + 1 .. i = {} /\ 0 \in Nat
          BY <1>1, <2>1
        <5> QED BY <5>1, <5>2, <5>3, <5>4
      <4> QED BY <4>1, <4>2
    <3>3. PICK m \in Nat : /\ i + m \in i .. n
                           /\ Settled(s, i) = SubSeq(s, i, i + m)
                           /\ \A j \in i + 1 .. i + m : IsResult(s[j])
                           /\ i + m < n => ~IsResult(s[i + m + 1])
      BY <3>2
    <3> DEFINE f == i + m
    <3>4. f \in i .. n /\ Settled(s, i) = SubSeq(s, i, f)
      BY <3>3
    <3>5. (\A j \in i + 1 .. f : IsResult(s[j])) /\ (f < n => ~IsResult(s[f + 1]))
      BY <3>3
    <3> HIDE DEF f
    <3>6. SubSeq(s, 1, k) \o SubSeq(s, k + 1, f) = SubSeq(s, 1, f)
      <4>1. 1 \in 1 .. Len(s) + 1 /\ k \in 1 - 1 .. Len(s) /\ f \in k .. Len(s)
        BY <1>1, <2>1, <3>4 DEF n
      <4> QED BY <4>1, ConcatAdjacentSubSeq
    <3>7. run[i] = SubSeq(s, 1, f)
      BY <2>3, <3>1, <3>4, <3>6
    <3>8. UpToGroup(run[i], s, i, f)
      BY <3>5, <3>7 DEF UpToGroup, n
    <3> QED BY <2>1, <3>4, <3>8
  <2> QED BY <2>4, <2>5
<1>8. 0 .. n \subseteq P
  <2> HIDE DEF P
  <2> QED BY <1>1, <1>6, <1>7, UpTo
<1>9. PICK e \in n .. n : UpToGroup(run[n], s, n, e)
  <2>1. n \in P
    <3> HIDE DEF P
    <3>1. n \in 0 .. n
      BY <1>1
    <3> QED BY <1>8, <3>1
  <2> QED BY <2>1
<1>10. e = n
  BY <1>1
<1>11. run[n] = SubSeq(s, 1, n)
  BY <1>9, <1>10 DEF UpToGroup
<1>12. SubSeq(s, 1, Len(s)) = s
  BY SubSeqFull
<1> QED BY <1>2, <1>3, <1>4, <1>11, <1>12 DEF n

\* What a repair sends is what the upstream requires, and another changes nothing.
LEMMA RepairRepairs ==
    ASSUME NEW S, NEW s \in Seq(WireMessages(S))
    PROVE  WellFormed(Repair(s)) /\ Repair(Repair(s)) = Repair(s)
<1> DEFINE r == Repair(s)
<1>1. r \in Seq(WireMessages(S)) /\ Grouped(r)
  BY RepairIsGrouped
<1> HIDE DEF r
<1>2. WellFormed(r) /\ Repair(r) = r
  BY <1>1, GroupedIsWellFormed, GroupedIsRepaired
<1> QED BY <1>2 DEF r

-----------------------------------------------------------------------------
(* The requests of a session. *)

\* The conversation is one whose announcements name no call twice.
LEMMA LogOnWire ==
    ASSUME ShapeInv
    PROVE  log \in Seq(WireMessages(Ids))
<1>1. log \in Seq(Messages(Len(trace)))
  BY DEF ShapeInv, BatchShape
<1>2. Messages(Len(trace)) \subseteq WireMessages(Ids)
  BY DEF Messages, WireMessages, Ids
<1> QED BY <1>1, <1>2, WiderSeq

\* Whatever was cancelled, lost, folded, compacted or split by a notice, what the
\* gateway sends of the conversation has one result for each announced call, directly
\* after the announcement, and repairing it again changes nothing: what the prefix guard
\* hashes is what goes out (repairToolMessageSequence).
THEOREM RequestsAlwaysWellFormed == Spec => []WireWellFormed
<1>1. ShapeInv => WireWellFormed
  <2> SUFFICES ASSUME ShapeInv, NEW first \in Windows
               PROVE  WellFormed(Sent(first)) /\ Repair(Sent(first)) = Sent(first)
    BY DEF WireWellFormed
  <2> DEFINE W == WireMessages(Ids)
             window == SubSeq(log, first, Len(log))
  <2>1. log \in Seq(W)
    BY LogOnWire
  <2>2. first \in Nat \ {0}
    BY <2>1 DEF Windows, UnitStarts
  <2>3. \A i \in first .. Len(log) : log[i] \in W
    <3> HIDE DEF W
    <3> QED BY <2>1, <2>2, ElementOfSeq, LenProperties
  <2>4. window \in Seq(W)
    <3> HIDE DEF W
    <3>1. first \in Int /\ Len(log) \in Int
      BY <2>1, <2>2, LenProperties
    <3> QED BY <2>3, <3>1, SubSeqProperties
  <2> HIDE DEF window
  <2>5. WellFormed(Repair(window)) /\ Repair(Repair(window)) = Repair(window)
    BY <2>4, RepairRepairs
  <2> QED BY <2>5 DEF Sent, window
<1> QED BY <1>1, ShapeAlways, PTL

=============================================================================
