----------------------------- MODULE UsageLedger ----------------------------
(***************************************************************************)
(* The usage of a session: its records, the figures folded from them, the  *)
(* live callbacks that show a task's running total, and the ring of        *)
(* friction events whose count ends up in the task's summary.              *)
(*                                                                         *)
(* Source: internal/orchestrator/usage.go, telemetry.go, switchcost.go,    *)
(* contextreport.go, turnloop.go; internal/contract/cache.go.              *)
(*                                                                         *)
(* Two goroutines record usage: the task and a manual compaction.  The     *)
(* record and its snapshot are taken under usageEmitMu, in one step; the   *)
(* callback runs outside it.  Numbering, persistence and warmth are in     *)
(* PrefixGuard.                                                            *)
(***************************************************************************)
EXTENDS Integers, Sequences, SequencesExt, FiniteSets

CONSTANTS
    Models,      \* model names
    Usages,      \* usages a reply may carry: [prompt, read, miss, cost]
    Block,       \* tokens of a cache block (64 in the code)
    RingCap,     \* harnessEventRingCap
    MaxRecords,  \* bound on the records of the session
    MaxEvents,   \* bound on the friction events of the session
    MaxTasks     \* bound on its tasks

ASSUME LedgerAssumption == {Block, RingCap, MaxRecords, MaxEvents, MaxTasks} \subseteq Nat

VARIABLES
    records,    \* e.usageRecords
    start,      \* e.taskUsageStart, as the number of records it sums
    task,       \* the running task's number, 0 before the first
    busy,       \* a task is running
    first,      \* e.firstAfterStart
    queue,      \* e.usageEmissionQueue
    emitting,   \* e.usageEmitting
    pending,    \* per recorder: the snapshots it is about to hand over
    draining,   \* recorders inside drainUsageEmissions
    emitted,    \* what callbacks.Usage has been called with
    ring,       \* e.harnessEvents, each the task that caused it
    ringStart,  \* harnessStart: the ring's length when the task began
    friction    \* events of this task, counted

ledgerVars == <<records, start, task, busy, first, queue, emitting, pending, draining, emitted,
          ring, ringStart, friction>>

Recorders == {"task", "compact"}
Streams == {"main", "aux"}
Attributions == {"n/a", "cold-start", "agent", "agent-suspect", "provider"}

-----------------------------------------------------------------------------
(* Records.                                                                *)

Value(option) == IF option.some THEN option.value ELSE 0

Paired(r) == r.usage.read.some /\ r.usage.miss.some
HasUsage(r) == r.usage.prompt.some \/ r.usage.read.some \/ r.usage.miss.some

AddedUp(numbers) == FoldLeft(LAMBDA sum, n : sum + n, 0, numbers)
Total(seq, Of(_)) == AddedUp([i \in DOMAIN seq |-> Of(seq[i])])
TotalWhere(seq, Test(_), Of(_)) == Total(seq, LAMBDA r : IF Test(r) THEN Of(r) ELSE 0)
CountWhere(seq, Test(_)) == TotalWhere(seq, Test, LAMBDA r : 1)

MainRecords(seq) == SelectSeq(seq, LAMBDA r : r.stream = "main")

\* estimatedNewTail, against the last main record.
NewTail(previous, usage) ==
    IF previous = <<>> \/ ~Last(previous).usage.prompt.some \/ ~usage.prompt.some THEN 0
    ELSE LET grown == usage.prompt.value - Last(previous).usage.prompt.value
         IN  IF grown > 0 THEN grown ELSE 0

\* suspiciousCacheMiss: a prompt that shrank, a read that fell short of the
\* previous prompt's blocks, or a miss beyond the new tail.
Suspicious(previous, usage, grew) ==
    /\ previous # <<>> /\ Last(previous).usage.prompt.some
    /\ LET before == Last(previous).usage.prompt.value IN
       \/ usage.prompt.some /\ usage.prompt.value < before
       \/ grew /\ usage.read.value < (before \div Block) * Block - 2 * Block
       \/ usage.miss.value > NewTail(previous, usage) + 2 * Block

\* mainCacheAttribution.
Attribution(usage, changed, grew) ==
    LET previous == MainRecords(records) IN
    CASE ~usage.read.some \/ ~usage.miss.some -> "n/a"
      [] first                                -> "cold-start"
      [] changed                              -> "agent"
      [] Suspicious(previous, usage, grew)    -> "agent-suspect"
      [] OTHER                                -> "provider"

-----------------------------------------------------------------------------
(* Folds of the log: AggregateUsage, SumCreditsUSD, AggregateUsageByModel  *)
(* and PerPairingRates.                                                    *)

Read(r) == Value(r.usage.read)
Miss(r) == Value(r.usage.miss)
Prompt(r) == Value(r.usage.prompt)
Cost(r) == Value(r.usage.cost)

Eligible(r) == r.stream = "main" /\ Paired(r) /\ r.attribution # "n/a"
Steady(r) == Eligible(r) /\ r.attribution # "cold-start"
Prefix(r) == Steady(r) /\ r.tail.some /\ Prompt(r) > r.tail.value

AggregateUsage(seq) ==
    LET steady == SelectSeq(seq, Steady)
        prefix == SelectSeq(seq, Prefix)
    IN  [requests |-> Len(seq), main |-> Len(MainRecords(seq)),
         prompt |-> Total(seq, Prompt), read |-> Total(seq, Read), miss |-> Total(seq, Miss),
         unavailable |-> Len(SelectSeq(seq, LAMBDA r : ~Paired(r))),
         pairedRead |-> Total(seq, LAMBDA r : IF Paired(r) THEN Read(r) ELSE 0),
         pairedMiss |-> Total(seq, LAMBDA r : IF Paired(r) THEN Miss(r) ELSE 0),
         sessionRead |-> Total(SelectSeq(seq, Eligible), Read),
         sessionMiss |-> Total(SelectSeq(seq, Eligible), Miss),
         steadyRead |-> Total(steady, Read), steadyMiss |-> Total(steady, Miss),
         prefixRead |-> Total(prefix, Read),
         prefixEligible |-> Total(prefix, LAMBDA r : Prompt(r) - r.tail.value)]

\* SumCreditsUSD: one billed record without a price makes the sum unavailable.
Credits(seq) ==
    LET eligible == CountWhere(seq, HasUsage)
        priced == CountWhere(seq, LAMBDA r : HasUsage(r) /\ r.usage.cost.some)
        known == eligible > 0 /\ priced = eligible
    IN  [some |-> known, eligible |-> eligible, priced |-> priced,
         value |-> IF known THEN TotalWhere(seq, HasUsage, Cost) ELSE 0]

ModelRowAnyPrice(seq, m) ==
    LET Mine(r) == HasUsage(r) /\ r.model = m
        priced == \E i \in DOMAIN seq : Mine(seq[i]) /\ seq[i].usage.cost.some
    IN  [requests |-> CountWhere(seq, Mine),
         uncached |-> TotalWhere(seq, Mine, Miss), read |-> TotalWhere(seq, Mine, Read),
         cache |-> \A i \in DOMAIN seq : Mine(seq[i]) => Paired(seq[i]),
         cost |-> [some |-> priced, value |-> IF priced THEN TotalWhere(seq, Mine, Cost) ELSE 0]]

\* One row per model that has billed records.
ModelRow(seq, m) ==
    LET Mine(r) == HasUsage(r) /\ r.model = m
        priced == \A i \in DOMAIN seq : Mine(seq[i]) => seq[i].usage.cost.some
    IN  [requests |-> CountWhere(seq, Mine),
         uncached |-> TotalWhere(seq, Mine, Miss), read |-> TotalWhere(seq, Mine, Read),
         cache |-> \A i \in DOMAIN seq : Mine(seq[i]) => Paired(seq[i]),
         cost |-> [some |-> priced, value |-> IF priced THEN TotalWhere(seq, Mine, Cost) ELSE 0]]

RowsOf(seq) == {m \in Models : \E i \in DOMAIN seq : HasUsage(seq[i]) /\ seq[i].model = m}

\* Per model and pin; the pin follows from the stream.  The first paired record,
\* the cold write, is left out of the rate.
PairingRate(seq, m, stream) ==
    LET Mine(r) == r.model = m /\ r.stream = stream
        Reports(i) == Mine(seq[i]) /\ Paired(seq[i])
        Steadily(Of(_)) == AddedUp([i \in DOMAIN seq |->
            IF Reports(i) /\ \E j \in 1 .. i - 1 : Reports(j) THEN Of(seq[i]) ELSE 0])
    IN  [requests |-> CountWhere(seq, Mine), prompt |-> TotalWhere(seq, Mine, Prompt),
         reported |-> \E i \in DOMAIN seq : Reports(i),
         read |-> Steadily(Read), miss |-> Steadily(Miss)]

\* taskUsageSnapshot: the session's usage less what it was at the task's start.
Snapshot(seq, from) ==
    LET now == AggregateUsage(seq)
        then == AggregateUsage(SubSeq(seq, 1, from))
        Gain(a, b) == IF a > b THEN a - b ELSE 0
    IN  [task |-> task, prompt |-> Gain(now.prompt, then.prompt),
         read |-> now.pairedRead - then.pairedRead, miss |-> now.pairedMiss - then.pairedMiss]

-----------------------------------------------------------------------------
(* Recording and emitting.                                                 *)

LedgerInit ==
    /\ records = <<>> /\ start = 0 /\ task = 0 /\ busy = FALSE /\ first = TRUE
    /\ queue = <<>> /\ emitting = FALSE
    /\ pending = [p \in Recorders |-> <<>>] /\ draining = {}
    /\ emitted = <<>>
    /\ ring = <<>> /\ ringStart = 0 /\ friction = 0

StartTask ==
    /\ ~busy /\ task < MaxTasks
    /\ busy' = TRUE /\ task' = task + 1
    /\ start' = Len(records)
    /\ ringStart' = Len(ring) /\ friction' = 0
    /\ UNCHANGED <<records, first, queue, emitting, pending, draining, emitted, ring>>

EndTask ==
    /\ busy /\ "task" \notin draining
    /\ busy' = FALSE
    /\ UNCHANGED <<records, start, task, first, queue, emitting, pending, draining, emitted,
                   ring, ringStart, friction>>

EnqueueAndDrain(p) ==
    /\ queue' = Append(queue, Snapshot(records', start))
    /\ emitting' = TRUE
    /\ draining' = draining \cup {p}

\* recordUsageAndEmit: append the record, queue its snapshot, and drain unless
\* another recorder already does.
Enqueue(p) ==
    /\ queue' = Append(queue, Snapshot(records', start))
    /\ emitting' = TRUE
    /\ draining' = IF emitting THEN draining ELSE draining \cup {p}

\* recordMainUsage.
RecordMain(m, usage) ==
    /\ busy /\ "task" \notin draining /\ Len(records) < MaxRecords
    /\ \E changed, grew \in BOOLEAN :
          records' = Append(records,
              [stream |-> "main", model |-> m, usage |-> usage,
               attribution |-> Attribution(usage, changed, grew),
               tail |-> [some |-> MainRecords(records) # <<>> /\ usage.prompt.some,
                         value |-> NewTail(MainRecords(records), usage)]])
    /\ first' = FALSE
    /\ Enqueue("task")
    /\ UNCHANGED <<start, task, busy, pending, emitted, ring, ringStart, friction>>

\* recordAuxUsage: the advisor and onboarding of a task, or a compaction's summary.
RecordAux(p, m, usage) ==
    /\ p \notin draining /\ Len(records) < MaxRecords
    /\ p = "task" => busy
    /\ records' = Append(records,
           [stream |-> "aux", model |-> m, usage |-> usage, attribution |-> "n/a",
            tail |-> [some |-> FALSE, value |-> 0]])
    /\ Enqueue(p)
    /\ UNCHANGED <<start, task, busy, first, pending, emitted, ring, ringStart, friction>>

TakeOnce(p) ==
    /\ p \in draining /\ pending[p] = <<>>
    /\ emitting' = FALSE /\ draining' = draining \ {p}
    /\ UNCHANGED <<queue, pending, records, start, task, busy, first, emitted, ring, ringStart,
                   friction>>

\* drainUsageEmissions takes one snapshot at a time, or stops when none is left.
Take(p) ==
    /\ p \in draining /\ pending[p] = <<>>
    /\ IF queue = <<>>
       THEN emitting' = FALSE /\ draining' = draining \ {p} /\ UNCHANGED <<queue, pending>>
       ELSE /\ pending' = [pending EXCEPT ![p] = <<Head(queue)>>]
            /\ queue' = Tail(queue)
            /\ UNCHANGED <<emitting, draining>>
    /\ UNCHANGED <<records, start, task, busy, first, emitted, ring, ringStart, friction>>

\* callbacks.Usage, outside the lock.
Callback(p) ==
    /\ pending[p] # <<>>
    /\ emitted' = emitted \o pending[p]
    /\ pending' = [pending EXCEPT ![p] = <<>>]
    /\ UNCHANGED <<records, start, task, busy, first, queue, emitting, draining, ring, ringStart,
                   friction>>

\* recordHarnessEvent: the ring keeps the last RingCap.
RecordHarnessEvent ==
    /\ busy /\ friction < MaxEvents
    /\ LET longer == Append(ring, task) IN
       ring' = IF Len(longer) > RingCap THEN Tail(longer) ELSE longer
    /\ friction' = friction + 1
    /\ UNCHANGED <<records, start, task, busy, first, queue, emitting, pending, draining, emitted,
                   ringStart>>

\* harnessEventsSince: what the task's summary calls its own.
EventsSince == IF ringStart > Len(ring) THEN ring ELSE SubSeq(ring, ringStart + 1, Len(ring))

LedgerNext ==
    \/ StartTask \/ EndTask \/ RecordHarnessEvent
    \/ \E m \in Models, usage \in Usages : RecordMain(m, usage)
    \/ \E p \in Recorders, m \in Models, usage \in Usages : RecordAux(p, m, usage)
    \/ \E p \in Recorders : Take(p) \/ Callback(p)

LedgerProgress == \A p \in Recorders : WF_ledgerVars(Take(p) \/ Callback(p))

LedgerSpec == LedgerInit /\ [][LedgerNext]_ledgerVars /\ LedgerProgress

-----------------------------------------------------------------------------
(* Properties.                                                             *)

\* Every variable keeps its type, and only a recorder that drains hands over.
LedgerTypeOK ==
    /\ records \in Seq([stream : Streams, model : Models, usage : Usages,
                        attribution : Attributions, tail : [some : BOOLEAN, value : Nat]])
    /\ {start, task, ringStart, friction} \subseteq Nat
    /\ {busy, first, emitting} \subseteq BOOLEAN
    /\ draining \subseteq Recorders
    /\ \A p \in Recorders : Len(pending[p]) <= IF p \in draining THEN 1 ELSE 0
    /\ Len(ring) <= RingCap

\* Live totals never go back: within one task a callback never shows fewer
\* tokens than an earlier one, whichever goroutine recorded and whichever emits.
EmissionsNeverGoBack ==
    \A i, j \in DOMAIN emitted :
        i < j => /\ emitted[i].task <= emitted[j].task
                 /\ emitted[i].task = emitted[j].task =>
                       /\ emitted[i].prompt <= emitted[j].prompt
                       /\ emitted[i].read <= emitted[j].read
                       /\ emitted[i].miss <= emitted[j].miss

\* Every recorded usage is shown in the end: no snapshot stays in the queue
\* because each recorder takes the other for the one that drains.
EveryRecordShown == []<>(queue = <<>> /\ \A p \in Recorders : pending[p] = <<>>)

\* The session panel shows three folds of one log side by side, and they agree:
\* the rows per model and the rates per pairing add up to the session's sums, and
\* the session has a price exactly when every row has one.
ReportsAgree ==
    LET aggregate == AggregateUsage(records)
        Rows(Of(_)) == Total(SetToSeq(RowsOf(records)), LAMBDA m : Of(ModelRow(records, m)))
        Pairings(Of(_)) == Total(SetToSeq(Models \X Streams),
                                 LAMBDA k : Of(PairingRate(records, k[1], k[2])))
    IN  /\ Rows(LAMBDA row : row.read) = aggregate.read
        /\ Rows(LAMBDA row : row.uncached) = aggregate.miss
        /\ Pairings(LAMBDA rate : rate.prompt) = aggregate.prompt
        /\ Pairings(LAMBDA rate : rate.requests) = aggregate.requests
        /\ Pairings(LAMBDA rate : rate.read) <= aggregate.pairedRead
        /\ Credits(records).some <=> (/\ RowsOf(records) # {}
                                      /\ \A m \in RowsOf(records) : ModelRow(records, m).cost.some)
        /\ Credits(records).some => Rows(LAMBDA row : row.cost.value) = Credits(records).value

=============================================================================
