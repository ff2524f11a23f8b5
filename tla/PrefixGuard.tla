----------------------------- MODULE PrefixGuard -----------------------------
(***************************************************************************)
(* The prompt-cache discipline of one session: what may change the bytes   *)
(* an LLM provider has cached, the invalidation ledger that must explain   *)
(* every such change, and the guard that refuses an unexplained one.       *)
(*                                                                         *)
(* Source: internal/orchestrator (turnloop.go, maintenance.go,             *)
(* invalidation.go, prefixshape.go, usage.go, switchcost.go, advisor.go,   *)
(* cacheresilience.go, engine.go).                                         *)
(*                                                                         *)
(* Two processes run: "task", the goroutine inside Engine.Run, and         *)
(* "manual", the goroutine the TUI starts for /compact.  A step between    *)
(* two labels of taskPc or manualPc is what one process does between two   *)
(* points at which the other, or a crash, can intervene.                   *)
(*                                                                         *)
(* Abstractions.  A cached prefix is three versions: the model (it fixes   *)
(* the system prompt too), the tool set, and the history rewrite counter.  *)
(* Appending to the history never changes settled bytes and is left out.   *)
(* Context pressure, provider answers and user decisions are choices.      *)
(***************************************************************************)
EXTENDS Integers, Sequences, FiniteSets

CONSTANTS
    Models,        \* catalog models the session may run on
    NoShape,       \* "no shape known": a nil *PrefixShape
    Advisor,       \* TRUE iff shouldRunAdvisor() holds (its default)
    Onboarding,    \* TRUE iff the effort profile asks clarifying questions
    PersistFails,  \* TRUE iff an append to the session's files may fail
    Overlap,       \* TRUE in the TUI: a prompt may be submitted during /compact
    MaxSeq,        \* no task or compaction begins at this many requests
    MaxHist,       \* no fold or window drop begins at this many rewrites
    MaxTools,      \* bound on tool-set versions
    MaxEvents,     \* no model switch begins at this many ledger entries
    MaxLives       \* bound on process lives

ASSUME ConstantsAssumption ==
    /\ Models # {}
    /\ {Advisor, Onboarding, PersistFails, Overlap} \subseteq BOOLEAN
    /\ {MaxSeq, MaxHist, MaxTools, MaxEvents, MaxLives} \subseteq Nat
    /\ NoShape \notin [model : Models, tools : Nat, hist : Nat]
    /\ NoShape \notin [model : Models, tools : Nat]

VARIABLES
    taskPc,      \* where Engine.Run is
    manualPc,    \* where Engine.Compact is
    wire,        \* the prefix the next request would carry
    built,       \* the prefix of the request being prepared
    changed,     \* regions CompareShape reported for that request
    lastShape,   \* e.lastShape: the prefix of the last recorded request
    requestSeq,  \* e.requestSeq, recovered from the usage log
    sent,        \* main-stream usage records
    events,      \* the invalidation ledger
    owed,        \* per process: the event it is about to record
    warm,        \* e.warmPrefix: model -> history revision it was sent
    passes,      \* e.maintenancePasses (latched at 2)
    saved,       \* e.prefixShapeSaved
    sidecar,     \* the persisted prefix shape
    prior,       \* e.priorSessionShape
    pruneDone,   \* e.resumePruneDone
    idleLong,    \* the session had been idle past staleResumeAfter
    lifeStart,   \* requestSeq when this process started
    life         \* number of the current process life

ledgerVars == <<requestSeq, sent, events>>
shapeVars  == <<built, changed, lastShape>>
cacheVars  == <<warm, passes, saved, sidecar, prior, pruneDone>>
lifeVars   == <<idleLong, lifeStart, life>>
vars == <<taskPc, manualPc, wire, owed, ledgerVars, shapeVars, cacheVars, lifeVars>>

Processes == {"task", "manual"}

TaskPcs == {"idle", "reconcile", "substituting", "advisor", "decide", "switching",
            "onboarding", "tools", "retooling", "prologue", "pruning", "boundary",
            "maintaining", "turn", "reclaiming", "reclaimed", "summarize",
            "rewrite", "compacted", "build", "windowed", "drift", "check", "chat",
            "usage", "save"}
ManualPcs == {"idle", "summarize", "rewrite", "compacted"}

HistoryCauses == {"fold", "compact", "user_compact", "window_drop"}
Causes == HistoryCauses \cup {"model_switch", "toolset_change", "prompt_rebuild"}
Regions == {"model", "tools", "history"}

Cold == -1
NoDebt == [cause |-> "none", seq |-> 0, undo |-> NoShape]

-----------------------------------------------------------------------------
(* Helpers.                                                                *)

PersistOutcomes == IF PersistFails THEN BOOLEAN ELSE {TRUE}

\* Engine.nextRequestSeq.
NextRequestSeq == requestSeq + 1

\* CompareShape: the stable regions that differ from the last request's.
CompareShape(previous, current) ==
    {r \in Regions :
        \/ r = "model"   /\ previous.model # current.model
        \/ r = "tools"   /\ previous.tools # current.tools
        \/ r = "history" /\ previous.hist # current.hist}

\* InvalidationLedger.EventsForRequest.
EventsForRequest(seq) == {i \in DOMAIN events : events[i].seq = seq}

\* InvalidationLedger.Record accepts an event stamped no earlier than the last
\* one, if its append to disk succeeds.
Accepts(seq, ok) == ok /\ (events # <<>> => seq >= events[Len(events)].seq)

\* Process p owes the ledger an event from here on.
Incur(p, cause) ==
    owed' = [owed EXCEPT ![p] = [cause |-> cause, seq |-> 0, undo |-> wire.model]]

Recorded(p) ==
    /\ owed[p].seq # 0
    /\ \E ok \in PersistOutcomes : Accepts(owed[p].seq, ok)
    /\ events' = Append(events, [cause |-> owed[p].cause, seq |-> owed[p].seq])
    /\ owed' = [owed EXCEPT ![p] = NoDebt]

Refused(p) ==
    /\ owed[p].seq # 0
    /\ \E ok \in PersistOutcomes : ~Accepts(owed[p].seq, ok)
    /\ owed' = [owed EXCEPT ![p] = NoDebt]
    /\ UNCHANGED events

\* recordAuxUsage: an auxiliary call takes a sequence number of its own.
AuxUsage == requestSeq' = requestSeq + 1

\* History.Maintain, CompactTo and a window drop each rewrite settled messages.
RewriteHistory == wire' = [wire EXCEPT !.hist = @ + 1]

\* Bounds.  They limit what a process may choose to begin, never a step it has
\* to finish, so the counters can pass them by what one task adds.
MayBegin == requestSeq < MaxSeq
MayRewrite == wire.hist < MaxHist

Go(from, to) == taskPc = from /\ taskPc' = to
GoManual(from, to) == manualPc = from /\ manualPc' = to

-----------------------------------------------------------------------------
(* Start-up and restart.                                                   *)

Init ==
    /\ taskPc = "idle" /\ manualPc = "idle"
    /\ wire \in [model : Models, tools : {0}, hist : {0}]
    /\ built = NoShape /\ changed = {} /\ lastShape = NoShape
    /\ requestSeq = 0 /\ sent = {} /\ events = <<>>
    /\ owed = [p \in Processes |-> NoDebt]
    /\ warm = [m \in Models |-> Cold]
    /\ passes = 0 /\ saved = FALSE
    /\ sidecar = NoShape /\ prior = NoShape
    /\ pruneDone = FALSE /\ idleLong = FALSE /\ lifeStart = 0 /\ life = 1

\* The process dies anywhere and is started again later.  NewEngine restores
\* the usage log, the ledger, the history and the sidecar; everything else is
\* lost.  The configuration may have changed in between.
Restart ==
    /\ life < MaxLives
    /\ life' = life + 1
    /\ lifeStart' = requestSeq
    /\ idleLong' \in BOOLEAN
    /\ taskPc' = "idle" /\ manualPc' = "idle"
    /\ \E m \in Models, t \in wire.tools .. MaxTools :
          wire' = [wire EXCEPT !.model = m, !.tools = t]
    /\ built' = NoShape /\ changed' = {} /\ lastShape' = NoShape
    /\ owed' = [p \in Processes |-> NoDebt]
    /\ warm' = [m \in Models |-> Cold]
    /\ passes' = 0 /\ saved' = FALSE /\ pruneDone' = FALSE
    /\ prior' = sidecar
    /\ UNCHANGED <<ledgerVars, sidecar>>

-----------------------------------------------------------------------------
(* Recording an owed event: read nextRequestSeq, then call the ledger.     *)

StampAhead(p) ==
    /\ owed[p].cause # "none" /\ owed[p].seq = 0
    /\ owed' = [owed EXCEPT ![p].seq = requestSeq + 2]
    /\ UNCHANGED <<taskPc, manualPc, wire, ledgerVars, shapeVars, cacheVars, lifeVars>>

Stamp(p) ==
    /\ owed[p].cause # "none" /\ owed[p].seq = 0
    /\ owed' = [owed EXCEPT ![p].seq = NextRequestSeq]
    /\ UNCHANGED <<taskPc, manualPc, wire, ledgerVars, shapeVars, cacheVars, lifeVars>>

\* The task records its event and goes on to pc ok, or the error sends it to
\* pc failed.
SettleTask(from, ok, failed) ==
    /\ taskPc = from
    /\ \/ Recorded("task") /\ taskPc' = ok
       \/ Refused("task") /\ taskPc' = failed
    /\ UNCHANGED <<manualPc, requestSeq, sent, shapeVars, lifeVars>>

-----------------------------------------------------------------------------
(* The task's prologue: model, onboarding, tools.                          *)

\* Run claims the task slot.  Only Compact looks at IsBusy; Run never looks
\* for a compaction, which line mode runs to its end before the next prompt.
StartTask ==
    /\ Overlap \/ manualPc = "idle"
    /\ MayBegin
    /\ Go("idle", "reconcile")
    /\ UNCHANGED <<manualPc, wire, owed, ledgerVars, shapeVars, cacheVars, lifeVars>>

\* applyModelSwitch, first half: the model is changed before the event is
\* recorded.
SwitchModel(from, to) ==
    /\ Go(from, to)
    /\ Len(events) < MaxEvents
    /\ \E m \in Models \ {wire.model} : wire' = [wire EXCEPT !.model = m]
    /\ Incur("task", "model_switch")
    /\ UNCHANGED <<manualPc, ledgerVars, shapeVars, cacheVars, lifeVars>>

\* A switch that does not re-arm the sidecar.
SettleSwitchWithoutRearm(from, to) ==
    /\ SettleTask(from, to, to)
    /\ wire' = IF events' # events THEN wire ELSE [wire EXCEPT !.model = owed["task"].undo]
    /\ UNCHANGED cacheVars

\* applyModelSwitch, second half: re-arm the sidecar, or roll the switch back.
SettleSwitch(from, to) ==
    /\ SettleTask(from, to, to)
    /\ IF events' # events
       THEN saved' = FALSE /\ UNCHANGED wire
       ELSE wire' = [wire EXCEPT !.model = owed["task"].undo] /\ UNCHANGED saved
    /\ UNCHANGED <<warm, passes, sidecar, prior, pruneDone>>

\* reconcileCatalog: only before the session's first request.
ReconcileCatalog ==
    \/ /\ Go("reconcile", "advisor")
       /\ UNCHANGED <<manualPc, wire, owed, ledgerVars, shapeVars, cacheVars, lifeVars>>
    \/ requestSeq = 0 /\ SwitchModel("reconcile", "substituting")
    \/ SettleSwitch("substituting", "advisor")

\* runTaskAdvisor's call: its usage is recorded whatever it answers, and an
\* error recording it is dropped.
AdvisorCall ==
    /\ Go("advisor", "decide")
    /\ \/ Advisor /\ AuxUsage
       \/ (~Advisor \/ PersistFails) /\ UNCHANGED requestSeq
    /\ UNCHANGED <<manualPc, wire, owed, sent, events, shapeVars, cacheVars, lifeVars>>

\* The advisor's decision: keep the model, or switch if the move is affordable.
AdvisorDecision ==
    \/ /\ Go("decide", "onboarding")
       /\ UNCHANGED <<manualPc, wire, owed, ledgerVars, shapeVars, cacheVars, lifeVars>>
    \/ Advisor /\ SwitchModel("decide", "switching")
    \/ SettleSwitch("switching", "onboarding")

\* Onboarding is an auxiliary call too; here a failed usage record ends the task.
OnboardingCall ==
    /\ \/ Go("onboarding", "tools") /\ UNCHANGED requestSeq
       \/ Onboarding /\ Go("onboarding", "tools") /\ AuxUsage
       \/ Onboarding /\ PersistFails /\ Go("onboarding", "idle") /\ UNCHANGED requestSeq
    /\ UNCHANGED <<manualPc, wire, owed, sent, events, shapeVars, cacheVars, lifeVars>>

\* applyBoundaryToolChange records the event first, then swaps the tools.
BoundaryToolChange ==
    \/ /\ Go("tools", "prologue")
       /\ UNCHANGED <<manualPc, wire, owed, ledgerVars, shapeVars, cacheVars, lifeVars>>
    \/ /\ Go("tools", "retooling")
       /\ wire.tools < MaxTools
       /\ Incur("task", "toolset_change")
       /\ UNCHANGED <<manualPc, wire, ledgerVars, shapeVars, cacheVars, lifeVars>>

Retool ==
    /\ SettleTask("retooling", "prologue", "idle")
    /\ wire' = IF events' # events THEN [wire EXCEPT !.tools = @ + 1] ELSE wire
    /\ UNCHANGED cacheVars

-----------------------------------------------------------------------------
(* The task's prologue: reclamation at the task boundary.                  *)

\* lastRequestTime lies in a previous life: no request has been recorded yet.
LastRequestIsOld == requestSeq > 0 /\ requestSeq = lifeStart /\ idleLong

\* persistMessage may fail and end the task.  staleResumePruneIfNeeded then
\* runs once per process, and prunes if the newest usage record is old.
StaleResumePrune ==
    \/ /\ Go("prologue", "idle") /\ PersistFails
       /\ UNCHANGED <<manualPc, wire, owed, ledgerVars, shapeVars, cacheVars, lifeVars>>
    \/ /\ Go("prologue", "boundary")
       /\ pruneDone' = TRUE
       /\ UNCHANGED <<manualPc, wire, owed, ledgerVars, shapeVars, lifeVars,
                      warm, passes, saved, sidecar, prior>>
    \/ /\ Go("prologue", "pruning")
       /\ ~pruneDone /\ LastRequestIsOld /\ MayRewrite
       /\ pruneDone' = TRUE
       /\ RewriteHistory /\ Incur("task", "fold")
       /\ UNCHANGED <<manualPc, ledgerVars, shapeVars, lifeVars,
                      warm, passes, saved, sidecar, prior>>

SettlePrune ==
    /\ SettleTask("pruning", "boundary", "idle")
    /\ UNCHANGED <<wire, cacheVars>>

MaintainUnlatched(from, to) ==
    /\ Go(from, to)
    /\ MayRewrite /\ RewriteHistory /\ Incur("task", "fold")
    /\ UNCHANGED <<manualPc, ledgerVars, shapeVars, cacheVars, lifeVars>>

\* runMaintenanceBoundary under pressure, with enough to reclaim, and not
\* latched by two earlier passes.
Maintain(from, to) ==
    /\ Go(from, to)
    /\ passes < 2
    /\ MayRewrite /\ RewriteHistory /\ Incur("task", "fold")
    /\ UNCHANGED <<manualPc, ledgerVars, shapeVars, cacheVars, lifeVars>>

\* Maintenance that returns before it records its event.
SettleMaintenanceSilently(from, to) ==
    /\ Go(from, to)
    /\ owed' = [owed EXCEPT !["task"] = NoDebt]
    /\ UNCHANGED <<manualPc, wire, ledgerVars, shapeVars, cacheVars, lifeVars>>

SettleMaintenance(from, to) ==
    /\ SettleTask(from, to, "idle")
    /\ passes' = IF events' # events THEN passes + 1 ELSE passes
    /\ UNCHANGED <<wire, warm, saved, sidecar, prior, pruneDone>>

TaskBoundary ==
    \/ /\ Go("boundary", "turn")
       /\ UNCHANGED <<manualPc, wire, owed, ledgerVars, shapeVars, cacheVars, lifeVars>>
    \/ Maintain("boundary", "maintaining")
    \/ SettleMaintenance("maintaining", "turn")

-----------------------------------------------------------------------------
(* The turn loop: reclaim, compact, build, guard, send, record.            *)

\* The task ends at the top of a turn (budget, cancellation, final answer),
\* finds no pressure, reclaims before compacting, or compacts at once.
Turn ==
    \/ /\ \/ \E to \in {"idle", "build"} : Go("turn", to)
          \/ MayBegin /\ Go("turn", "summarize")
       /\ UNCHANGED <<manualPc, wire, owed, ledgerVars, shapeVars, cacheVars, lifeVars>>
    \/ Maintain("turn", "reclaiming")
    \/ SettleMaintenance("reclaiming", "reclaimed")
    \/ /\ \/ Go("reclaimed", "build")
          \/ MayBegin /\ Go("reclaimed", "summarize")
       /\ UNCHANGED <<manualPc, wire, owed, ledgerVars, shapeVars, cacheVars, lifeVars>>

\* compact: the summarizer's usage is recorded before CompactTo.  If that fails
\* the history is left alone and the turn goes on.
AutoCompact ==
    \/ /\ \/ Go("summarize", "rewrite") /\ AuxUsage
          \/ Go("summarize", "build") /\ PersistFails /\ UNCHANGED requestSeq
       /\ UNCHANGED <<manualPc, wire, owed, sent, events, shapeVars, cacheVars, lifeVars>>
    \/ /\ Go("rewrite", "compacted")
       /\ RewriteHistory /\ Incur("task", "compact")
       /\ UNCHANGED <<manualPc, ledgerVars, shapeVars, cacheVars, lifeVars>>
    \/ /\ SettleTask("compacted", "build", "idle")
       /\ passes' = IF events' # events THEN 0 ELSE passes
       /\ UNCHANGED <<wire, warm, saved, sidecar, prior, pruneDone>>

BuildWithoutEvent ==
    /\ Go("build", "drift")
    /\ \/ UNCHANGED wire
       \/ MayRewrite /\ RewriteHistory
    /\ built' = wire'
    /\ UNCHANGED <<manualPc, owed, ledgerVars, changed, lastShape, cacheVars, lifeVars>>

\* BuildRequestWithMetadata: the request is assembled from the history as it
\* stands, and may have to drop units that were sent before.
Build ==
    \/ /\ Go("build", "drift")
       /\ built' = wire
       /\ UNCHANGED <<manualPc, wire, owed, ledgerVars, changed, lastShape, cacheVars, lifeVars>>
    \/ /\ Go("build", "windowed")
       /\ MayRewrite /\ RewriteHistory /\ Incur("task", "window_drop")
       /\ built' = wire'
       /\ UNCHANGED <<manualPc, ledgerVars, changed, lastShape, cacheVars, lifeVars>>

SettleWindowDrop ==
    /\ SettleTask("windowed", "drift", "idle")
    /\ UNCHANGED <<wire, cacheVars>>

DriftEntry(drifted, cause, ok) ==
    IF drifted /\ Accepts(NextRequestSeq, ok)
    THEN <<[cause |-> cause, seq |-> NextRequestSeq]>> ELSE <<>>

\* checkResumeDrift, on the first request of a resumed session only: one event
\* per region that differs from the sidecar, and errors recording them dropped.
ResumeDrift ==
    /\ Go("drift", "check")
    /\ prior' = NoShape
    /\ \E okModel, okTools \in PersistOutcomes :
          events' = events
            \o DriftEntry(prior # NoShape /\ prior.model # built.model, "prompt_rebuild", okModel)
            \o DriftEntry(prior # NoShape /\ prior.tools # built.tools, "toolset_change", okTools)
    /\ UNCHANGED <<manualPc, wire, owed, requestSeq, sent, shapeVars, lifeVars,
                   warm, passes, saved, sidecar, pruneDone>>

\* What the guard compares: nothing, on the first request of a process.
Reasons == IF lastShape = NoShape THEN {} ELSE CompareShape(lastShape, built)

Explained == EventsForRequest(NextRequestSeq) # {}

GuardWithoutLedger ==
    /\ Go("check", "chat") /\ changed' = Reasons
    /\ UNCHANGED <<manualPc, wire, owed, ledgerVars, built, lastShape, cacheVars, lifeVars>>

\* The prefix-shape guard ends the task when a changed prefix has no event
\* stamped with the number the request is about to take.
Guard ==
    /\ IF Reasons # {} /\ ~Explained
       THEN Go("check", "idle") /\ UNCHANGED changed
       ELSE Go("check", "chat") /\ changed' = Reasons
    /\ UNCHANGED <<manualPc, wire, owed, ledgerVars, built, lastShape, cacheVars, lifeVars>>

\* provider.Chat: an answer, a failure the turn retries, or one that ends it.
Chat ==
    /\ \E to \in {"usage", "turn", "idle"} : Go("chat", to)
    /\ UNCHANGED <<manualPc, wire, owed, ledgerVars, shapeVars, cacheVars, lifeVars>>

\* An upstream flip is reported only after an earlier response of this process,
\* or the sidecar it was resumed with, named an upstream.
Flips == IF lastShape = NoShape /\ sidecar = NoShape THEN {FALSE} ELSE BOOLEAN

\* recordMainUsage: number and persist the record, mark the model warm; an
\* upstream flip retires all warmth and re-arms the sidecar.  Then lastShape.
RecordMainUsage ==
    /\ \/ /\ Go("usage", "save")
          /\ requestSeq' = requestSeq + 1
          /\ \E flip \in Flips :
                /\ sent' = sent \cup {[seq |-> requestSeq', wire |-> built, changed |-> changed,
                                       flip |-> flip, life |-> life]}
                /\ warm' = IF flip THEN [m \in Models |-> Cold]
                           ELSE [warm EXCEPT ![built.model] = built.hist]
                /\ saved' = (saved /\ ~flip)
          /\ lastShape' = built
       \/ /\ Go("usage", "idle") /\ PersistFails
          /\ UNCHANGED <<requestSeq, sent, warm, saved, lastShape>>
    /\ UNCHANGED <<manualPc, wire, owed, events, built, changed, passes, sidecar, prior,
                   pruneDone, lifeVars>>

\* persistPrefixShapeOnce: marked saved even when the write fails.
PersistPrefixShapeOnce ==
    /\ \/ MayBegin /\ Go("save", "turn")
       \/ Go("save", "idle")
    /\ saved' = TRUE
    /\ \E ok \in PersistOutcomes :
          sidecar' = IF saved \/ ~ok THEN sidecar
                     ELSE [model |-> built.model, tools |-> built.tools]
    /\ UNCHANGED <<manualPc, wire, owed, ledgerVars, shapeVars, warm, passes, prior,
                   pruneDone, lifeVars>>

-----------------------------------------------------------------------------
(* Engine.Compact, for /compact.                                           *)

\* The IsBusy check is made once, at the start.
StartCompact ==
    /\ taskPc = "idle" /\ MayBegin
    /\ GoManual("idle", "summarize")
    /\ UNCHANGED <<taskPc, wire, owed, ledgerVars, shapeVars, cacheVars, lifeVars>>

SummarizeManual ==
    /\ \/ GoManual("summarize", "rewrite") /\ AuxUsage
       \/ GoManual("summarize", "idle") /\ PersistFails /\ UNCHANGED requestSeq
    /\ UNCHANGED <<taskPc, wire, owed, sent, events, shapeVars, cacheVars, lifeVars>>

CompactManual ==
    /\ GoManual("rewrite", "compacted")
    /\ RewriteHistory /\ Incur("manual", "user_compact")
    /\ UNCHANGED <<taskPc, ledgerVars, shapeVars, cacheVars, lifeVars>>

SettleManual ==
    /\ GoManual("compacted", "idle")
    /\ \/ Recorded("manual") /\ passes' = 0
       \/ Refused("manual") /\ UNCHANGED passes
    /\ UNCHANGED <<taskPc, wire, requestSeq, sent, shapeVars, lifeVars,
                   warm, saved, sidecar, prior, pruneDone>>

\* The bounded run is over.
AtBound == ~MayBegin /\ taskPc = "idle" /\ manualPc = "idle" /\ UNCHANGED vars

Next ==
    \/ StartTask \/ ReconcileCatalog \/ AdvisorCall \/ AdvisorDecision \/ OnboardingCall
    \/ BoundaryToolChange \/ Retool \/ StaleResumePrune \/ SettlePrune \/ TaskBoundary
    \/ Turn \/ AutoCompact \/ Build \/ SettleWindowDrop \/ ResumeDrift
    \/ Guard \/ Chat \/ RecordMainUsage \/ PersistPrefixShapeOnce
    \/ \E p \in Processes : Stamp(p)
    \/ StartCompact \/ SummarizeManual \/ CompactManual \/ SettleManual
    \/ Restart \/ AtBound

Spec == Init /\ [][Next]_vars

-----------------------------------------------------------------------------
(* Properties.                                                             *)

Debts == [cause : Causes \cup {"none"}, seq : Nat, undo : Models \cup {NoShape}]
Prefixes == [model : Models, tools : Nat, hist : Nat]
SidecarShapes == [model : Models, tools : Nat]

\* Every variable keeps its type; in particular two maintenance passes latch.
TypeOK ==
    /\ taskPc \in TaskPcs /\ manualPc \in ManualPcs
    /\ wire \in Prefixes
    /\ built \in Prefixes \cup {NoShape} /\ lastShape \in Prefixes \cup {NoShape}
    /\ changed \in SUBSET Regions
    /\ requestSeq \in Nat
    /\ sent \subseteq [seq : Nat, wire : Prefixes, changed : SUBSET Regions,
                       flip : BOOLEAN, life : Nat]
    /\ events \in Seq([cause : Causes, seq : Nat])
    /\ owed \in [Processes -> Debts]
    /\ warm \in [Models -> Nat \cup {Cold}]
    /\ passes \in 0 .. 2
    /\ saved \in BOOLEAN
    /\ sidecar \in SidecarShapes \cup {NoShape} /\ prior \in SidecarShapes \cup {NoShape}
    /\ pruneDone \in BOOLEAN /\ idleLong \in BOOLEAN
    /\ lifeStart \in Nat /\ life \in Nat

\* When the guard finds a changed prefix, it also finds the event explaining it,
\* so it never ends a task: maintenance_test.go:313-317 promises it "always
\* finds the change explained".
GuardFindsExplanation == (taskPc = "check" /\ Reasons # {}) => Explained

\* A main request whose usage record carries change reasons has an event with
\* its own number, which is how cost reports attribute the cold start.
PrefixChangeAttributed ==
    \A r \in sent : r.changed # {} => EventsForRequest(r.seq) # {}

CausesOf(region) ==
    CASE region = "model"   -> {"model_switch", "prompt_rebuild"}
      [] region = "tools"   -> {"toolset_change"}
      [] region = "history" -> HistoryCauses

Successive(a, b) ==
    /\ a.life = b.life /\ a.seq < b.seq
    /\ \A c \in sent : ~(a.seq < c.seq /\ c.seq < b.seq)

\* Between two successive requests of one process, each region that changed has
\* an event of a cause of that region, stamped after the first request and no
\* later than the second, whatever auxiliary calls took numbers in between.
EveryRegionExplained ==
    \A a, b \in sent : Successive(a, b) =>
        \A region \in CompareShape(a.wire, b.wire) :
            \E i \in DOMAIN events : /\ events[i].cause \in CausesOf(region)
                                     /\ a.seq < events[i].seq /\ events[i].seq <= b.seq

\* No event is stamped past the next request: a later one could not be recorded
\* without "request sequence moved backwards", and would explain a request that
\* had nothing to explain.
EventsNeverAhead ==
    /\ \A i \in DOMAIN events : events[i].seq <= NextRequestSeq
    /\ \A p \in Processes : owed[p].seq <= NextRequestSeq

\* The monotone check of Record never refuses an event the engine owes, so a
\* mutation is never left unexplained for having been stamped too early.
StampsNeverRefused == \A p \in Processes : owed[p].seq # 0 => Accepts(owed[p].seq, TRUE)

\* A model counts as warm only for a history revision it really was sent, in
\* this process, since the last change of upstream (switchcost.go).
WarmMeansConversationSent ==
    \A m \in Models : warm[m] # Cold =>
        \E r \in sent : /\ r.life = life /\ r.wire.model = m /\ r.wire.hist = warm[m]
                        /\ \A q \in sent : q.life = life /\ q.seq >= r.seq => ~q.flip

\* Once saved, the sidecar names the model of the last recorded request, so a
\* resume is compared with the model it continues on.
SidecarFollowsModel ==
    saved => /\ sidecar # NoShape /\ lastShape # NoShape
             /\ sidecar.model = lastShape.model

\* What is carried from one request or process to the next is true of the requests
\* that were made: the numbers of owed events, the warm models, the sidecar.
CarriedStateIsTrue == StampsNeverRefused /\ WarmMeansConversationSent /\ SidecarFollowsModel

\* The guard ends a task only for a change whose event is in the ledger under a
\* number that an auxiliary call took since the last main request: never for a
\* change nobody recorded, and never while only main requests are made.
GuardMissesOnlyTakenNumbers ==
    (taskPc = "check" /\ Reasons # {} /\ ~Explained) =>
        \E i \in DOMAIN events : /\ \A r \in sent : r.seq < events[i].seq
                                 /\ events[i].seq <= requestSeq

-----------------------------------------------------------------------------
(* Statements of the repository that the code does not keep.               *)

\* maintenance.go:18: "cannot compact while a task is running".
\* No compaction rewrites the history while a task is in its turn loop.
NoCompactionDuringTask == taskPc = "idle" \/ manualPc # "compacted"

=============================================================================
