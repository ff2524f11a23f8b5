# Formal models of MuhiyaCode

MuhiyaCode is a terminal coding agent in Go: a TUI, an engine that runs the model's turns and
tools, a gateway client, a workspace layer with the tools' file and shell effects, MCP clients, and
session state in SQLite, JSONL and JSON files. This directory holds TLA+ models of the parts whose
correctness depends on the order of steps, on what fails in between and on what a restart finds; the
TLC runs that check them; and the TLAPS proofs about them.

Run everything inside this directory, for example `tlc -workers 2 -config desk.cfg MCDesk.tla` and
`tlapm Streams_proofs.tla`. `PROJECT.json` lists the runs, the source lines of every definition, the
hazards, the findings and, for every property a passing run checks, a change of the model that a
plausible bug would make and that breaks the property. Those changed definitions stand in the modules,
each before the one it would replace (`SendOnOldAccumulator` before `Send`); no specification uses them.

| module | models | checked in | theorems |
|---|---|---|---|
| `PrefixGuard` | the cached prefix, its invalidation ledger and the guard, across restarts | `prefix_*` | `PrefixGuard_proofs` |
| `WireRepair`, `ToolTurn` | the repair of tool sequences; the dispatch gate, the inspection ledger, the conversation's tail | `tool_turn` | `ToolTurn_proofs` |
| `TurnLoop` | one task's turns, what extends and ends them, the queued messages | `turn_loop` | `TurnLoop_proofs` |
| `OneReply`, `Gateway` | what a caller relies on; the ladder of retries, the stream and its timers | `streams` | `Streams_proofs` |
| `StreamReply` | what the chunks of a stream add up to: calls, usage, rescued calls | `streams` | `Streams_proofs` |
| `UsageLedger` | usage records, the figures folded from them, the live callbacks, the friction ring | `streams` | `Streams_proofs` |
| `ShellRun` | one shell command and the processes it leaves behind | `streams` | |
| `Bridge` | from the engine's goroutines to the rows on the screen | `streams` | `Streams_proofs` |
| `Mcp` | connecting, refreshing, calling and publishing the MCP servers | `streams` | `Mcp_proofs` |
| `ShellGates` | the two classifiers of a command line | `desk` | `Workspace_proofs` |
| `TextEdit` | edits, diffs and hunks of one text | `desk` | `Workspace_proofs` |
| `Permissions`, `Workspace` | the guard with its modes and questions; the file tools, checkpoints, rewind | `desk` | `Workspace_proofs` |
| `Screen`: `Terminal`, `Pastes` | session and pages on the screen; the prompt being composed | `desk` | `TurnLoop_proofs` |
| `Dialogs` | who owns the dialog | `desk` | `Desk_proofs` |
| `SessionLog` | an append-only session file on disk | `desk` | `Desk_proofs` |
| `Conversation` | what is kept of the conversation and what a request shows of it | `desk` | `Desk_proofs` |
| `ProjectContext` | what the model is told of the project | `desk` | `Desk_proofs` |
| `AtHand`: `Memory`, `Skills`, `Checklist` | the project's memory; skills; to-dos | `desk` | `Workspace_proofs` |
| `ReviewGate` | what a task's changes ask of its end | `desk` | `Desk_proofs` |
| `Catalog`, `McpSecrets` | the list of models; MCP servers and tokens, in shared files | `desk` | `Desk_proofs`, `Mcp_proofs` |
| `FoldLemmas` | what the proofs know of folds, recursive functions, least and greatest numbers | | its own lemmas |
| `MC...` | the instances TLC checks | | |

`PrefixGuard`, `ToolTurn`, `TurnLoop` and `Conversation` cut the engine's loop along different lines.
`TurnLoop` has the control of `Engine.Run` and none of its data; `ToolTurn` has what a turn does to the
conversation and takes the control as a choice; `PrefixGuard` has what a task does to the cached prefix
before and around each request; `Conversation` has the sizes. An error one of them produces is a choice
in the others.

## Inventory

| part (package) | state it keeps | operations | what is hard | what makes it correct |
|---|---|---|---|---|
| Prefix discipline (`internal/orchestrator`: invalidation, prefixshape, cacheresilience, switchcost, maintenance, engine) | invalidation ledger, request numbers, last wire shape, warm prefixes, shape sidecar | record an event, record usage, guard a request, fold, compact, switch model, swap tools, restart | an event is stamped with a number another call may take; failures between a change and its event; a crash before the sidecar | every change of a cached prefix is explained under the number of the request that pays for it |
| Turn loop (turnloop, turnhelpers, engine) | task slot, steering queue, counters, breakers | run, queue a message, cancel, finalize | two goroutines at the slot; a message queued while the task ends; retries | one task at a time; messages heard once; every task ends |
| Tool dispatch (dispatch, gates, inspection) | per-task counters, inspection ledger | validate, short-circuit, limit, dedupe, dispatch | notices between a call and its result; cancellation after the effect | one ordered result per call; no stale duplicate |
| Conversation (history, maintenance) | messages, task start, summary, rewrite version | append, trim, fold, compact, assemble | windows that move backward; what is shortened while needed | a request extends the last one; nothing needed is lost |
| Review gate, usage figures, checklist, skills, memory, project context (`internal/orchestrator`) | profiles, ledgers, lists, cursors on disk | see the sections below | two sessions, two goroutines, a crash between two writes | what is shown is what was recorded; what the model is told is true and told once |
| Gateway client (`internal/gateway`) | the accumulator of a stream, the pin latch | Chat with retries, parse, rescue, repair | broken and silent streams, contradictory usage | one reply, the whole of one stream; it returns |
| Session state (`internal/state`) | SQLite events, JSONL logs, JSON sidecars, settings, secrets | append and sync, read, replace | crash inside an append, failed sync, two processes | what was acknowledged is read back; no writer undoes another |
| Workspace (`internal/workspace`) | grants, read ledger, checkpoints | read, edit, patch, run, rewind | a write that fails in the middle of a patch; a mode that changes while a question is open | all or nothing; consent for each change; a rewind is exact |
| MCP clients (`internal/mcpclient`) | connections, tools, surface, tokens | connect, refresh, call, publish, close | a server lost mid-call, a wedged server, a refresh beside a call | tools and connections in step; a call returns |
| TUI (`internal/tui`) | rows, buffers, dialog and queue, stash of pastes, pending prompt | ingest, flush, page, submit, switch, ask | results of commands arriving after the world has moved on | order kept; own session shown; no prompt lost; no goroutine left waiting |
| Commands, wiring, instructions, contract types, update check, code index | little or none | start-up, parsing, prompts, formatting | pure functions or I/O | not modelled |

How they interact: the TUI calls `Engine.Run` in a goroutine and receives callbacks through its
bridge; the engine calls the gateway for each request, the workspace and MCP registries for each tool
call, and `state` through persistence hooks. `/compact` runs `Engine.Compact` in a goroutine of its own,
and the TUI's commands (pages, lists, switches) run in goroutines whose results come back as messages.
Shared engine state is guarded by `mu`, `taskMu`, `usageWriteMu` and `usageEmitMu`.

## The engine's core

**PrefixGuard** models one session: the goroutine inside `Engine.Run` ("task"), the goroutine of
`/compact` ("manual"), crashes and restarts. `taskPc` and `manualPc` stand between the points where the
other process, or a crash, can intervene. `wire` is the prefix the next request would carry, as three
versions (model, tools, rewrite counter), which `NewWirePrefixShape` hashes; appending changes no settled
byte and is left out. `requestSeq`, `sent` and `events` are the numbering, the main-stream usage records
and the ledger, which survive a restart. `owed` is the event a process has incurred and not yet recorded:
incurring, stamping (`nextRequestSeq`) and recording are separate steps because they are separate
critical sections. `warm`, `passes`, `saved`, `sidecar`, `prior`, `pruneDone` are the fields of the same
meaning in `engine.go`. Pressure ratios, provider answers and the advisor's verdict are choices. The
bounds limit what may begin (a task, a fold, a switch, a life), never a step that has begun.

**WireRepair** is `repairToolMessageSequence`: each announcement is sent with the first recorded result
of each of its calls, and a stand-in for each call without one. **ToolTurn** is the life of a call: `log` is
the engine's `History`, `trace` numbers every call and remembers how it ended. Calls are announced, pass
the gate one at a time in the order of `executeOne` (each exit an action with the code's guard), and are
recorded one by one under the task's context. The workspace is a version per file that other programs, and
tools that fail half way, may raise. Between two requests the conversation may be folded, compacted and
windowed. One file, two tasks, three calls, batches of two, `RepeatLimit` and `GuardAt` 2 for 3: a
property is about one call and another between or after them, or one batch split by a notice. The
findings run with the code's own limits of 3.

**TurnLoop**: `pc` is where the loop stands (`top`, `ask`, `wait`, a kind of reply, `verify`, `closing`).
Each branch that continues or ends a task is an action; the counters are `Run`'s locals. What the model
answers, which tools fail and when the budget is exceeded are choices. Two efforts, two classes, one
message per task; tasks follow one another without end.

**Conversation** has the messages by weight: 1 is below what folding touches, 4 above what trimming
touches. A request starts at the first unit that still fits. *`RequestsExtend`*: a request of the
same rewrite version begins with all of the one before it. *`ReclaimIsSafe`*: no message of the running
task is folded, no error trimmed, nothing shortened that is not in the archive, and reclaiming again at
once would find nothing. Four messages and a reclamation, or three and two, with one restart.

**ReviewGate** is the decision as a function of a task's profile, and the task around it: steps of one or
eight files, with and without forty lines, a risk area, a created file. *`ReviewFollowsChange`*: doing more
never earns less review, and a task reported as needing none changed little, all its steps together.

## What streams and waits (`streams`)

**Gateway** is `Chat` and `chatOnce`. The provider is the environment: it may refuse, break off, fall
silent, send lines that are no JSON, or end at any point. `shown` has, for each token handed to `OnToken`,
the request it came from; `streams` what each request's stream carried. `OneReply` is the abstract
specification: a request is open, begins streams one after another while its caller has not cancelled, and
ends once, with an error or with the whole of its latest stream. *`OneReplySpec`* is the refinement
(`INSTANCE OneReply WITH MaxAttempts <- MaxRetries + 1, open <- pc # "idle"`; the other variables have the
same names). *`ShownEndsWithReply`*: what a broken stream had shown stays on the screen in front of the
reply, and never between its lines. *`EveryChatReturns`* is liveness. Three retries, as in the code, two
tokens, two requests (for the latch of the pin), one malformed line tolerated (twenty in the code).

**StreamReply** puts a reply together from frames, with integers of a small width that wrap as the
machine's do. *`UsageAddsUp`*: numbers that are trusted are not negative and add up to the prompt.
**UsageLedger** has two recorders: the record and its snapshot are one step (under `usageEmitMu`), the
callback is outside it. *`EmissionsNeverGoBack`*, *`EveryRecordShown`*, and *`ReportsAgree`*: three folds that
are shown side by side agree. **ShellRun** tells the command apart from the pipe its children may hold:
*`EveryShellReturns`*. **Bridge** has the two buffers, their timers and the senders on both sides of the
unbuffered `Program.Send`: *`OrderKept`* and *`NoTextStranded`*. **Mcp** has rounds that hold `refreshMu` throughout
and steps under `m.mu`: *`ToolsAreLive`* and *`EveryMCPCallReturns`*, in which a wedged server never answers.

## What happens on the user's machine (`desk`)

**ShellGates** tokenises commands and classifies them twice. *`GatesAgree`*: what the backstop blocks as a
destructive delete is never read-only to the other gate. All commands of up to four lexemes, with a member
of each kind of word the tables treat alike. **TextEdit** edits texts of up to four letters with both line ends,
blanks and lines that look like a diff's headers; *`ChangesAreExact`*. **Permissions** has the mode in two places,
which Shift+Tab writes at different times, and the way of a request through places, trust and consent;
**Workspace** has the call around it, the checkpoint each change leaves and the rewind, which may run beside
the next task. *`EveryChangeConsented`*, *`RewindIsExact`*, *`PatchAllOrNothing`*. Two calls, the second of one
file, or one call and a change by another program; any write may fail.

**Terminal** has the prompt typed while the workspace loads, steering, the switch of session in two steps and
the pages read off the event loop; **Pastes** the prompt with large pastes as labels. *`ScreenIsTrue`*: the rows
are the session's own, no prompt is lost by a race, and what the engine takes is what was composed. A step
that releases a stash a label needs sets `torn`, and nothing after it is examined: those steps are described
at the hazard (`tui/keys.go:213`), not hidden by the bound. **Dialogs** has requests goroutines wait for, and the
results of commands that arrive meanwhile: *`AskedIsVisible`*.

**SessionLog** is a file of tokens: whole records, fragments and ends of line. The process may die and the
power fail at any point; the system keeps what was written, the disk what was synced. `appendJSONLine`'s
outcomes are separate actions. *`AckedReadBack`* holds as long as no append lands behind a torn line
(`Separate`); what happens otherwise is `finding_torn_line`.

**ProjectContext** is the boot block of a session, the versions the model was told since, and the three
writes (conversation, sidecar, block) a crash may separate. *`ContextIsTrue`*: the session resumes with the
bytes of its first request, a task reads every document as it was when the task began, and is told of a
change once. A lost or unreadable sidecar, a failed write of the cursor and an update that left the conversation
are modelled and excused: the property is about restarts and changing documents, not about what such a loss leads
to. **Memory** is the index and its topics, shared by two sessions without a lock. A save appends; an edit, the
removal of a dissolved topic's pointer (`RemoveIndexPointer`) and the opening of a session (`OpenMemory`) read a file
in one step and write it over in another (`RewriteMemory`), which may be cut short after the file was emptied
(`RewriteCutShort`), as an append may be (`AppendCutShort`). **Checklist** is the file
of to-dos the engine reads again after a tool wrote one; **Skills** the marker by which a skill counts as
given. *`AtHandIsTrue`* has their three promises: an entry the model was told is saved is lost only to a write of its
file from an older read, or to such a write cut short, and the index lists what is there as long as no calls
overlap and none fails; what is shown of to-dos is what their file held; a skill is not given twice and
not refused while it is absent. **Catalog** and **McpSecrets** are files that several processes read and write
whole: *`CatalogIsKept`*, *`SecretsAreCurrent`*. A round of `McpSecrets` (`BeginRound`) starts a job for each server with an
expired token and the jobs run side by side; `secretsMu` is what keeps their saves from undoing each other. The
answer of a rotation may be lost (`ReplyIsLost`): the stored token is then refused until the user authorises again.

Several properties excuse what a flag of the model records (`disturbed`, `crossed`, `lapsed`, `spoiled`,
`torn`, `shortened`, `cursorLost`, `sidecarLost`, `unread`, `talkLost`, `forgot`, `lost`, `stranded`). Each names one event the code does
not defend against, says so at its declaration, and is listed at the hazard; the properties hold whenever the
event did not happen.

## Two composite instances

`MCStreams` and `MCDesk` put the modules of one kind into one instance. The parts share no state, so any
interleaving of two of them moves each as it would move alone; a product would multiply states and show
nothing. A behaviour therefore moves one part, named by `focus`, and the others keep an initial state. The
modules that do interact are joined where they do: `Workspace` EXTENDS `Permissions`, because a call is
authorised path by path while the mode changes; `ToolTurn` EXTENDS `WireRepair`; `Gateway` refines `OneReply`.

Bounds are constants of the modules, or operators `...Bounded` of the two instances where a product of two
bounds is too large: `FilesBounded` (two calls, the second of one file, or a call and another program's
change; the mode changes are examined alone, by the focus `guard`), `TerminalBounded` (three prompts,
switches and answers in all), `TalkBounded`, `ListBounded`, `CatalogBounded`, `SecretsBounded` (three jobs if two of them are one
manager's connections), `McpBounded`, and `PastesBounded`,
which stops after a step that releases what a label needs. Each allows the cases its properties are about:
a second action between two steps of a first one, with one failure or restart in it.

Three constants of the two instances are not what the code has: the malformed lines of a stream (1 for 20), the
output kept of a command (2 pieces) and the rows of a page (2). The ladder of `Gateway` has the code's own three
retries.

## Runs

| run | instance | checks |
|---|---|---|
| `prefix_advised` | advisor and onboarding on, two lives | `TypeOK`, `GuardMissesOnlyTakenNumbers`, `EveryRegionExplained`, `CarriedStateIsTrue` |
| `prefix_faulty` | every append may fail | `PrefixChangeAttributed`, `EventsNeverAhead` |
| `tool_turn` | cancellation, crashes, failed requests, folding, compaction, outside edits | `WireWellFormed`, `AnsweredOnce`, `DuplicatesAreFresh` |
| `turn_loop` | tasks without end | `TurnsBounded`, `HeardOnceByItsTask`, `HeardBeforeTheEnd`, `EveryTaskEnds` |
| `streams` | six parts that stream and wait (328,018 states) | `ShownEndsWithReply`, `OneReplySpec`, `EveryChatReturns`; `UsageAddsUp`; `EmissionsNeverGoBack`, `EveryRecordShown`, `ReportsAgree`; `EveryShellReturns`; `OrderKept`, `NoTextStranded`; `ToolsAreLive`, `EveryMCPCallReturns` |
| `desk` | sixteen parts of the user's machine (1,009,724 states) | `GatesAgree`; `ChangesAreExact`; `EveryChangeConsented`, `RewindIsExact`, `PatchAllOrNothing`; `ScreenIsTrue`; `AskedIsVisible`; `AckedReadBack`; `ReclaimIsSafe`, `RequestsExtend`; `ContextIsTrue`; `AtHandIsTrue`; `ReviewFollowsChange`; `CatalogIsKept`; `SecretsAreCurrent` |
| `finding_advisor_abort` | advisor on | `GuardFindsExplanation` fails: the advisor's call takes the number an event was stamped with, and the task dies at the guard |
| `finding_compact_overlap` | a prompt may be submitted during `/compact` | `NoCompactionDuringTask` fails |
| `finding_cancel_unanswered` | cancellation only | `EveryCallAnswered` fails: a cancelled context cannot persist a result, and the announced call keeps none |
| `finding_loop_guard` | no failures but the tools' | `RecordedResultsAreSent` fails: the loop guard's notice separates a batch from its results, which are then replaced by stand-ins |
| `finding_torn_line` | lost power only | `ResumeNeverRefused` fails: a torn line, an append on it and one more make every later resume fail |
| `finding_reply_clobbered` | dialogs | `RepliesShowTheirChoices` fails: a server list asked for before a permission dialog opened puts its rows into that dialog |

`AtBound` (in `PrefixGuard`) is the stutter of a model that has reached its bounds. In `streams` and `desk`
deadlock is not checked, because a part that has used up its bounds stops; that nobody is left waiting
is what their liveness properties and `AskedIsVisible` say. The type invariants of the modules in `streams`
and `desk` are stated in the modules and hold of both instances (add them as INVARIANTs to see it); those of
most are also part of what is proved.

## Fairness

Only what the Go runtime and the timers of the code give:

* `TurnLoop`: `WF_vars(TaskStep)`. A running goroutine is scheduled and every wait of the loop ends: a request
  by the gateway's timers, a shell or MCP call by its deadline, the pause by its timer; these are `Gateway`,
  `ShellRun` and `Mcp`, whose liveness is checked. Where the loop asks the user, an answer or a cancellation is
  assumed. No fairness on queueing, cancelling or changing the effort. That at most `MaxMessages` are queued for
  one task is a real assumption: each message buys turns.
* `GatewayProgress`: the client's own steps (`Send`, `Stall`, `DropPin`, `Judge`, `Wake`); the provider need
  do nothing. A provider that keeps sending comment lines keeps the idle timer from firing and is not covered.
* `ShellRunProgress`: the deadline, the two graces and `Wait`; of the command nothing is asked. Starting a
  command is not assumed.
* `LedgerProgress` (a recorder goes on with its callback), `BridgeProgress` (the event loop runs and the flush
  timer fires), `McpProgress` (a call's goroutine runs and its timers fire; no server answers, no round ends).

None of these steps is enabled before its part has begun, so in `MCStreams` the fairness of a part that is not in
focus asks nothing, and no part's fairness excludes the behaviours of another.

## What is proved

For every value of the constants that satisfies the assumptions of the module, by TLAPS. Hypotheses a theorem has
beyond these are named.

`PrefixGuard_proofs`:

* `TypeCorrect` (`TypeOK`). Not inductive alone: a step that uses the request it built, counts a pass or rolls a
  switch back needs to know that there is one. `TypeInv` adds `ControlInv`, which says at which labels a request is
  built and that an owed event has a cause and a model to go back to.
* `LedgerNeverAhead` (`EventsNeverAhead`), from `LedgerGrows`: the ledger is only appended to, with the next
  request's number or a stamp taken before.
* `ChangesAttributed` (`PrefixChangeAttributed`): `AttributionInv` says that nobody takes a number between the
  guard and the record. This rests on the two goroutines excluding each other, so the theorem has the
  hypothesis `~Overlap`; `finding_compact_overlap` shows that the code does not ensure it.
* `RegionsAlwaysExplained` (`EveryRegionExplained`) and `GuardStopsOnlyForTakenNumbers`
  (`GuardMissesOnlyTakenNumbers`), where `~Overlap` and `~PersistFails`. `RegionInv`: each region in which the prefix
  differs from the last request of this process has a later event, or is owed one. It needs `OwedInv` (who may owe
  an event where; a stamp is the next number until it is recorded), `RetoolOwed` and `WarmInv`.
* `GuardAlwaysFindsExplanation` (`GuardFindsExplanation`), where moreover there is neither advisor nor onboarding:
  what `finding_advisor_abort` shows broken is due to the numbers their calls take. `FreshInv`: between compactions,
  if an event is newer than the last main request, one has the number the next request takes.
* `CarriedStateAlwaysTrue` (`CarriedStateIsTrue`), where `~Overlap` and `~PersistFails`. Its parts are theorems that
  need less: `WarmthIsEarned` needs neither hypothesis, `StampsAlwaysAccepted` only the first, `SidecarAlwaysFollows` only
  the second (`SidecarInv`: a model that is switching may be ahead of the sidecar, and is the next to be saved).

`TurnLoop_proofs`:

* `TurnsAreBounded` (`TurnsBounded`). `RunwayInv` gives, for each place of the loop, the bound a task has
  reached there: a turn that another follows was below the ceiling, or left a message waiting, or was the
  one whose verification failed, and each of the last two raises the bound by one, once.
* `MessagesHeardOnce` (`HeardOnceByItsTask`) and `MessagesHeardBeforeTheEnd` (`HeardBeforeTheEnd`), which needs
  budgets of at least two turns, as `classTurns` and the effort profiles have.
* `ScreenAlwaysTrue` (`ScreenIsTrue`), from `ScreenAlwaysOwn`, about `TerminalSpec`, and `PromptsAlwaysWhole`, about
  `PastesSpec`. `TerminalInv`: while the application and the model agree on the session and no switch has half
  arrived, the rows on the screen and those of every page still awaited with the present generation are the session's
  own. `PastesInv`: every label in the composer or in the prompt that waits has its stash, what was sent and can be
  recalled has no label, and each text is what was meant.

`ToolTurn_proofs`:

* `TaskCallsAnsweredOnce` (`AnsweredOnce`). `AnswerInv`: a call of the running task's announcements is open (at the
  gate, or settled and not recorded) or has exactly one result behind its announcement, and open calls have none; this
  is carried through compaction, which keeps a tail of whole units. It rests on `ShapeInv`, the type correctness
  of the module.
* `DuplicatesAlwaysFresh` (`DuplicatesAreFresh`). `FreshInv`: an entry of the inspection ledger names a call that ran
  and saw what its stamp says; the entry of a search is later than everything that may have changed the workspace; and
  calls pass the gate in the order of their announcement, so what changed the workspace between a call and its
  duplicate has already told the ledger.
* `RequestsAlwaysWellFormed` (`WireWellFormed`). All it needs of the state is that no announcement names a call twice, which
  `ShapeInv` says; the rest is about the repair, for every sequence of such messages (`RepairRepairs`). What it makes of a
  message is nothing or a block: the message with one result for each call (`SettledIs`); blocks one after the other are a
  sequence of groups (`OneMoreBlock`); such a sequence is well formed, and a repair of it goes through it group by group
  and leaves it as it is (`GroupedIsRepaired`).

`Workspace_proofs`, about `WorkspaceSpec`, the module's own specification (guard, calls, rewind, other programs):

* `ChangesAlwaysConsented` (`EveryChangeConsented`), from the guard's `PlaceInv` and `ConsentInv` and the call's
  `ConsentOfCall`: the files in front of the one being authorised are granted, and all of them are before the first is
  written.
* `RewindAlwaysExact` (`RewindIsExact`). `LatestInv`: as long as nobody crossed, each file that differs from the disk before
  the call is in the newest checkpoint, with what it held then; `TodoInv`: what a restore has still to write covers
  what still differs.
* `PatchesAllOrNothing` (`PatchAllOrNothing`). `PatchInv`: a clean call has read what was there, and at its `i`-th write
  only the files in front of it differ.
* `CredentialsNeverWritten` (`CredentialsUntouched`): no call and no restore writes a file under a credential root, in
  auto-accept too. No run checks it: it is a consequence the proof gives.
* `AtHandAlwaysTrue` (`AtHandIsTrue`), from three theorems about `MemorySpec`, `ListSpec` and `SkillsSpec`.
  `MemoryAlwaysTrue`: what is in a file, a call that will write it over has read, or it was written since and that
  write is what loses it (`OpSane`); a write that was cut short counts as lost what it did not put back. While no calls
  overlap, the one that runs knows its file (`Alone`) and a topic that is listed for nothing is the one being
  dissolved (`Listed`). `ListAlwaysTrue`: the engine has what is in its file, and
  the last plan on its way, or the one on the screen, is the engine's; what an answer names as open is counted over
  the file, a fold over its lines. `SkillsAlwaysOnce`: what counts as given is marked in the conversation unless it was
  compacted meanwhile, and what was read counts as given.
* `GatesAlwaysAgree` (`GatesAgree`), for commands of any length over any words: the segment that holds the delete is one
  the read-only gate looks at, and it counts the same word, at the same place, as a change (`GatesAgreeOn`). The run
  has to enumerate the commands; the proof needs nothing of how they are split.
* `ChangesAlwaysExact` (`ChangesAreExact`), for texts of any length over any letters with the two line ends. The invariant is
  the property and that the file is a text; the work is in the operators. Edits: a text and its normal form have the
  same places (`LFOfPart`), what is found stands there (`MatchesAre`), and a splice at one place changes that place
  (`SplicedOnce`). Patches: a diff is a header and a hunk of a certain shape (`HunkIs`, `ShapeIs`: its first `k` lines are
  `old[k]` lines of the one text and `new[k]` of the other, in their order); the parser, which counts, reads that hunk
  back whatever its lines look like (`HunkParsed`); applying it leads along the same two counts (`ItemsApplied`), what
  follows the hunk is the same in both texts (`LinesCompleted`), the last line ends as it should (`EndingIs`), and
  splitting and joining are inverse (`SplitJoined`). That the hunk is the shortest is not used: what counts is that
  the lines around it are common to both texts (`HeadsAre`, `TailsAre`).

`Streams_proofs`:

* `ScreenEndsWithReply` (`ShownEndsWithReply`). The property speaks of finished requests; its invariant speaks of
  open ones. `ScreenInv` says that there is a stream `a` older than the present one such that the screen shows
  the tokens of `a`, then all the accumulator has of the present one, and nothing of a third: a screen with two
  streams was reached with `streamRetried` set, and a failure after that is repeated only if its own stream
  carried nothing (`AccInv`: the accumulator is fresh for each request, and `failure.streamed` tells of it).
* `ClientImplementsOneReply` (`OneReplySpec`): every step of the client is a step of `OneReply` or a stutter.
  From the same invariant: `LadderInv` bounds the streams begun, so a retry finds room, and `AccInv` says that
  the accumulator counts what its own stream carried, so a reply is the whole of it.
* `UsageAlwaysAddsUp` (`UsageAddsUp`), for any width of the integers.
* `EmissionsNeverBack` (`EmissionsNeverGoBack`), for usages whose numbers are counts (`UsagesAreCounts`: with negative
  ones the sums do fall, and `StreamReply` shows what the client makes of those). `OrderInv`: what has been emitted,
  what the draining recorder holds and what is queued stand in the order of their sums; `AheadInv`: none of it is
  ahead of the ledger. That the sums of a longer ledger are not smaller is an induction over the fold (below).
* `ReportsAlwaysAgree` (`ReportsAgree`), from the same assumptions, for finitely many models and costs that are counts of
  a smallest unit (`CostsAreCounts`; the code adds `float64`s, whose rounding is not modelled). A sum over the rows of a
  sum over the records is the sum over the records (`SharedOut`, two inductions, over the log and over the set of
  rows), and each billed record is in one row (`RowsAddUp`), each record in one pairing (`PairingsAddUp`).
* `OrderAlwaysKept` (`OrderKept`), about `BridgeSpec`, for any tools, pieces and messages of the user. `NothingLost`: until
  the answer is shown, what the engine sent is what the rows show, then what the holder of the lock still sends, then what
  the bridge buffers. A marker is sent only behind everything buffered (`Drained`); a delivered message moves from the
  second part to the first (`AppliedShows`); what the handlers do to rows that are there already shows nothing new, but
  for the draft at the end (`SameRows`, `LastRowGrows`).

`Mcp_proofs`:

* `ToolsAlwaysLive` (`ToolsAreLive`). `RoundInv`: only the round that holds the lock connects. `ReadyInv`: the servers
  it has still to connect or to adopt have no connection and no two new sessions are alike, so an adopted one never
  replaces another that would stay open. That a round was cancelled, or that its call has gone, plays no part.
* `SecretsAlwaysCurrent` (`SecretsAreCurrent`). `PendingInv`: a token that waits to be saved is newer than every copy of
  its grant that can still be refreshed, and waits in one job; so a copy that was loaded earlier is never the one that
  is refreshed next, the jobs of one round included, whose servers and grants differ. `LockInv`: a file that was loaded and not overtaken is the file. `StoredInv` and `GoneInv` say what is
  promised while jobs are under way. A grant whose rotated token never arrived is out of the promise (`stranded`).

`Desk_proofs`:

* `ContextIsAlwaysTrue` (`ContextIsTrue`). `BootInv`: as long as no sidecar was lost or unreadable, the block of
  the open engine is the one on disk, and the one the next write puts there. `AppliedInv`: as long as neither the
  sidecar, nor a write of the cursor, nor an update in the conversation was lost (what these lead to is not claimed), what the cursor says was applied is what the conversation says over the block, both of the open engine and
  in the two files a start would read; a task then tells exactly the documents whose version differs from it.
  `TaskInv`: during a task the load it began with has been applied.
* `AskedIsAlwaysVisible` (`AskedIsVisible`). `OwnerInv`: a dialog that shows no request has none, and a request is
  queued only while something is on the screen; so whatever closes a dialog finds the next request.
* `ReviewAlwaysFollowsChange` (`ReviewFollowsChange`): that a larger change never earns a lower tier is a case analysis of
  the gate over every profile; that a task's own decision was taken on its whole change is `DecisionInv`.
* `ReclaimAlwaysSafe` (`ReclaimIsSafe`). `TalkInv`: what is shortened is in the archive unless a write failed, in the open
  conversation and in the one on disk, which a restart brings back.
* `RequestsAlwaysExtend` (`RequestsExtend`), for any budget. `SentIsWindow`: the last request is the beginning of the
  window the next one will have. A window starts at the first unit that fits; after an append without reclamation
  what did not fit fits still less (`WeightGrows`), so its start never moves back, and the start that was kept fits.
* `CatalogAlwaysKept` (`CatalogIsKept`). `AppsTyped`: settings are sound in the file and in every process (no id twice, an
  active model of the list); `PinnedIsAdded`; `AddedIsHeld`: a model set by hand and not yet listed is in the file and in
  every process that has read the file as it is. Each is kept by merging, pruning and choosing, which are folds.
* `AckedAlwaysReadBack` (`AckedReadBack`), whatever dies, fails or loses power. `LogIs`: the acknowledged records are in
  the file in the order of their acknowledgements, all on the disk, and a line ends only behind a record; `PendingOf`: a record
  whose fsync is under way is nowhere else in the file. That such a file, with at most one token on a line, is read
  without a refusal and gives each of its records, in its place, is `SeparateRead`, by induction over the tokens.

`FoldLemmas` carries the inductions: the prover cannot instantiate the library's induction theorems, whose
hypothesis is an operator, but it can use the least element of a set of numbers. `UpTo` is induction over a set of
numbers so obtained. `RunExists` says that a recursive function has the values its equation gives, and `FoldExists` that
the result of `FoldLeft` is the last of a run of intermediate results, one for each element (`FlattenIs` says it of
`FlattenSeq`, and `FlattenJoined` what a concatenation of lists gives); an invariant of the run is then shown by `UpTo`. A
fold whose step is known on a set of values alone is a run there too (`FoldIsRun`).

Every invariant the passing runs check is stated by a theorem. Only model-checked: all liveness (`EveryTaskEnds`,
`EveryChatReturns`, `EveryRecordShown`, `EveryShellReturns`, `NoTextStranded`, `EveryMCPCallReturns`), since fairness and ENABLED are beyond the prover.

The proof of `MemoryAlwaysTrue` corrected the model: a call that writes back a line another session had removed is
a write the calls that wait have not seen either, so such a line may be lost to them and is counted so (`RewriteMemory`).
It takes five calls to see the difference, more than the run has.

## What was met on the way

Disagreements with the repository's own words that have no run of their own, because the run would repeat a
property that holds with the step excused, or because nothing but one line is at stake:

* a message queued after the last look at the queue dies with the slot, although the queue accepted it
  (`TurnLoop!Release`; `tui/keys.go:213-218` calls such a loss a bug and guards only against a refusal);
* changed files are verified only when a *final* turn still called tools (`turnloop.go:750`), where
  `specs/014-terminal-bench-readiness/spec.md:52` (FR-007) asks for every such run;
* `turnloop.go:452` and `friendly.go:93-94` say a failed request is repeated once per task; it is repeated up to
  three times in any fifteen turns; `taskledger.go:26-29` calls the ceiling absolute, but a waiting message and a
  failed verification each give one turn more (`TurnsBounded` states what holds);
* with the advisor on, the advisor's own usage record makes a resumed session look fresh, and stale results are
  not pruned (`cacheresilience.go:132` and `156`);
* a pin refused at the last attempt is dropped with no attempt left to repeat the request (`provider.go:102-133`);
* providers that send no call ids get `tool_<index>` (`sse.go:185`), so ids repeat from turn to turn and
  `IsToolResultIntact` may look at another turn's result; a duplicate is also refused when its result lies
  before the window of the request (`history.go:451`);
* the stamp of a read is taken when its result is recorded, after the file was read (`inspection.go:212`);
* a call that failed is refused verbatim for the rest of the task although the workspace has changed since
  (`gates.go:34`), each refusal quoting the last one;
* the count of friction events since a task's start is taken by position in a ring that drops its oldest
  events (`telemetry.go:57-66`); `UsageLedger` has the ring and states nothing of it;
* a steering message that is refused, or a prompt sent at start while another is composed, keeps labels without
  their text, and Esc keeps the stash, against `specs/005-terminal-memory-overhaul/contracts/input-draft.md:48`
  and `:50`;
* the remaining notes at the hazards in `PROJECT.json`.

## Not modelled, and why

Rendering, layout, the mouse, prompts and error texts are formatting. The code index is a function of one file.
SQLite's own concurrency is the database's. File and process I/O appears as its effect: a version of a file, a
token on disk, an error. Token estimates, prices and pressure ratios are numbers whose comparisons are choices
in the models. Reading, listing, searching and web search change nothing. Flags, login, the doctor, line mode and
the update check are start-up and output. `TrimAged`, `FoldCompletedTasks`, `Engine.SwitchModel` and the reports of
`knowledge.go` have no caller in production. Of the parts marked "partly", `PROJECT.json` says what is missing.

Simplifications a reader should know: a fact of `Memory` is a set of words, the read of a save and the append after
it are one step, so are for the other sessions the emptying of a file and its writing unless a fault comes between,
a line cut in its middle counts as not written, and a text that begins with a bracketed topic is left out; a prompt that waits while the workspace fails to
load stays unsent and is not followed further in `Pastes`; `ShellGates` has one member of each kind of word and no
quoted piece glued to a bare one; `Catalog` has no limits of context; in `Dialogs` what a dialog says is told apart
only by whose rows it shows, and one refresh timer is pending at a time, where `update.go:151` may arm a second one
after a dialog was closed; the exactness of an edit in `TextEdit` is stated of one exact replacement, not of paths
found by likeness, of replace-all or of several edits in one call; `SessionLog` has no records beyond the scanner's
2 MiB (`session.go:139`).

## What could come next

1. An abstract promise for `PrefixGuard` (a prefix changes only together with an explanation), refined by it; the
   simulation is nearly `ChangesAttributed`.
2. `Bridge` refining a queue that neither loses nor reorders; `NothingLost` is nearly the simulation.
3. Composing `TurnLoop` with `Terminal`: the steering queue and the screen's composer hand one message to each other.
