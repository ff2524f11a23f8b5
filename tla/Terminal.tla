------------------------------ MODULE Terminal ------------------------------
(***************************************************************************)
(* The terminal's session: a prompt typed while the workspace loads, the   *)
(* task that runs and the messages that steer it, a switch to another      *)
(* session, and the pages of the stored transcript that scrolling loads.   *)
(*                                                                         *)
(* Commands run in goroutines of their own and come back as messages, so a *)
(* switch is two steps: the application activates the new session          *)
(* (command/runtime_build.go), the model adopts it when the result arrives *)
(* (tui/modals.go).  Between them the two disagree.  A row is the pair of  *)
(* its session and its place in that session's stored events.              *)
(***************************************************************************)
EXTENDS Naturals, Sequences, SequencesExt

CONSTANTS
    Sessions, First,   \* the sessions, and the one the application opens
    NoSession,
    Stored,            \* session -> events stored when the application starts
    RecentLimit,       \* events a runtime is built with (300)
    PageLimit,         \* events of a page (200)
    MaxPrompts, MaxSwitches, MaxAnswers   \* bounds on the user and the model

ASSUME TerminalAssumption ==
    /\ First \in Sessions /\ NoSession \notin Sessions /\ Stored \in [Sessions -> Nat]
    /\ RecentLimit \in Nat \ {0} /\ PageLimit \in Nat \ {0}
    /\ MaxPrompts \in Nat /\ MaxSwitches \in Nat /\ MaxAnswers \in Nat

VARIABLES
    loading,     \* Model.loading
    session,     \* the session of Model.runtime
    activated,   \* the session of Application.runtime
    switches,    \* switch commands in flight
    switched,    \* number of them so far
    stored,      \* events of each session in the database
    run,         \* the goroutine submit started
    inTask,      \* Model.busy
    wire,        \* rows the engine has sent and the model has not shown
    shown,       \* Model.items
    paging,      \* Model: pageGen, oldestEventID, hasOlderEvents, loadingOlder, initialPaged
    pages,       \* page commands in flight
    composer,    \* the prompt in the input, 0 if none
    stash,       \* Model.pendingSubmit
    typed,       \* prompts typed so far
    entered,     \* the prompt Enter was last pressed on
    taken        \* prompts an engine was given

terminalVars == <<loading, session, activated, switches, switched, stored, run, inTask,
                  wire, shown, paging, pages, composer, stash, typed, entered, taken>>

promptVars == <<composer, stash, typed, entered, taken>>
switchVars == <<switches, switched, activated>>

NoRun == [of |-> NoSession, at |-> "none", answers |-> 0, unsaved |-> 0]

\* db.Events: the last limit events of a session.
RecentEvents(s, limit) ==
    [i \in 1..(IF stored[s] < limit THEN stored[s] ELSE limit) |->
        <<s, stored[s] - (IF stored[s] < limit THEN stored[s] ELSE limit) + i>>]

-----------------------------------------------------------------------------
(* Pages.                                                                  *)

\* DB.TranscriptPage: the newest page, or the one before a cursor.
TranscriptPage(s, initial, cursor) ==
    LET top == IF initial THEN stored[s] ELSE IF cursor - 1 < stored[s] THEN cursor - 1 ELSE stored[s]
        low == IF top > PageLimit THEN top - PageLimit + 1 ELSE 1
    IN [rows |-> [i \in 1..(top - low + 1) |-> <<s, low + i - 1>>],
        oldest |-> IF top = 0 THEN 0 ELSE low, hasOlder |-> low > 1]

NewPaging(gen) == [gen |-> gen, oldest |-> 0, hasOlder |-> FALSE, loading |-> FALSE, initial |-> FALSE]

PageRequest(gen, initial, cursor) ==
    [gen |-> gen, initial |-> initial, cursor |-> cursor, read |-> FALSE,
     page |-> [rows |-> <<>>, oldest |-> 0, hasOlder |-> FALSE]]

\* The page command runs: the session is the one the application has active then.
ReadPage(request) ==
    /\ ~request.read
    /\ pages' = (pages \ {request}) \union
                {[request EXCEPT !.read = TRUE,
                                 !.page = TranscriptPage(activated, request.initial, request.cursor)]}
    /\ UNCHANGED <<loading, session, switchVars, stored, run, inTask, wire, shown, paging, promptVars>>

\* applyInitialPage: the cursor is set, the window replaced only if nothing is lost.
ApplyInitialPage(page) ==
    /\ paging' = [paging EXCEPT !.initial = TRUE, !.oldest = page.oldest, !.hasOlder = page.hasOlder]
    /\ shown' = IF inTask \/ Len(shown) > Len(page.rows) \/ page.rows = <<>> THEN shown ELSE page.rows

\* applyOlderPage: the rows are put before those shown.
ApplyOlderPage(page) ==
    /\ paging' = [paging EXCEPT !.loading = FALSE, !.hasOlder = page.hasOlder,
                                !.oldest = IF page.rows = <<>> THEN @ ELSE page.oldest]
    /\ shown' = page.rows \o shown

ApplyAnyPage(request) ==
    IF request.initial THEN ApplyInitialPage(request.page) ELSE ApplyOlderPage(request.page)

\* applyPage: a result of an earlier generation is dropped.
ApplyPage(request) ==
    IF request.gen # paging.gen
    THEN paging' = [paging EXCEPT !.loading = FALSE] /\ UNCHANGED shown
    ELSE IF request.initial THEN ApplyInitialPage(request.page) ELSE ApplyOlderPage(request.page)

PageArrives(request) ==
    /\ request.read /\ pages' = pages \ {request}
    /\ ApplyPage(request)
    /\ UNCHANGED <<loading, session, switchVars, stored, run, inTask, wire, promptVars>>

\* The command failed: only the flag is taken back.
PageFails(request) ==
    /\ pages' = pages \ {request} /\ paging' = [paging EXCEPT !.loading = FALSE]
    /\ UNCHANGED <<loading, session, switchVars, stored, run, inTask, wire, shown, promptVars>>

\* maybeLoadOlder, when the user has scrolled near the top.
ScrollToTop ==
    /\ ~loading /\ paging.hasOlder /\ ~paging.loading /\ paging.oldest > 0
    /\ paging' = [paging EXCEPT !.loading = TRUE]
    /\ pages' = pages \union {PageRequest(paging.gen, FALSE, paging.oldest)}
    /\ UNCHANGED <<loading, session, switchVars, stored, run, inTask, wire, shown, promptVars>>

-----------------------------------------------------------------------------
(* Prompts.                                                                *)

TerminalInit ==
    /\ loading = TRUE /\ session = NoSession /\ activated = First
    /\ switches = {} /\ switched = 0 /\ stored = Stored
    /\ run = NoRun /\ inTask = FALSE /\ wire = <<>> /\ shown = <<>>
    /\ paging = NewPaging(0) /\ pages = {}
    /\ composer = 0 /\ stash = 0 /\ typed = 0 /\ entered = 0 /\ taken = {}

Type ==
    /\ composer = 0 /\ typed < MaxPrompts
    /\ typed' = typed + 1 /\ composer' = typed + 1
    /\ UNCHANGED <<loading, session, switchVars, stored, run, inTask, wire, shown, paging, pages,
                   stash, entered, taken>>

\* handleLoadingKey: the prompt waits for the workspace; a second replaces the first.
StashPrompt ==
    /\ loading /\ composer # 0
    /\ stash' = composer /\ entered' = composer /\ composer' = 0
    /\ UNCHANGED <<loading, session, switchVars, stored, run, inTask, wire, shown, paging, pages,
                   typed, taken>>

\* submit with no task: a row for the prompt and a goroutine that runs the engine held now.
StartTask(p, items) ==
    /\ run' = [NoRun EXCEPT !.of = session', !.at = "starting"]
    /\ inTask' = TRUE /\ taken' = taken \union {p}
    /\ shown' = IF session' = NoSession THEN items ELSE Append(items, <<session', stored[session'] + 1>>)

\* QueueUserMessage accepts from when Run holds the slot until it gave it back.
Accepts(s) == run.of = s /\ run.at = "running"

\* submit while a task runs: steering, or the text back into the composer.
SteerTask(p) ==
    /\ IF Accepts(session) THEN taken' = taken \union {p} /\ composer' = 0
       ELSE composer' = p /\ UNCHANGED taken
    /\ UNCHANGED <<run, inTask, shown>>

Submit(p) ==
    IF inTask THEN SteerTask(p)
    ELSE composer' = 0 /\ StartTask(p, shown)

Enter ==
    /\ ~loading /\ composer # 0
    /\ UNCHANGED session /\ entered' = composer /\ Submit(composer)
    /\ UNCHANGED <<loading, switchVars, stored, wire, paging, pages, stash, typed>>

\* applyHydration: the runtime is adopted, its recent events shown, the first page
\* asked for, and the prompt that waited sent, or, signed out, given back.
Hydrated ==
    /\ loading /\ loading' = FALSE /\ session' = First
    /\ pages' = {PageRequest(paging.gen, TRUE, 0)}
    /\ stash' = 0
    /\ \/ /\ stash = 0
          /\ shown' = RecentEvents(First, RecentLimit)
          /\ UNCHANGED <<run, inTask, composer, taken>>
       \/ /\ stash # 0
          /\ StartTask(stash, RecentEvents(First, RecentLimit)) /\ UNCHANGED composer
       \/ /\ stash # 0
          /\ composer' = stash /\ shown' = RecentEvents(First, RecentLimit)
          /\ UNCHANGED <<run, inTask, taken>>
    /\ UNCHANGED <<switchVars, stored, wire, paging, typed, entered>>

-----------------------------------------------------------------------------
(* The task, in the goroutine of its prompt.                               *)

\* Run takes the slot and stores the prompt; without an engine it panics, which
\* recoverTaskPanic turns into an error.
RunStarts ==
    /\ run.at = "starting"
    /\ IF run.of = NoSession THEN run' = [run EXCEPT !.at = "returned"] /\ UNCHANGED stored
       ELSE run' = [run EXCEPT !.at = "running"] /\ stored' = [stored EXCEPT ![run.of] = @ + 1]
    /\ UNCHANGED <<loading, session, switchVars, inTask, wire, shown, paging, pages, promptVars>>

\* An answer or a call goes to the screen first and into the database after.
Send ==
    /\ run.at = "running" /\ run.answers < MaxAnswers /\ run.unsaved = 0
    /\ wire' = Append(wire, <<run.of, stored[run.of] + 1>>)
    /\ run' = [run EXCEPT !.answers = @ + 1, !.unsaved = 1]
    /\ UNCHANGED <<loading, session, switchVars, stored, inTask, shown, paging, pages, promptVars>>

Save ==
    /\ run.at = "running" /\ run.unsaved = 1
    /\ stored' = [stored EXCEPT ![run.of] = @ + 1] /\ run' = [run EXCEPT !.unsaved = 0]
    /\ UNCHANGED <<loading, session, switchVars, inTask, wire, shown, paging, pages, promptVars>>

Show ==
    /\ wire # <<>>
    /\ shown' = Append(shown, Head(wire)) /\ wire' = Tail(wire)
    /\ UNCHANGED <<loading, session, switchVars, stored, run, inTask, paging, pages, promptVars>>

RunReturns ==
    /\ run.at = "running" /\ run' = [run EXCEPT !.at = "returned"]
    /\ UNCHANGED <<loading, session, switchVars, stored, inTask, wire, shown, paging, pages, promptVars>>

\* resultMsg, after everything the engine sent.
TaskResult ==
    /\ run.at = "returned" /\ wire = <<>>
    /\ run' = NoRun /\ inTask' = FALSE
    /\ UNCHANGED <<loading, session, switchVars, stored, wire, shown, paging, pages, promptVars>>

-----------------------------------------------------------------------------
(* Switching sessions.                                                     *)

\* /new or /resume; refused while a task runs, but busy is not set meanwhile.
SwitchTo(s) ==
    /\ ~loading /\ ~inTask /\ switched < MaxSwitches
    /\ switched' = switched + 1
    /\ switches' = switches \union {[to |-> s, id |-> switched + 1, built |-> FALSE, recent |-> <<>>]}
    /\ UNCHANGED <<activated, loading, session, stored, run, inTask, wire, shown, paging, pages, promptVars>>

\* switchSession: the runtime is built, its events read, and activated.
Activate(c) ==
    /\ ~c.built
    /\ switches' = (switches \ {c}) \union {[c EXCEPT !.built = TRUE, !.recent = RecentEvents(c.to, RecentLimit)]}
    /\ activated' = c.to
    /\ UNCHANGED <<switched, loading, session, stored, run, inTask, wire, shown, paging, pages, promptVars>>

SwitchFails(c) ==
    /\ ~c.built /\ switches' = switches \ {c}
    /\ UNCHANGED <<switched, activated, loading, session, stored, run, inTask, wire, shown, paging,
                   pages, promptVars>>

\* The result: the model adopts the session, with its rows, and drops what it had.
SwitchArrives(c) ==
    /\ c.built /\ switches' = switches \ {c}
    /\ session' = c.to /\ shown' = c.recent
    /\ paging' = NewPaging(paging.gen + 1)
    /\ pages' = pages \union {PageRequest(paging.gen + 1, TRUE, 0)}
    /\ composer' = 0
    /\ UNCHANGED <<switched, activated, loading, stored, run, inTask, wire, stash, typed, entered, taken>>

TerminalNext ==
    \/ Type \/ StashPrompt \/ Enter \/ Hydrated
    \/ RunStarts \/ Send \/ Save \/ Show \/ RunReturns \/ TaskResult
    \/ \E s \in Sessions : SwitchTo(s)
    \/ \E c \in switches : Activate(c) \/ SwitchFails(c) \/ SwitchArrives(c)
    \/ \E r \in pages : ReadPage(r) \/ PageArrives(r) \/ PageFails(r)
    \/ ScrollToTop

TerminalSpec == TerminalInit /\ [][TerminalNext]_terminalVars

-----------------------------------------------------------------------------
(* Properties.                                                             *)

TerminalTypeOK ==
    /\ session \in Sessions \union {NoSession} /\ activated \in Sessions
    /\ \A s \in Sessions : stored[s] \in Nat
    /\ run.at \in {"none", "starting", "running", "returned"}
    /\ inTask = (run.at # "none")
    /\ \A i \in DOMAIN shown : shown[i] \in Sessions \X Nat
    /\ {composer, stash} \subseteq 0..MaxPrompts /\ taken \subseteq 1..MaxPrompts

\* A page never shows another session's transcript (actions.go:139-141), however its
\* command, its result and the switches overlap: when no switch is under way, every row
\* is of the session on the screen or of the task that was started on another one.
PagesBelong ==
    (switches = {} /\ activated = session) =>
        \A i \in DOMAIN shown : shown[i][1] = session \/ shown[i][2] > Stored[shown[i][1]]

\* The last prompt the user entered is never dropped by the race of its task's start or
\* end (keys.go:218-226): it waits, is in the composer, or an engine has it.
PromptKept == (entered > 0 /\ switched = 0) => entered \in {composer, stash} \union taken

\* However tasks, pages and switches of session overlap, the screen shows its own
\* session and loses no prompt.
ScreenIsOwn == PagesBelong /\ PromptKept
=============================================================================
