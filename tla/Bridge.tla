------------------------------- MODULE Bridge -------------------------------
(***************************************************************************)
(* From the engine to the screen.  The engine's goroutine streams text,    *)
(* marks tool calls and ends its task; a shell's output arrives from the   *)
(* writer goroutine of its process; the bridge coalesces text and output   *)
(* behind a timer and hands everything to the event loop, whose handlers   *)
(* (tui/ingest.go) build the rows of the transcript.                       *)
(*                                                                         *)
(* A piece of text or of output is a number; tui.Program.Send is           *)
(* unbuffered: the sender waits for the event loop (external).             *)
(***************************************************************************)
EXTENDS Integers, Sequences, SequencesExt

CONSTANTS
    ToolNames,   \* names of tools; "run_shell" streams output while it runs
    MaxPieces,   \* bound on the pieces the engine and the shell emit
    MaxTools,    \* bound on the tool calls of the task
    MaxSteers    \* bound on the messages the user adds

ASSUME BridgeAssumption ==
    /\ "run_shell" \in ToolNames
    /\ MaxPieces \in Nat /\ MaxTools \in Nat /\ MaxSteers \in Nat

VARIABLES
    engine,      \* where Engine.Run is, the tool it runs, the turn's text
    writer,      \* pieces may still come from the shell that was last started
    sentPieces,  \* history: text pieces and tool starts in the engine's order
    pieces,      \* text pieces so far
    openItems,   \* open to-dos in the engine's checklist
    answer,      \* what Engine.Run returned, or <<>>
    streamBuf,   \* Bridge.pending
    toolBuf,     \* Bridge.toolOrder with toolBuf
    scheduled,   \* Bridge.scheduled
    timers,      \* armed flush timers that have not fired
    outbox,      \* messages the holder of Bridge.mu still sends
    rows,        \* Model.items
    active,      \* Model.activeTools: name -> row, 0 if none
    taskBusy,    \* Model.busy
    steers       \* messages added

bridgeVars == <<engine, writer, sentPieces, pieces, openItems, answer, streamBuf, toolBuf,
                scheduled, timers, outbox, rows, active, taskBusy, steers>>

engineVars == <<engine, writer, sentPieces, pieces, openItems, answer>>
bufferVars == <<streamBuf, toolBuf, scheduled, timers>>
screenVars == <<rows, active, taskBusy, steers>>

TextPiece(p) == [kind |-> "text", piece |-> p, name |-> ""]
StartMark(n, c) == [kind |-> "start", piece |-> c, name |-> n]

NewRow(kind, body) == [kind |-> kind, body |-> body, name |-> "", state |-> ""]
ToolRow(n, c) == [kind |-> "tool", body |-> <<>>, name |-> n, state |-> "running", call |-> c]

-----------------------------------------------------------------------------
(* The bridge.  outbox = <<>> when no goroutine holds Bridge.mu.           *)

BridgeInit ==
    /\ engine = [at |-> "idle", tool |-> "", text |-> <<>>, calls |-> 0]
    /\ writer = FALSE /\ sentPieces = <<>> /\ pieces = 0 /\ answer = <<>>
    /\ openItems \in BOOLEAN
    /\ streamBuf = <<>> /\ toolBuf = <<>> /\ scheduled = FALSE /\ timers = 0
    /\ outbox = <<>>
    /\ rows = <<>> /\ active = [n \in ToolNames |-> 0] /\ taskBusy = FALSE /\ steers = 0

Unlocked == outbox = <<>>

\* drainLocked: the text first, then the output tool by tool in first-seen order.
Buffered ==
    (IF streamBuf = <<>> THEN <<>> ELSE <<[kind |-> "text", body |-> streamBuf]>>)
    \o [i \in 1..Len(toolBuf) |-> [kind |-> "output", name |-> toolBuf[i].name,
                                   body |-> toolBuf[i].chunks]]

DrainLocked == streamBuf' = <<>> /\ toolBuf' = <<>> /\ scheduled' = FALSE

\* scheduleLocked: one timer per window.
ScheduleLocked ==
    /\ scheduled' = TRUE
    /\ timers' = IF scheduled THEN timers ELSE timers + 1

QueueStream(p) ==
    /\ Unlocked /\ streamBuf' = Append(streamBuf, p) /\ ScheduleLocked
    /\ UNCHANGED <<toolBuf, outbox>>

QueueToolOutput(n, p) ==
    /\ Unlocked
    /\ toolBuf' = IF \E i \in DOMAIN toolBuf : toolBuf[i].name = n
                  THEN [i \in DOMAIN toolBuf |->
                           IF toolBuf[i].name = n
                           THEN [toolBuf[i] EXCEPT !.chunks = Append(@, p)] ELSE toolBuf[i]]
                  ELSE Append(toolBuf, [name |-> n, chunks |-> <<p>>])
    /\ ScheduleLocked /\ UNCHANGED <<streamBuf, outbox>>

FlushUnreset ==
    /\ Unlocked /\ timers > 0
    /\ timers' = timers - 1
    /\ outbox' = Buffered /\ streamBuf' = <<>> /\ toolBuf' = <<>>
    /\ UNCHANGED scheduled /\ UNCHANGED <<engineVars, screenVars>>

\* A timer fires: everything buffered is sent under the lock.
Flush ==
    /\ Unlocked /\ timers > 0
    /\ timers' = timers - 1
    /\ outbox' = Buffered /\ DrainLocked
    /\ UNCHANGED <<engineVars, screenVars>>

SendMarkerOnly(mark) ==
    /\ Unlocked
    /\ outbox' = <<mark>>
    /\ UNCHANGED bufferVars

\* A marker follows what was buffered before it, in one hold of the lock.
SendAfterFlush(mark) ==
    /\ Unlocked
    /\ outbox' = Append(Buffered, mark) /\ DrainLocked
    /\ UNCHANGED timers

-----------------------------------------------------------------------------
(* The engine and the shell's writer.  A call of the bridge returns when   *)
(* its messages are taken: the engine waits in `sending` until then.       *)

\* submit: a task starts, its prompt is a row.
Submit ==
    /\ engine.at = "idle"
    /\ engine' = [engine EXCEPT !.at = "turn"]
    /\ rows' = Append(rows, NewRow("user", <<>>)) /\ taskBusy' = TRUE
    /\ UNCHANGED <<writer, sentPieces, pieces, openItems, answer, bufferVars, outbox, active, steers>>

\* A token of the reply.
Token ==
    /\ engine.at = "turn" /\ pieces < MaxPieces
    /\ pieces' = pieces + 1
    /\ QueueStream(pieces + 1)
    /\ sentPieces' = Append(sentPieces, TextPiece(pieces + 1))
    /\ engine' = [engine EXCEPT !.text = Append(@, pieces + 1)]
    /\ UNCHANGED <<writer, openItems, answer, screenVars>>

\* The turn ends in a tool call; a shell that starts has a writer.
ToolStart(n) ==
    /\ engine.at = "turn" /\ engine.calls < MaxTools
    /\ engine' = [at |-> "starting", tool |-> n, text |-> <<>>, calls |-> engine.calls + 1]
    /\ sentPieces' = Append(sentPieces, StartMark(n, engine.calls + 1))
    /\ SendAfterFlush([kind |-> "start", name |-> n, call |-> engine.calls + 1])
    /\ UNCHANGED <<writer, pieces, openItems, answer, screenVars>>

ToolRuns ==
    /\ engine.at = "starting" /\ Unlocked
    /\ engine' = [engine EXCEPT !.at = "tool"]
    /\ writer' = (writer \/ engine.tool = "run_shell")
    /\ UNCHANGED <<sentPieces, pieces, openItems, answer, bufferVars, outbox, screenVars>>

\* boundedWriter.Write, also of a shell that was abandoned.
ShellOutput ==
    /\ writer /\ pieces < MaxPieces
    /\ pieces' = pieces + 1
    /\ QueueToolOutput("run_shell", pieces + 1)
    /\ UNCHANGED <<engine, writer, sentPieces, openItems, answer, screenVars>>

\* The writer's pipe closes.
ShellEnds ==
    /\ writer /\ writer' = FALSE
    /\ UNCHANGED <<engine, sentPieces, pieces, openItems, answer, bufferVars, outbox, screenVars>>

\* endTool, then the next turn; a call may have closed the checklist's items.
ToolEnd ==
    /\ engine.at = "tool"
    /\ engine' = [engine EXCEPT !.at = "ending"]
    /\ openItems' \in BOOLEAN
    /\ SendAfterFlush([kind |-> "end", name |-> engine.tool])
    /\ UNCHANGED <<writer, sentPieces, pieces, answer, screenVars>>

NextTurn ==
    /\ engine.at = "ending" /\ Unlocked
    /\ engine' = [engine EXCEPT !.at = "turn"]
    /\ UNCHANGED <<writer, sentPieces, pieces, openItems, answer, bufferVars, outbox, screenVars>>

\* finalize(fallbackAnswer(text)): the turn's text, or a sentence of the engine's own,
\* and the open items of the checklist if there are any.  0 is a sentence of its own,
\* -1 the disclosure.
Answers(text) ==
    LET content == IF text = <<>> THEN <<0>> ELSE text
    IN IF openItems THEN Append(content, -1) ELSE content

\* The task completes: its statistics follow everything that was buffered.
FinishTask ==
    /\ engine.at = "turn"
    /\ answer' = Answers(engine.text)
    /\ engine' = [engine EXCEPT !.at = "completing"]
    /\ SendAfterFlush([kind |-> "stats"])
    /\ UNCHANGED <<writer, sentPieces, pieces, openItems, screenVars>>

\* A task that was stopped, at any point, returns an error and no answer; a call
\* that runs is not ended on the screen first.
Interrupted ==
    /\ engine.at \in {"turn", "tool"}
    /\ engine' = [engine EXCEPT !.at = "completing"]
    /\ SendAfterFlush([kind |-> "stats"])
    /\ UNCHANGED <<writer, sentPieces, pieces, openItems, answer, screenVars>>

-----------------------------------------------------------------------------
(* The event loop.                                                         *)

\* appendStream: into the draft that ends the transcript, or a new one.
AppendStream(body) ==
    /\ rows' = IF rows # <<>> /\ Last(rows).kind = "assistant_draft"
               THEN [rows EXCEPT ![Len(rows)].body = @ \o body]
               ELSE Append(rows, NewRow("assistant_draft", body))
    /\ UNCHANGED active

Running(n) == {i \in DOMAIN rows : rows[i].kind = "tool" /\ rows[i].name = n
                                   /\ rows[i].state = "running"}

\* finishTool: the oldest running row of the name.
FinishTool(n) ==
    LET row == CHOOSE i \in Running(n) : \A j \in Running(n) : i <= j
    IN IF Running(n) = {} THEN UNCHANGED <<rows, active>>
       ELSE /\ rows' = [rows EXCEPT ![row].state = "ok"]
            /\ active' = IF active[n] = row THEN [active EXCEPT ![n] = 0] ELSE active

\* appendToolOutput: the registered row if it runs, else the newest one that does.
AppendToolOutput(n, body) ==
    LET row == IF active[n] \in Running(n) THEN active[n]
               ELSE CHOOSE i \in Running(n) : \A j \in Running(n) : j <= i
    IN /\ rows' = IF Running(n) = {} THEN rows ELSE [rows EXCEPT ![row].body = @ \o body]
       /\ UNCHANGED active

\* sweepRunningWork.
Sweep ==
    /\ rows' = [i \in DOMAIN rows |->
                   IF rows[i].state = "running" THEN [rows[i] EXCEPT !.state = "cancelled"]
                   ELSE rows[i]]
    /\ active' = [n \in ToolNames |-> 0]

Apply(m) ==
    \/ m.kind = "text" /\ AppendStream(m.body)
    \/ m.kind = "output" /\ AppendToolOutput(m.name, m.body)
    \/ m.kind = "start" /\ rows' = Append(rows, ToolRow(m.name, m.call))
                        /\ active' = [active EXCEPT ![m.name] = Len(rows) + 1]
    \/ m.kind = "end" /\ FinishTool(m.name)
    \/ m.kind = "stats" /\ Sweep

\* Update takes the next message of whoever sends.
Deliver ==
    /\ outbox # <<>> /\ Apply(Head(outbox)) /\ outbox' = Tail(outbox)
    /\ UNCHANGED <<engineVars, bufferVars, taskBusy, steers>>

\* The drafts finishAssistant finds: the last one, if no message of the user follows it.
Drafts == {i \in DOMAIN rows : rows[i].kind = "assistant_draft"
                               /\ \A j \in i..Len(rows) : rows[j].kind # "user"}

\* finishAssistant: a draft that has text is the answer, whatever Run returned.
FinishAssistant ==
    LET draft == CHOOSE i \in Drafts : \A j \in Drafts : j <= i
    IN rows' = IF Drafts # {} THEN [rows EXCEPT ![draft].kind = "assistant"]
               ELSE Append(rows, NewRow("assistant", answer))

\* resultMsg: Run returned.
Result ==
    /\ engine.at = "completing" /\ Unlocked /\ taskBusy
    /\ engine' = [engine EXCEPT !.at = "done"]
    /\ taskBusy' = FALSE
    /\ IF answer = <<>> THEN UNCHANGED rows ELSE FinishAssistant
    /\ UNCHANGED <<writer, sentPieces, pieces, openItems, answer, bufferVars, outbox, active, steers>>

\* submit while a task runs: the message is a row of its own.
Steer ==
    /\ taskBusy /\ engine.at \in {"turn", "starting", "tool", "ending"} /\ steers < MaxSteers
    /\ steers' = steers + 1 /\ rows' = Append(rows, NewRow("user", <<>>))
    /\ UNCHANGED <<engineVars, bufferVars, outbox, active, taskBusy>>

BridgeNext ==
    \/ Submit \/ Token \/ \E n \in ToolNames : ToolStart(n)
    \/ ToolRuns \/ ShellOutput \/ ShellEnds \/ ToolEnd \/ NextTurn \/ FinishTask \/ Interrupted
    \/ Flush \/ Deliver \/ Result \/ Steer

BridgeSpec == BridgeInit /\ [][BridgeNext]_bridgeVars

\* The event loop runs and timers fire; of the engine nothing is asked.
BridgeProgress == WF_bridgeVars(Deliver) /\ WF_bridgeVars(Flush)

-----------------------------------------------------------------------------
(* Properties.                                                             *)

BridgeTypeOK ==
    /\ engine.at \in {"idle", "turn", "starting", "tool", "ending", "completing", "done"}
    /\ pieces \in 0..MaxPieces /\ engine.calls \in 0..MaxTools
    /\ timers \in Nat /\ scheduled \in BOOLEAN /\ taskBusy \in BOOLEAN
    /\ active \in [ToolNames -> 0..Len(rows)]

TextItems(body) == [j \in DOMAIN body |-> TextPiece(body[j])]

RowItems(row) ==
    CASE row.kind = "tool" -> <<StartMark(row.name, row.call)>>
      [] row.kind = "user" -> <<>>
      [] OTHER -> TextItems(row.body)

\* What the screen shows of the engine's text and calls, in order.
ShownOrder == FlattenSeq([i \in DOMAIN rows |-> RowItems(rows[i])])

\* Text never appears beneath the tool call it came before, nor a call above the text
\* it followed, whichever goroutine held the buffer (bridge.go:211-216).
OrderKept == engine.at # "done" => IsPrefix(ShownOrder, sentPieces)

Shown == {p \in 1..MaxPieces : \E i \in DOMAIN rows :
              rows[i].kind \in {"assistant_draft", "assistant"} /\ Contains(rows[i].body, p)}

\* Every piece of text the engine streamed reaches the screen, even if nothing follows
\* it: no piece stays in the buffer with no timer to flush it (bridge.go:180-187).
NoTextStranded ==
    \A p \in 1..MaxPieces : Contains(sentPieces, TextPiece(p)) ~> p \in Shown
=============================================================================
