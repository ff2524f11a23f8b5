-------------------------------- MODULE Mcp ---------------------------------
(***************************************************************************)
(* The manager of MCP servers (mcpclient/manager.go, tool.go, surface.go): *)
(* rounds of connecting, the tool calls that connect a server on demand,   *)
(* the cached surface of tools the model is offered, and closing.          *)
(*                                                                         *)
(* A round holds refreshMu throughout; m.mu is held for single steps only. *)
(* One tool per server stands for all of them; its definition is a version *)
(* the server announces, 0 where there is none.                            *)
(***************************************************************************)
EXTENDS Naturals, Sequences, FiniteSets

CONSTANTS
    Servers, Callers,
    Versions,              \* of a server's tool definitions
    MaxRefreshes, MaxCalls, MaxToggles   \* bounds on refreshes, calls and edits of mcp.json

ASSUME McpAssumption ==
    /\ Versions \subseteq Nat \ {0}
    /\ MaxRefreshes \in Nat /\ MaxCalls \in Nat /\ MaxToggles \in Nat

VARIABLES
    enabled,     \* mcp.json: the servers that are on
    surfaces,    \* the tool-surface cache on disk: server -> version
    rounds,      \* rounds of refresh begun so far
    refreshMu,   \* the round that holds it, 0 if none
    refreshStop, \* the round that the next refresh cancels
    connections, \* m.connections
    tools,       \* m.tools: server -> session of its tool, 0 if none
    sessions,    \* sessions the client has opened and not closed
    opened,      \* number of them so far
    statuses,    \* m.statuses
    pinnedTools, applied, knownAtStart, pendingSurface, pendingForce,
    boundary,    \* the engine in TakeBoundaryChange
    toolCalls,   \* the calls of MCP tools
    called,      \* number of them so far
    edit, edits, \* a toggle of /mcp under way, and their number
    closing      \* Close

mcpVars == <<enabled, surfaces, rounds, refreshMu, refreshStop, connections, tools, sessions, opened,
             statuses, pinnedTools, applied, knownAtStart, pendingSurface, pendingForce, boundary,
             toolCalls, called, edit, edits, closing>>

liveVars == <<connections, tools, sessions, opened>>
surfaceVars == <<pinnedTools, applied, knownAtStart, pendingSurface, pendingForce, boundary>>
roundVars == <<rounds, refreshMu, refreshStop>>
userVars == <<edit, edits, enabled, closing>>
callVars == <<toolCalls, called>>

HasLiveServer(s) == \E c \in connections : c.server = s

NoToolCall == [at |-> "idle", server |-> "none", round |-> 0, session |-> 0]

\* surfaceForCurrent: what the cache knows of the enabled servers.
CachedSurface == [s \in Servers |-> IF s \in enabled THEN surfaces[s] ELSE 0]

McpInit ==
    /\ enabled \in SUBSET Servers /\ surfaces \in [Servers -> Versions \union {0}]
    /\ rounds = <<>> /\ refreshMu = 0 /\ refreshStop = 0
    /\ connections = {} /\ tools = [s \in Servers |-> 0] /\ sessions = {} /\ opened = 0
    /\ statuses = [s \in Servers |-> "none"]
    /\ pinnedTools = CachedSurface /\ applied = pinnedTools
    /\ knownAtStart = {s \in enabled : surfaces[s] # 0}
    /\ pendingSurface = FALSE /\ pendingForce = FALSE /\ boundary = [at |-> "idle"]
    /\ toolCalls = [c \in Callers |-> NoToolCall] /\ called = 0
    /\ edit = "none" /\ edits = 0 /\ closing = "no"

-----------------------------------------------------------------------------
(* A round.                                                                *)

\* A goroutine for the round, of one server or, in full, of all of them.
NewRound(only, full) == [only |-> only, full |-> full, at |-> "queued", cancelled |-> FALSE, todo |-> {}, ready |-> {}]

\* refreshInternal: the round before is cancelled.  A refresh of the last second is
\* joined instead, which changes nothing here.
BeginRefresh ==
    /\ closing = "no"
    /\ Cardinality({r \in DOMAIN rounds : rounds[r].full}) < MaxRefreshes
    /\ rounds' = Append([r \in DOMAIN rounds |->
                            [rounds[r] EXCEPT !.cancelled = @ \/ r = refreshStop]],
                        NewRound(Servers, TRUE))
    /\ refreshStop' = Len(rounds) + 1
    /\ UNCHANGED refreshMu

\* Test, and the refresh after Authorize.
Refresh ==
    /\ BeginRefresh
    /\ UNCHANGED <<surfaces, liveVars, statuses, surfaceVars, callVars, userVars>>

\* The start of refresh: under the lock the old connections go, closed only if the
\* round is for one server; then mcp.json is read.
Drop(r) ==
    LET dropped == {c \in connections : c.server \in rounds[r].only}
        on == rounds[r].only \intersect enabled
    IN  /\ rounds[r].at = "queued" /\ refreshMu = 0 /\ refreshMu' = r
        /\ connections' = connections \ dropped
        /\ tools' = [s \in Servers |-> IF s \in rounds[r].only THEN 0 ELSE tools[s]]
        /\ sessions' = IF rounds[r].full THEN sessions ELSE sessions \ {c.session : c \in dropped}
        /\ \/ /\ rounds' = [rounds EXCEPT ![r].at = "connecting", ![r].todo = on]
              /\ statuses' = [s \in Servers |-> IF s \in on THEN "connecting"
                                                ELSE IF s \in rounds[r].only THEN "disabled"
                                                ELSE statuses[s]]
           \/ rounds' = [rounds EXCEPT ![r].at = "connecting"] /\ UNCHANGED statuses  \* unreadable
        /\ UNCHANGED <<surfaces, refreshStop, opened, surfaceVars, callVars, userVars>>

\* connect succeeds: the surface is cached, and pinnedTools if the server was not known.
Handshake(r, s, version) ==
    /\ rounds[r].at = "connecting" /\ s \in rounds[r].todo /\ ~rounds[r].cancelled
    /\ opened' = opened + 1 /\ sessions' = sessions \union {opened + 1}
    /\ surfaces' = [surfaces EXCEPT ![s] = version]
    /\ rounds' = [rounds EXCEPT ![r].todo = @ \ {s},
                                ![r].ready = @ \union {[server |-> s, session |-> opened + 1]}]
    /\ IF s \in knownAtStart THEN UNCHANGED <<pinnedTools, knownAtStart, pendingSurface>>
       ELSE /\ pinnedTools' = [pinnedTools EXCEPT ![s] = version]
            /\ knownAtStart' = knownAtStart \union {s} /\ pendingSurface' = TRUE
    /\ UNCHANGED <<connections, tools, statuses, applied, pendingForce, boundary, refreshMu,
                   refreshStop, callVars, userVars>>

\* The connection is adopted, whatever has been cancelled or closed meanwhile.
Adopt(r, c) ==
    /\ c \in rounds[r].ready
    /\ connections' = connections \union {c} /\ tools' = [tools EXCEPT ![c.server] = c.session]
    /\ statuses' = [statuses EXCEPT ![c.server] = "connected"]
    /\ rounds' = [rounds EXCEPT ![r].ready = @ \ {c}]
    /\ UNCHANGED <<surfaces, refreshMu, refreshStop, sessions, opened, surfaceVars, callVars, userVars>>

\* connect fails: refused, unauthorised, timed out, cancelled, or its surface not stored.
ConnectFails(r, s) ==
    /\ s \in rounds[r].todo
    /\ rounds' = [rounds EXCEPT ![r].todo = @ \ {s}]
    /\ \E state \in {"error", "auth_required"} : statuses' = [statuses EXCEPT ![s] = state]
    /\ UNCHANGED <<surfaces, refreshMu, refreshStop, liveVars, surfaceVars, callVars, userVars>>

EndRound(r) ==
    /\ rounds[r].at = "connecting" /\ rounds[r].todo = {} /\ rounds[r].ready = {}
    /\ rounds' = [rounds EXCEPT ![r].at = "done"] /\ refreshMu' = 0
    /\ UNCHANGED <<surfaces, refreshStop, liveVars, statuses, surfaceVars, callVars, userVars>>

-----------------------------------------------------------------------------
(* A call of a tool of the offered surface.                                *)

SetCall(c, value) == toolCalls' = [toolCalls EXCEPT ![c] = value]

\* forwardingTool.Execute looks for the live tool.
Call(c, s) ==
    /\ toolCalls[c].at = "idle" /\ applied[s] # 0 /\ called < MaxCalls /\ called' = called + 1
    /\ SetCall(c, [NoToolCall EXCEPT !.at = IF tools[s] # 0 THEN "executing" ELSE "ensuring",
                                 !.server = s, !.session = tools[s]])
    /\ UNCHANGED <<surfaces, roundVars, liveVars, statuses, surfaceVars, userVars>>

\* EnsureLive: a round of its own for the server, if there is no connection.
EnsureLive(c) ==
    LET s == toolCalls[c].server IN
    /\ toolCalls[c].at = "ensuring"
    /\ IF HasLiveServer(s)
       THEN SetCall(c, [toolCalls[c] EXCEPT !.at = "looking"]) /\ UNCHANGED <<rounds, statuses>>
       ELSE /\ rounds' = Append(rounds, NewRound({s}, FALSE))
            /\ statuses' = [statuses EXCEPT ![s] = "connecting"]
            /\ SetCall(c, [toolCalls[c] EXCEPT !.at = "waiting", !.round = Len(rounds) + 1])
    /\ UNCHANGED <<surfaces, refreshMu, refreshStop, liveVars, surfaceVars, called, userVars>>

WaitForRound(c) ==
    /\ toolCalls[c].at = "waiting" /\ rounds[toolCalls[c].round].at = "done"
    /\ SetCall(c, [toolCalls[c] EXCEPT !.at = "checking"])
    /\ rounds' = [rounds EXCEPT ![toolCalls[c].round].cancelled = TRUE]
    /\ UNCHANGED <<surfaces, refreshMu, refreshStop, liveVars, statuses, surfaceVars, called, userVars>>

\* The wait ends with the round or after lazyStartTimeout, which also cancels the
\* round; the goroutine that runs it stays.
WaitOver(c) ==
    /\ toolCalls[c].at = "waiting"
    /\ SetCall(c, [toolCalls[c] EXCEPT !.at = "checking"])
    /\ rounds' = [rounds EXCEPT ![toolCalls[c].round].cancelled = TRUE]
    /\ UNCHANGED <<surfaces, refreshMu, refreshStop, liveVars, statuses, surfaceVars, called, userVars>>

Check(c) ==
    /\ toolCalls[c].at = "checking"
    /\ SetCall(c, [toolCalls[c] EXCEPT !.at = IF HasLiveServer(toolCalls[c].server) THEN "looking" ELSE "failing"])
    /\ UNCHANGED <<surfaces, roundVars, liveVars, statuses, surfaceVars, called, userVars>>

ReportUnavailable(c) ==
    /\ toolCalls[c].at = "failing" /\ SetCall(c, NoToolCall)
    /\ statuses' = [statuses EXCEPT ![toolCalls[c].server] = "error"]
    /\ UNCHANGED <<surfaces, roundVars, liveVars, surfaceVars, called, userVars>>

\* The second look: the connection may have gone again.
LookAgain(c) ==
    LET live == tools[toolCalls[c].server] IN
    /\ toolCalls[c].at = "looking"
    /\ SetCall(c, IF live = 0 THEN NoToolCall ELSE [toolCalls[c] EXCEPT !.at = "executing", !.session = live])
    /\ UNCHANGED <<surfaces, roundVars, liveVars, statuses, surfaceVars, called, userVars>>

MarkWithoutTools(s) ==
    /\ connections' = {c \in connections : c.server # s}
    /\ sessions' = sessions \ {c.session : c \in {d \in connections : d.server = s}}
    /\ statuses' = [statuses EXCEPT ![s] = "error"]
    /\ UNCHANGED tools

\* markServerError: the connection the server has now is closed and its tools go.
MarkServerError(s) ==
    /\ connections' = {c \in connections : c.server # s}
    /\ sessions' = sessions \ {c.session : c \in {d \in connections : d.server = s}}
    /\ tools' = IF HasLiveServer(s) THEN [tools EXCEPT ![s] = 0] ELSE tools
    /\ statuses' = [statuses EXCEPT ![s] = "error"]

\* mcpTool.Execute: an answer, a refusal or an error of the server.
Answered(c) ==
    /\ toolCalls[c].at = "executing" /\ toolCalls[c].session \in sessions /\ SetCall(c, NoToolCall)
    /\ UNCHANGED <<surfaces, roundVars, liveVars, statuses, surfaceVars, called, userVars>>

\* The transport was closed.
Broken(c) ==
    /\ toolCalls[c].at = "executing" /\ SetCall(c, NoToolCall)
    /\ MarkServerError(toolCalls[c].server)
    /\ UNCHANGED <<surfaces, roundVars, opened, surfaceVars, called, userVars>>

-----------------------------------------------------------------------------
(* The user and the engine.                                                *)

\* An /mcp action: mcp.json, then the request for a new surface, then a refresh.
SetEnabled(s) ==
    /\ edit = "none" /\ edits < MaxToggles /\ edits' = edits + 1 /\ edit' = "saved"
    /\ enabled' = IF s \in enabled THEN enabled \ {s} ELSE enabled \union {s}
    /\ UNCHANGED <<surfaces, roundVars, liveVars, statuses, surfaceVars, callVars, closing>>

RequestSurfaceRefresh ==
    /\ edit = "saved" /\ edit' = "requested"
    /\ pendingSurface' = TRUE /\ pendingForce' = TRUE
    /\ UNCHANGED <<enabled, edits, closing, surfaces, roundVars, liveVars, statuses, pinnedTools, applied,
                   knownAtStart, boundary, callVars>>

RefreshAfterEdit ==
    /\ edit = "requested" /\ edit' = "none"
    /\ BeginRefresh
    /\ UNCHANGED <<enabled, edits, closing, surfaces, liveVars, statuses, surfaceVars, callVars>>

\* TakeBoundaryChange, before a task: the cache is read outside the lock.
BoundaryReads ==
    /\ boundary.at = "idle" /\ pendingSurface /\ \A c \in Callers : toolCalls[c].at = "idle"
    /\ boundary' = [at |-> "read", forced |-> pendingForce, desired |-> CachedSurface]
    /\ UNCHANGED <<pinnedTools, applied, knownAtStart, pendingSurface, pendingForce, surfaces, roundVars,
                   liveVars, statuses, callVars, userVars>>

BoundaryTakes ==
    /\ boundary.at = "read" /\ boundary' = [at |-> "idle"]
    /\ pinnedTools' = IF boundary.forced THEN boundary.desired ELSE pinnedTools
    /\ applied' = pinnedTools'
    /\ pendingSurface' = FALSE /\ pendingForce' = FALSE
    /\ UNCHANGED <<knownAtStart, surfaces, roundVars, liveVars, statuses, callVars, userVars>>

\* Close: no refresh begins any more, the last is cancelled; when the lock is free
\* the connections are closed.
Close ==
    /\ closing = "no" /\ closing' = "waiting"
    /\ rounds' = [r \in DOMAIN rounds |-> [rounds[r] EXCEPT !.cancelled = @ \/ r = refreshStop]]
    /\ UNCHANGED <<enabled, edit, edits, surfaces, refreshMu, refreshStop, liveVars, statuses,
                   surfaceVars, callVars>>

CloseConnections ==
    /\ closing = "waiting" /\ refreshMu = 0 /\ closing' = "closed"
    /\ sessions' = sessions \ {c.session : c \in connections}
    /\ connections' = {} /\ tools' = [s \in Servers |-> 0]
    /\ UNCHANGED <<enabled, edit, edits, surfaces, roundVars, opened, statuses, surfaceVars, callVars>>

CallStep(c) ==
    \/ EnsureLive(c) \/ WaitOver(c) \/ Check(c) \/ ReportUnavailable(c) \/ LookAgain(c)
    \/ Answered(c) \/ Broken(c)

McpNext ==
    \/ Refresh \/ RequestSurfaceRefresh \/ RefreshAfterEdit \/ \E s \in Servers : SetEnabled(s)
    \/ \E r \in DOMAIN rounds :
        \/ Drop(r) \/ EndRound(r)
        \/ \E s \in Servers : ConnectFails(r, s) \/ \E v \in Versions : Handshake(r, s, v)
        \/ \E c \in rounds[r].ready : Adopt(r, c)
    \/ \E c \in Callers : CallStep(c) \/ \E s \in Servers : Call(c, s)
    \/ BoundaryReads \/ BoundaryTakes \/ Close \/ CloseConnections

\* The goroutine of a call runs and its timers fire; no server need ever answer a
\* handshake, and no round need end.
McpProgress == \A c \in Callers : WF_mcpVars(CallStep(c))

McpSpec == McpInit /\ [][McpNext]_mcpVars /\ McpProgress

-----------------------------------------------------------------------------
(* Properties.                                                             *)

McpTypeOK ==
    /\ \A c \in connections : c.server \in Servers /\ c.session \in 1..opened
    /\ tools \in [Servers -> 0..opened] /\ sessions \subseteq 1..opened
    /\ pinnedTools \in [Servers -> Versions \union {0}] /\ applied \in [Servers -> Versions \union {0}]

\* The tools and the connections tell the same story (manager.go:418-424): a tool found
\* live belongs to the one open connection of its server, and a server that counts as
\* live has its tool, or a call would be refused for ever without reconnecting.
ToolsAreLive ==
    /\ \A c \in connections : tools[c.server] = c.session /\ c.session \in sessions
    /\ \A s \in Servers : tools[s] # 0 => [server |-> s, session |-> tools[s]] \in connections

\* A call returns although its server is wedged (manager.go:80-83).
EveryMCPCallReturns == \A c \in Callers : toolCalls[c].at # "idle" ~> toolCalls[c].at = "idle"
=============================================================================
