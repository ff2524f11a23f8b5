----------------------------- MODULE MCStreams ------------------------------
(***************************************************************************)
(* Model-checking instance of the parts that stream and wait: a request's  *)
(* retries (Gateway), the chunks of its reply (StreamReply), the usage     *)
(* records of a session (UsageLedger), a shell command (ShellRun), the     *)
(* bridge to the terminal (Bridge) and the MCP servers (Mcp).  They share  *)
(* no state, so a behaviour moves one of them: focus names it.             *)
(***************************************************************************)
EXTENDS Gateway, StreamReply, UsageLedger, ShellRun, Bridge, Mcp

CONSTANT NewServer   \* the MCP server that is not in the cache

VARIABLE focus

MCNumbers == {-4, -1, 2, 3}

MCUsages == {
    [prompt |-> Some(3), read |-> Some(1), miss |-> Some(2), cost |-> Some(1)],
    [prompt |-> Some(2), read |-> Some(2), miss |-> None, cost |-> None]}

Init ==
    /\ focus \in {"chat", "reply", "ledger", "shell", "bridge", "mcp"}
    /\ GatewayInit /\ ReplyInit /\ LedgerInit /\ ShellRunInit /\ BridgeInit
    /\ McpInit /\ enabled = Servers
    /\ surfaces = [s \in Servers |-> IF s = NewServer THEN 0 ELSE 1]

\* The user refreshes, calls and edits twice in all.
McpBounded ==
    Cardinality({r \in DOMAIN rounds' : rounds'[r].full}) + called' + edits' <= 2

Next ==
    \/ /\ focus = "chat" /\ GatewayNext
       /\ UNCHANGED <<replyVars, ledgerVars, shellRunVars, bridgeVars, mcpVars, focus>>
    \/ /\ focus = "reply" /\ ReplyNext
       /\ UNCHANGED <<gatewayVars, ledgerVars, shellRunVars, bridgeVars, mcpVars, focus>>
    \/ /\ focus = "ledger" /\ LedgerNext
       /\ UNCHANGED <<gatewayVars, replyVars, shellRunVars, bridgeVars, mcpVars, focus>>
    \/ /\ focus = "shell" /\ ShellRunNext
       /\ UNCHANGED <<gatewayVars, replyVars, ledgerVars, bridgeVars, mcpVars, focus>>
    \/ /\ focus = "bridge" /\ BridgeNext
       /\ UNCHANGED <<gatewayVars, replyVars, ledgerVars, shellRunVars, mcpVars, focus>>
    \/ /\ focus = "mcp" /\ McpNext /\ McpBounded
       /\ UNCHANGED <<gatewayVars, replyVars, ledgerVars, shellRunVars, bridgeVars, focus>>

vars == <<gatewayVars, replyVars, ledgerVars, shellRunVars, bridgeVars, mcpVars, focus>>

Spec ==
    /\ Init /\ [][Next]_vars
    /\ GatewayProgress /\ LedgerProgress /\ ShellRunProgress /\ BridgeProgress /\ McpProgress

\* Every variable of the six modules keeps its type.
TypeOK ==
    /\ GatewayTypeOK /\ StreamTypeOK /\ LedgerTypeOK
    /\ ShellRunTypeOK /\ BridgeTypeOK /\ McpTypeOK
=============================================================================
