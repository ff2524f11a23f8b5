----------------------------- MODULE McpSecrets -----------------------------
(***************************************************************************)
(* The stored servers and secrets of MCP (state/mcp.go, mcpclient/auth.go, *)
(* tokens.go): connecting refreshes a token that has expired, the user     *)
(* authorises, adds and removes servers and sets their environment.  All   *)
(* of it loads one JSON file, changes it and writes it back; a manager's   *)
(* secretsMu orders its own writers only.  A write replaces the file at    *)
(* once (state/json.go).                                                   *)
(*                                                                         *)
(* A provider rotates refresh tokens: a token is the grant it belongs to   *)
(* and its number, and only the newest of a grant can be refreshed.        *)
(***************************************************************************)
EXTENDS Naturals, Sequences

CONSTANTS
    McpServers, Managers,      \* servers by name; running applications
    MaxJobs, MaxGrants         \* bounds on what is done and on authorisations

ASSUME McpSecretsAssumption == MaxJobs \in Nat /\ MaxGrants \in Nat

VARIABLES
    servers,   \* the names in mcp.json
    secrets,   \* the secrets file: tokens and environments
    newest,    \* provider: grant -> number of its newest token
    jobs,      \* what was begun, in order
    spoiled,   \* history: servers with a save that failed or that another writer's save undid
    stranded   \* history: grants whose newest token was issued and never received

secretVars == <<servers, secrets, newest, jobs, spoiled, stranded>>

NoToken == [grant |-> 0, n |-> 0]
NoFile == <<>>

\* secretsMu is held by a manager's own saves, from the load to the write.
IsLocked(job) == job.kind \in {"connect", "authorize"}
HoldsLock(j) == IsLocked(jobs[j]) /\ jobs[j].at = "loaded"
SharesLock(i, j) == IsLocked(jobs[i]) /\ IsLocked(jobs[j]) /\ jobs[i].manager = jobs[j].manager

NewJob(kind, manager, s, at, token) ==
    [kind |-> kind, manager |-> manager, server |-> s, at |-> at, token |-> token,
     file |-> NoFile, overtaken |-> FALSE]

BeginJob(kind, manager, s, at, token) ==
    Len(jobs) < MaxJobs /\ jobs' = Append(jobs, NewJob(kind, manager, s, at, token))

InFlight(s) == \E j \in DOMAIN jobs : jobs[j].server = s /\ jobs[j].at # "done"

-----------------------------------------------------------------------------
(* Tokens.                                                                 *)

\* A round of a manager reads the file once and connects its servers side by side,
\* those whose tokens have expired among them.  The next one waits for all of them
\* (refreshMu).
BeginRound(manager, expired) ==
    /\ Len(jobs) + Len(expired) <= MaxJobs
    /\ \A i, k \in DOMAIN expired : expired[i] = expired[k] => i = k
    /\ \A i \in DOMAIN expired : expired[i] \in servers /\ secrets.oauth[expired[i]] # NoToken
    /\ \A j \in DOMAIN jobs : jobs[j].kind = "connect" /\ jobs[j].manager = manager => jobs[j].at = "done"
    /\ jobs' = jobs \o [i \in 1 .. Len(expired) |->
                            NewJob("connect", manager, expired[i], "asking", secrets.oauth[expired[i]])]
    /\ UNCHANGED <<servers, secrets, newest, spoiled, stranded>>

\* oauthAccessToken: the provider rotates the token, or refuses an old one.
RefreshToken(j) ==
    LET token == jobs[j].token IN
    /\ jobs[j].kind = "connect" /\ jobs[j].at = "asking"
    /\ IF token.n = newest[token.grant]
       THEN /\ newest' = [newest EXCEPT ![token.grant] = @ + 1]
            /\ jobs' = [jobs EXCEPT ![j].at = "saving", ![j].token.n = @ + 1]
       ELSE jobs' = [jobs EXCEPT ![j].at = "done"] /\ UNCHANGED newest
    /\ UNCHANGED <<servers, secrets, spoiled, stranded>>

\* The provider rotates the token and the answer is lost: the round is cancelled, its
\* time is over, the connection breaks or the process ends.  No one has the new token.
ReplyIsLost(j) ==
    LET token == jobs[j].token IN
    /\ jobs[j].kind = "connect" /\ jobs[j].at = "asking" /\ token.n = newest[token.grant]
    /\ newest' = [newest EXCEPT ![token.grant] = @ + 1]
    /\ stranded' = stranded \union {token.grant}
    /\ jobs' = [jobs EXCEPT ![j].at = "done"]
    /\ UNCHANGED <<servers, secrets, spoiled>>

\* Authorize finds the server, listens and opens the browser.
BeginAuthorize(manager, s) ==
    /\ s \in servers /\ BeginJob("authorize", manager, s, "asking", NoToken)
    /\ UNCHANGED <<servers, secrets, newest, spoiled, stranded>>

\* waitForCallback: the first code with the right state, exchanged for a token.
CallbackArrives(j) ==
    /\ jobs[j].kind = "authorize" /\ jobs[j].at = "asking" /\ Len(newest) < MaxGrants
    /\ newest' = Append(newest, 1)
    /\ jobs' = [jobs EXCEPT ![j].at = "saving", ![j].token = [grant |-> Len(newest) + 1, n |-> 1]]
    /\ UNCHANGED <<servers, secrets, spoiled, stranded>>

\* The request does not reach the provider or is refused, or no callback comes within
\* the timeout.
AskFails(j) ==
    /\ jobs[j].at = "asking" /\ jobs' = [jobs EXCEPT ![j].at = "done"]
    /\ UNCHANGED <<servers, secrets, newest, spoiled, stranded>>

-----------------------------------------------------------------------------
(* The file.                                                               *)

\* A mutated form: the lock is not taken before the file is loaded.
LoadUnlocked(j) ==
    /\ jobs[j].at = "saving"
    /\ jobs' = [jobs EXCEPT ![j].at = "loaded", ![j].file = secrets, ![j].overtaken = FALSE]
    /\ UNCHANGED <<servers, secrets, newest, spoiled, stranded>>

\* LoadMCPSecrets; saveOAuthToken and Authorize wait for the lock first.
LoadMCPSecrets(j) ==
    /\ jobs[j].at = "saving"
    /\ \A i \in DOMAIN jobs : HoldsLock(i) => ~SharesLock(i, j)
    /\ jobs' = [jobs EXCEPT ![j].at = "loaded", ![j].file = secrets, ![j].overtaken = FALSE]
    /\ UNCHANGED <<servers, secrets, newest, spoiled, stranded>>

\* What a job makes of the file it has loaded.
Changed(job) ==
    CASE IsLocked(job) -> [job.file EXCEPT !.oauth[job.server] = job.token]
      [] job.kind = "remove" -> [oauth |-> [job.file.oauth EXCEPT ![job.server] = NoToken],
                                 env |-> job.file.env \ {job.server}]
      [] job.kind = "env" -> [job.file EXCEPT !.env = @ \union {job.server}]

\* The servers whose secrets a write changes although it is not about them.
Undone(job) == {s \in McpServers \ {job.server} :
                    Changed(job).oauth[s] # secrets.oauth[s] \/ (s \in Changed(job).env) # (s \in secrets.env)}

\* SaveMCPSecrets.  Who loaded before without the same lock will write an old file.
SaveMCPSecrets(j) ==
    /\ jobs[j].at = "loaded"
    /\ secrets' = Changed(jobs[j])
    /\ spoiled' = IF jobs[j].overtaken THEN spoiled \union Undone(jobs[j]) \union {jobs[j].server}
                  ELSE spoiled
    /\ jobs' = [i \in DOMAIN jobs |->
                   IF i = j THEN [jobs[i] EXCEPT !.at = "done", !.file = NoFile]
                   ELSE IF jobs[i].at = "loaded" /\ ~SharesLock(i, j) THEN [jobs[i] EXCEPT !.overtaken = TRUE]
                   ELSE jobs[i]]
    /\ UNCHANGED <<servers, newest, stranded>>

\* The file cannot be read or written, or the process ends.
SaveFails(j) ==
    /\ jobs[j].at \in {"saving", "loaded"}
    /\ jobs' = [jobs EXCEPT ![j].at = "done", ![j].file = NoFile] /\ spoiled' = spoiled \union {jobs[j].server}
    /\ UNCHANGED <<servers, secrets, newest, stranded>>

-----------------------------------------------------------------------------
(* Servers.                                                                *)

\* UpsertMCPServer.
UpsertMCPServer(s) ==
    /\ servers' = servers \union {s} /\ s \notin servers
    /\ UNCHANGED <<secrets, newest, jobs, spoiled, stranded>>

\* RemoveMCPServer: mcp.json first, then the secrets.  A token on its way to the
\* file, or an environment, is stored all the same.
RemoveMCPServer(manager, s) ==
    /\ s \in servers /\ servers' = servers \ {s}
    /\ BeginJob("remove", manager, s, "saving", NoToken)
    /\ spoiled' = IF InFlight(s) THEN spoiled \union {s} ELSE spoiled
    /\ UNCHANGED <<secrets, newest, stranded>>

\* SetMCPEnv, after the server was added.
SetMCPEnv(manager, s) ==
    /\ s \in servers /\ BeginJob("env", manager, s, "saving", NoToken)
    /\ UNCHANGED <<servers, secrets, newest, spoiled, stranded>>

-----------------------------------------------------------------------------

\* Some servers were authorised, each with a grant of its own.
SecretsInit ==
    /\ servers = McpServers /\ jobs = <<>> /\ spoiled = {} /\ stranded = {}
    /\ \E n \in 0 .. MaxGrants : \E order \in [McpServers -> 0 .. n] :
           /\ \A s, t \in McpServers : order[s] = order[t] => s = t \/ order[s] = 0
           /\ \A g \in 1 .. n : \E s \in McpServers : order[s] = g
           /\ newest = [g \in 1 .. n |-> 1]
           /\ secrets = [oauth |-> [s \in McpServers |->
                                       IF order[s] = 0 THEN NoToken ELSE [grant |-> order[s], n |-> 1]],
                         env |-> {}]

SecretsNext ==
    \/ \E m \in Managers, n \in 1 .. MaxJobs : \E expired \in [1 .. n -> McpServers] : BeginRound(m, expired)
    \/ \E m \in Managers, s \in McpServers :
           BeginAuthorize(m, s) \/ RemoveMCPServer(m, s) \/ SetMCPEnv(m, s)
    \/ \E s \in McpServers : UpsertMCPServer(s)
    \/ \E j \in DOMAIN jobs :
           RefreshToken(j) \/ ReplyIsLost(j) \/ CallbackArrives(j) \/ AskFails(j)
           \/ LoadMCPSecrets(j) \/ SaveMCPSecrets(j) \/ SaveFails(j)

-----------------------------------------------------------------------------

\* When nothing is under way for a server, its stored token is one its provider
\* still takes, although a round rotates several tokens side by side while the user
\* authorises: a manager's writers never undo each other.  What may spoil it is
\* listed: a failed save, a writer of another process or one that takes no lock
\* (RemoveMCPServer, SetMCPEnv), and the answer of a rotation that was lost, until the
\* server is authorised again.
TokenIsUsable ==
    \A s \in McpServers :
        LET token == secrets.oauth[s] IN
        (s \notin spoiled /\ ~InFlight(s) /\ token # NoToken /\ token.grant \notin stranded)
            => token.n = newest[token.grant]

\* A removed server leaves no secret behind, unless something was under way for it.
RemovedIsForgotten ==
    \A s \in McpServers \ servers :
        (s \notin spoiled /\ ~InFlight(s)) => secrets.oauth[s] = NoToken /\ s \notin secrets.env

\* The file holds the tokens that work and none that should be gone.
SecretsAreCurrent == TokenIsUsable /\ RemovedIsForgotten
=============================================================================
