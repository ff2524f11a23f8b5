------------------------------ MODULE Gateway -------------------------------
(***************************************************************************)
(* One request to the provider: OpenAICompatible.Chat with its ladder of   *)
(* retries, and chatOnce, which sends the request and reads the stream.    *)
(*                                                                         *)
(* Source: internal/gateway/provider.go, sse.go.                           *)
(*                                                                         *)
(* The provider is the environment: it may refuse, break off, fall silent, *)
(* send lines that are no JSON, or end the stream at any point.  A line is *)
(* one of the few kinds the client tells apart; what the chunks of a reply *)
(* add up to is in StreamReply.  A comment or an empty line only keeps the *)
(* idle timer from firing and is left out: Stall stands for a provider     *)
(* that has not even sent those.                                           *)
(***************************************************************************)
EXTENDS Naturals, Sequences

CONSTANTS
    MaxRetries,     \* Config.MaxRetries
    MalformedLimit, \* malformed lines a stream may carry (20 in the code)
    NoOutcome,      \* Chat has not returned
    MaxTokens,      \* bound on the tokens of one stream
    MaxChats        \* bound on the requests of one process

ASSUME GatewayAssumption ==
    /\ {MaxRetries, MalformedLimit, MaxTokens, MaxChats} \subseteq Nat
    /\ NoOutcome \notin [reply : BOOLEAN, attempt : Nat, tokens : Nat]

VARIABLES
    pc,            \* where Chat is
    cancelled,     \* ctx.Err() # nil
    attempt,       \* the loop's counter
    pinned,        \* input.PinUpstream is still set
    pinRejected,   \* p.pinRejected: latched for the process
    streamRetried, \* a broken stream has been retried
    acc,           \* the StreamAccumulator of the current attempt
    failure,       \* what chatOnce returned
    streams,       \* per request sent: the tokens the provider put in its stream
    shown,         \* per token handed to OnToken: the request it came from
    refusals,      \* pinned requests refused outright, in this process
    outcome,       \* what Chat returned
    chats          \* requests asked for so far

ladderVars == <<attempt, pinned, pinRejected, streamRetried, refusals>>
wireVars   == <<streams, shown>>
gatewayVars == <<pc, cancelled, ladderVars, acc, failure, wireVars, outcome, chats>>

Pcs == {"idle", "send", "headers", "stream", "failed", "pausing", "backoff"}
Statuses == {"busy", "refused"}     \* 408, 429 and 5xx; every other status
Kinds == Statuses \cup {"none", "transport", "stalled", "cancelled", "malformed", "empty", "hook"}

-----------------------------------------------------------------------------
(* Errors and the accumulator.                                             *)

Failures == [kind : Kinds, streamed : BOOLEAN]
NoFailure == [kind |-> "none", streamed |-> FALSE]

IsStatus(f) == f.kind \in Statuses

\* isNetworkError: everything but a cancellation, and so also a stall, a
\* malformed stream and a usage hook that failed.
IsNetwork(f) == f.kind # "cancelled"

Retryable(f) == \/ f.kind = "busy"
                \/ ~IsStatus(f) /\ ~f.streamed /\ IsNetwork(f)

\* NewStreamAccumulatorForProfile: an accumulator for each attempt.
Accumulators == [received : BOOLEAN, malformed : 0 .. MalformedLimit + 1,
                 tokens : Nat, usageFrames : Nat]
Fresh == [received |-> FALSE, malformed |-> 0, tokens |-> 0, usageFrames |-> 0]

Fail(kind) ==
    /\ pc' = "failed"
    /\ failure' = [kind |-> kind, streamed |-> acc'.received]

Conclude(result) ==
    /\ pc' = "idle" /\ outcome' = result

Error == [reply |-> FALSE, attempt |-> 0, tokens |-> 0]
Reply == [reply |-> TRUE, attempt |-> Len(streams), tokens |-> acc.tokens]

-----------------------------------------------------------------------------
(* The caller.                                                             *)

GatewayInit ==
    /\ pc = "idle" /\ cancelled = FALSE
    /\ attempt = 0 /\ pinned = FALSE /\ pinRejected = FALSE
    /\ streamRetried = FALSE /\ refusals = 0
    /\ acc = Fresh /\ failure = NoFailure
    /\ streams = <<>> /\ shown = <<>>
    /\ outcome = NoOutcome /\ chats = 0

\* Chat begins.  A pin once rejected is not sent again in this process.
Chat ==
    /\ pc = "idle" /\ chats < MaxChats
    /\ pc' = "send" /\ chats' = chats + 1
    /\ cancelled' = FALSE /\ attempt' = 0 /\ streamRetried' = FALSE
    /\ pinned' \in IF pinRejected THEN {FALSE} ELSE BOOLEAN
    /\ acc' = Fresh /\ failure' = NoFailure
    /\ streams' = <<>> /\ shown' = <<>> /\ outcome' = NoOutcome
    /\ UNCHANGED <<pinRejected, refusals>>

Cancel ==
    /\ pc # "idle" /\ ~cancelled
    /\ cancelled' = TRUE
    /\ UNCHANGED <<pc, ladderVars, acc, failure, wireVars, outcome, chats>>

-----------------------------------------------------------------------------
(* chatOnce.                                                               *)

SendOnOldAccumulator ==
    /\ pc = "send"
    /\ UNCHANGED acc
    /\ IF cancelled
       THEN Fail("cancelled") /\ UNCHANGED streams
       ELSE pc' = "headers" /\ streams' = Append(streams, 0) /\ UNCHANGED failure
    /\ UNCHANGED <<cancelled, ladderVars, shown, outcome, chats>>

\* client.Do: a cancelled context sends nothing.
Send ==
    /\ pc = "send"
    /\ acc' = Fresh
    /\ IF cancelled
       THEN Fail("cancelled") /\ UNCHANGED streams
       ELSE pc' = "headers" /\ streams' = Append(streams, 0) /\ UNCHANGED failure
    /\ UNCHANGED <<cancelled, ladderVars, shown, outcome, chats>>

\* The answer to the request line: a stream, a status or a broken connection.
Headers ==
    /\ pc = "headers" /\ ~cancelled
    /\ UNCHANGED acc
    /\ \/ pc' = "stream" /\ UNCHANGED failure
       \/ \E kind \in Statuses \cup {"transport"} : Fail(kind)
    /\ UNCHANGED <<cancelled, ladderVars, wireVars, outcome, chats>>

\* ConsumeLine, and the look at the context after each line: a line already
\* read is consumed although the caller has cancelled.
Receive(line) ==
    /\ pc = "stream"
    /\ CASE line = "token" ->
              /\ acc.tokens < MaxTokens
              /\ acc' = [acc EXCEPT !.received = TRUE, !.tokens = @ + 1]
              /\ streams' = [streams EXCEPT ![Len(streams)] = @ + 1]
              /\ shown' = Append(shown, Len(streams))
         [] line = "usage" ->
              /\ acc.usageFrames < 2
              /\ acc' = [acc EXCEPT !.received = TRUE, !.usageFrames = @ + 1]
              /\ UNCHANGED wireVars
         [] line = "malformed" ->
              /\ acc' = [acc EXCEPT !.malformed = @ + 1]
              /\ UNCHANGED wireVars
    /\ IF acc'.malformed > MalformedLimit THEN Fail("malformed")
       ELSE IF cancelled THEN Fail("cancelled")
       ELSE UNCHANGED <<pc, failure>>
    /\ UNCHANGED <<cancelled, ladderVars, outcome, chats>>

\* The connection breaks while the stream is read.
Break ==
    /\ pc = "stream"
    /\ UNCHANGED acc
    /\ Fail(IF cancelled THEN "cancelled" ELSE "transport")
    /\ UNCHANGED <<cancelled, ladderVars, wireVars, outcome, chats>>

StallBeforeHeaders ==
    /\ pc = "headers"
    /\ UNCHANGED acc
    /\ Fail(IF cancelled THEN "cancelled" ELSE "stalled")
    /\ UNCHANGED <<cancelled, ladderVars, wireVars, outcome, chats>>

\* The first-byte or the idle timer fires, or the read sees the cancelled
\* context; stalledError tells a stall from a cancellation.
Stall ==
    /\ pc \in {"headers", "stream"}
    /\ UNCHANGED acc
    /\ Fail(IF cancelled THEN "cancelled" ELSE "stalled")
    /\ UNCHANGED <<cancelled, ladderVars, wireVars, outcome, chats>>

\* The stream ends.  An answer without data is an error; the last usage frame is
\* handed to RawUsageObserver, whose error loses the answer.
End ==
    /\ pc = "stream"
    /\ UNCHANGED acc
    /\ \/ acc.received /\ Conclude(Reply) /\ UNCHANGED failure
       \/ /\ \/ ~acc.received /\ Fail("empty")
             \/ acc.usageFrames > 0 /\ Fail("hook")
          /\ UNCHANGED outcome
    /\ UNCHANGED <<cancelled, ladderVars, wireVars, chats>>

-----------------------------------------------------------------------------
(* The ladder.                                                             *)

\* for attempt++ : the loop is left with the last error.
NextAttempt ==
    /\ attempt' = attempt + 1
    /\ IF attempt < MaxRetries
       THEN pc' = "send" /\ UNCHANGED outcome
       ELSE Conclude(Error)

PinRefused == failure.kind = "refused" /\ ~failure.streamed /\ pinned

\* The pin is dropped, here and for the process, and the request repeated.
DropPin ==
    /\ pc = "failed" /\ PinRefused
    /\ pinRejected' = TRUE /\ pinned' = FALSE
    /\ refusals' = refusals + 1
    /\ NextAttempt
    /\ UNCHANGED <<cancelled, streamRetried, acc, failure, wireVars, chats>>

StreamDied == failure.streamed /\ ~IsStatus(failure) /\ IsNetwork(failure)

JudgeForgetfully ==
    /\ pc = "failed" /\ ~PinRefused
    /\ IF StreamDied /\ ~cancelled
       THEN pc' = "pausing" /\ UNCHANGED outcome
       ELSE IF failure.streamed \/ ~Retryable(failure) \/ attempt = MaxRetries \/ cancelled
            THEN Conclude(Error)
            ELSE pc' = "backoff" /\ UNCHANGED outcome
    /\ UNCHANGED <<cancelled, attempt, pinned, pinRejected, streamRetried, refusals,
                   acc, failure, wireVars, chats>>

\* A stream that died is repeated once, after a short pause.
Judge ==
    /\ pc = "failed" /\ ~PinRefused
    /\ \/ /\ StreamDied /\ ~streamRetried /\ ~cancelled
          /\ streamRetried' = TRUE /\ pc' = "pausing"
          /\ UNCHANGED outcome
       \/ /\ ~(StreamDied /\ ~streamRetried /\ ~cancelled)
          /\ UNCHANGED streamRetried
          /\ IF failure.streamed \/ ~Retryable(failure) \/ attempt = MaxRetries \/ cancelled
             THEN Conclude(Error)
             ELSE pc' = "backoff" /\ UNCHANGED outcome
    /\ UNCHANGED <<cancelled, attempt, pinned, pinRejected, refusals, acc, failure, wireVars, chats>>

\* sleepContext: when the delay and the cancellation are both due, either wins.
Wake ==
    /\ pc \in {"pausing", "backoff"}
    /\ \/ NextAttempt
       \/ cancelled /\ Conclude(Error) /\ UNCHANGED attempt
    /\ UNCHANGED <<cancelled, pinned, pinRejected, streamRetried, refusals, acc, failure,
                   wireVars, chats>>

GatewayNext ==
    \/ Chat \/ Cancel
    \/ Send \/ Headers \/ Break \/ Stall \/ End
    \/ \E line \in {"token", "usage", "malformed"} : Receive(line)
    \/ DropPin \/ Judge \/ Wake

\* The client's own steps, its timers among them; nothing is asked of the provider.
ClientStep == Send \/ Stall \/ DropPin \/ Judge \/ Wake

GatewayProgress == WF_gatewayVars(ClientStep)

GatewaySpec == GatewayInit /\ [][GatewayNext]_gatewayVars /\ GatewayProgress

-----------------------------------------------------------------------------
(* Properties.                                                             *)

GatewayTypeOK ==
    /\ pc \in Pcs
    /\ cancelled \in BOOLEAN /\ pinned \in BOOLEAN /\ pinRejected \in BOOLEAN
    /\ streamRetried \in BOOLEAN
    /\ attempt \in 0 .. MaxRetries + 1
    /\ acc \in Accumulators /\ failure \in Failures
    /\ streams \in Seq(Nat) /\ Len(streams) <= MaxRetries + 1
    /\ shown \in Seq(1 .. MaxRetries + 1)
    /\ refusals \in Nat /\ chats \in Nat
    /\ outcome = NoOutcome \/ outcome \in [reply : BOOLEAN, attempt : Nat, tokens : Nat]

\* At most two requests of one Chat carry text to the screen, and of a reply the
\* screen's last lines are the whole: what a broken stream had shown stays in
\* front of it (provider.go:157-166).
ShownEndsWithReply ==
    /\ \A i, j, k \in DOMAIN shown :
          ~(shown[i] < shown[j] /\ shown[j] < shown[k])
    /\ (outcome # NoOutcome /\ outcome.reply) =>
          /\ outcome.tokens <= Len(shown)
          /\ \A i \in DOMAIN shown :
                (shown[i] = outcome.attempt) <=> (i > Len(shown) - outcome.tokens)

\* Every request returns, whatever the provider does short of keeping a silent
\* stream alive: by an answer, or by the timers and the bounded ladder.
EveryChatReturns == []<>(pc = "idle")

\* A request has one outcome, which is an error or the whole of its last stream,
\* and nothing is sent for a caller that cancelled.
One == INSTANCE OneReply WITH
    MaxAttempts <- MaxRetries + 1,
    open <- pc # "idle"

OneReplySpec == One!AbsSpec

=============================================================================
