---------------------------- MODULE Streams_proofs ----------------------------
(***************************************************************************)
(* What is proved of a reply on its way from the provider to the screen:   *)
(* the ladder of retries, the usage a stream reports, the ledger that      *)
(* usage is recorded in, and the bridge that hands text and calls to the   *)
(* event loop. They share no variable; each theorem is about one of them,  *)
(* for every value of its constants.                                       *)
(***************************************************************************)
EXTENDS Gateway, StreamReply, UsageLedger, Bridge, FoldLemmas, SequenceTheorems,
        FiniteSetTheorems, TLAPS

\* The ladder: the attempts made so far bound the streams begun.
LadderInv ==
    pc # "idle" =>
        /\ attempt <= MaxRetries /\ outcome = NoOutcome /\ Len(streams) <= attempt + 1
        /\ pc = "send" => Len(streams) <= attempt

\* The accumulator: it has what its own stream carried, and a failure tells of it.
AccInv ==
    /\ acc.tokens > 0 => acc.received
    /\ pc \in {"headers", "stream"} => /\ Len(streams) >= 1 /\ streams[Len(streams)] = acc.tokens
                                       /\ acc.malformed <= MalformedLimit
    /\ pc = "failed" => failure.streamed = acc.received

Reading == pc \in {"headers", "stream", "failed"}

\* The screen: what an older stream a left there, and then what the accumulator has.
ShownAfter(a) ==
    /\ a <= Len(streams)
    /\ pc \in {"headers", "stream"} => a < Len(streams)
    /\ IF Reading
       THEN /\ acc.tokens <= Len(shown)
            /\ \A i \in DOMAIN shown :
                   shown[i] = IF i > Len(shown) - acc.tokens THEN Len(streams) ELSE a
            /\ ~streamRetried => acc.tokens = Len(shown)
       ELSE /\ \A i \in DOMAIN shown : shown[i] = a
            /\ ~streamRetried => shown = <<>>

ScreenInv ==
    /\ pc # "idle" => \E a \in Nat : ShownAfter(a)
    /\ pc = "idle" => ShownEndsWithReply

GatewayInv == GatewayTypeOK /\ LadderInv /\ AccInv /\ ScreenInv

\* A screen that shows two streams at most, and no outcome yet or an error.
LEMMA TwoStreams ==
    ASSUME NEW a \in Nat, NEW b \in Nat, \A i \in DOMAIN shown : shown[i] \in {a, b},
           outcome = NoOutcome \/ outcome = Error
    PROVE  ShownEndsWithReply
BY DEF ShownEndsWithReply, Error

\* While a request is open its screen shows an older stream and the present one.
LEMMA ScreenIsEnough == GatewayInv => ShownEndsWithReply
<1> SUFFICES ASSUME GatewayInv, pc # "idle" PROVE ShownEndsWithReply
  BY DEF GatewayInv, ScreenInv
<1>1. PICK a \in Nat : ShownAfter(a)
  BY DEF GatewayInv, ScreenInv
<1>2. \A i \in DOMAIN shown : shown[i] \in {a, Len(streams)}
  BY <1>1 DEF ShownAfter
<1>3. Len(streams) \in Nat /\ outcome = NoOutcome
  BY LenProperties DEF GatewayInv, GatewayTypeOK, LadderInv
<1> QED BY <1>2, <1>3, TwoStreams

\* The bounds are numbers.
LEMMA Bounds == MaxRetries \in Nat /\ MalformedLimit \in Nat
BY GatewayAssumption

\* The empty sequence and the records a request begins with.
LEMMA NothingSent ==
    /\ <<>> \in Seq(Nat) /\ <<>> \in Seq(1 .. MaxRetries + 1) /\ Len(<<>>) = 0 /\ DOMAIN <<>> = {}
    /\ Fresh \in Accumulators
    /\ NoFailure \in Failures
<1>1. Fresh \in Accumulators /\ NoFailure \in Failures
  BY Bounds DEF Fresh, NoFailure, Kinds, Accumulators, Failures
<1> QED BY <1>1, EmptySeq

\* What a record is made of, and of what.
LEMMA AccumulatorOf ==
    ASSUME NEW r \in BOOLEAN, NEW m \in 0 .. MalformedLimit + 1, NEW t \in Nat, NEW u \in Nat
    PROVE  [received |-> r, malformed |-> m, tokens |-> t, usageFrames |-> u] \in Accumulators
BY DEF Accumulators

\* The parts of an accumulator.
LEMMA AccumulatorFields ==
    GatewayTypeOK => /\ acc.received \in BOOLEAN /\ acc.malformed \in 0 .. MalformedLimit + 1
                     /\ acc.tokens \in Nat /\ acc.usageFrames \in Nat
                     /\ acc = [received |-> acc.received, malformed |-> acc.malformed,
                               tokens |-> acc.tokens, usageFrames |-> acc.usageFrames]
BY DEF GatewayTypeOK, Accumulators

\* A failure tells whether its stream had carried data.
LEMMA FailureOf ==
    ASSUME NEW kind \in Kinds, NEW a \in Accumulators
    PROVE  [kind |-> kind, streamed |-> a.received] \in Failures
BY DEF Failures, Accumulators

\* The invariant holds before the first request.
LEMMA GatewayInitial == GatewayInit => GatewayInv
<1> SUFFICES ASSUME GatewayInit PROVE GatewayInv
  OBVIOUS
<1>1. GatewayTypeOK
  <2>1. streams \in Seq(Nat) /\ Len(streams) = 0 /\ shown \in Seq(1 .. MaxRetries + 1)
        /\ acc \in Accumulators /\ failure \in Failures
    BY NothingSent DEF GatewayInit
  <2>2. pc \in Pcs /\ cancelled \in BOOLEAN /\ pinned \in BOOLEAN /\ pinRejected \in BOOLEAN
        /\ streamRetried \in BOOLEAN
    BY DEF GatewayInit, Pcs
  <2>3. attempt = 0 /\ refusals = 0 /\ chats = 0 /\ outcome = NoOutcome
    BY DEF GatewayInit
  <2> QED BY <2>1, <2>2, <2>3, Bounds DEF GatewayTypeOK
<1>2. LadderInv /\ AccInv
  BY DEF GatewayInit, LadderInv, AccInv, Fresh
<1>3. ShownEndsWithReply
  BY NothingSent DEF GatewayInit, ShownEndsWithReply
<1> QED BY <1>1, <1>2, <1>3 DEF GatewayInit, GatewayInv, ScreenInv

-----------------------------------------------------------------------------
(* One lemma for each action.                                              *)

\* A request begins with nothing of the last one.
LEMMA ChatPreserves ==
    ASSUME GatewayInv, Chat PROVE GatewayInv'
<1>1. /\ pc' = "send" /\ attempt' = 0 /\ streamRetried' = FALSE /\ cancelled' = FALSE /\ acc' = Fresh
      /\ failure' = NoFailure /\ streams' = <<>> /\ shown' = <<>> /\ outcome' = NoOutcome
      /\ chats' = chats + 1 /\ UNCHANGED <<pinRejected, refusals>> /\ pinned' \in BOOLEAN
  BY DEF Chat
<1>2. GatewayTypeOK'
  <2>1. streams' \in Seq(Nat) /\ Len(streams') = 0 /\ shown' \in Seq(1 .. MaxRetries + 1)
        /\ acc' \in Accumulators /\ failure' \in Failures
    BY <1>1, NothingSent
  <2>2. /\ pc' \in Pcs /\ cancelled' \in BOOLEAN /\ pinned' \in BOOLEAN /\ pinRejected' \in BOOLEAN
        /\ streamRetried' \in BOOLEAN
    BY <1>1 DEF GatewayInv, GatewayTypeOK, Pcs
  <2>3. attempt' = 0 /\ refusals' \in Nat /\ chats' = chats + 1 /\ chats \in Nat /\ outcome' = NoOutcome
    BY <1>1 DEF GatewayInv, GatewayTypeOK
  <2> QED BY <2>1, <2>2, <2>3, Bounds DEF GatewayTypeOK
<1>3. LadderInv' /\ AccInv'
  BY <1>1, NothingSent, GatewayAssumption DEF LadderInv, AccInv, Fresh
<1>4. ShownAfter(0)'
  BY <1>1, NothingSent DEF ShownAfter, Reading
<1> QED BY <1>1, <1>2, <1>3, <1>4 DEF GatewayInv, ScreenInv

\* A cancellation is seen by later steps only.
LEMMA CancelPreserves ==
    ASSUME GatewayInv, Cancel PROVE GatewayInv'
BY DEF Cancel, GatewayInv, GatewayTypeOK, LadderInv, AccInv, ScreenInv, ShownAfter, Reading,
       ladderVars, wireVars

\* A new stream: what is on the screen is older.
LEMMA SendPreserves ==
    ASSUME GatewayInv, Send PROVE GatewayInv'
<1>1. /\ pc = "send" /\ acc' = Fresh
      /\ UNCHANGED <<cancelled, attempt, pinned, pinRejected, streamRetried, refusals, shown, outcome, chats>>
      /\ \/ /\ pc' = "failed" /\ failure' = [kind |-> "cancelled", streamed |-> acc'.received]
            /\ UNCHANGED streams
         \/ pc' = "headers" /\ streams' = Append(streams, 0) /\ UNCHANGED failure
  BY DEF Send, Fail, ladderVars
<1>2. /\ acc'.tokens = 0 /\ acc'.received = FALSE /\ acc'.malformed = 0
  BY <1>1 DEF Fresh
<1>3. PICK a \in Nat : ShownAfter(a)
  BY <1>1 DEF GatewayInv, ScreenInv
<1>4. a <= Len(streams) /\ (\A i \in DOMAIN shown : shown[i] = a) /\ (~streamRetried => shown = <<>>)
  BY <1>1, <1>3 DEF ShownAfter, Reading
<1>5. streams \in Seq(Nat) /\ Len(streams) \in Nat /\ Len(streams) <= attempt /\ attempt \in Nat
      /\ attempt <= MaxRetries
  BY <1>1, LenProperties DEF GatewayInv, GatewayTypeOK, LadderInv
<1>6. shown \in Seq(1 .. MaxRetries + 1) /\ Len(shown) \in Nat /\ DOMAIN shown = 1 .. Len(shown)
  BY LenProperties DEF GatewayInv, GatewayTypeOK
<1>7. /\ Append(streams, 0) \in Seq(Nat) /\ Len(Append(streams, 0)) = Len(streams) + 1
      /\ Append(streams, 0)[Len(streams) + 1] = 0
  BY <1>5, AppendProperties
<1>8. GatewayTypeOK'
  <2>1. failure' \in Failures /\ acc' \in Accumulators /\ pc' \in Pcs
    <3>1. "cancelled" \in Kinds /\ acc' \in Accumulators
      BY <1>1, NothingSent DEF Kinds
    <3>2. [kind |-> "cancelled", streamed |-> acc'.received] \in Failures
      BY <3>1, FailureOf
    <3>3. failure \in Failures /\ {"failed", "headers"} \subseteq Pcs
      BY DEF GatewayInv, GatewayTypeOK, Pcs
    <3> QED BY <1>1, <3>1, <3>2, <3>3
  <2>2. streams' \in Seq(Nat) /\ Len(streams') <= MaxRetries + 1
    <3>1. streams' = streams \/ streams' = Append(streams, 0)
      BY <1>1
    <3>2. Len(streams) <= MaxRetries + 1 /\ Len(streams) + 1 <= MaxRetries + 1
      BY <1>5, Bounds
    <3> QED BY <1>5, <1>7, <3>1, <3>2
  <2> QED BY <1>1, <2>1, <2>2 DEF GatewayInv, GatewayTypeOK
<1>9. LadderInv' /\ AccInv'
  BY <1>1, <1>2, <1>5, <1>7, GatewayAssumption DEF GatewayInv, LadderInv, AccInv
<1>10. ShownAfter(a)'
  BY <1>1, <1>2, <1>4, <1>5, <1>6, <1>7 DEF ShownAfter, Reading
<1> QED BY <1>1, <1>8, <1>9, <1>10 DEF GatewayInv, ScreenInv

\* A step that keeps the accumulator, its stream and the screen, and reads on or fails.
LEMMA ReadingPreserves ==
    ASSUME GatewayInv, pc \in {"headers", "stream"}, UNCHANGED acc,
           UNCHANGED <<cancelled, ladderVars, wireVars, outcome, chats>>,
           \/ pc' = "stream" /\ UNCHANGED failure
           \/ \E kind \in Kinds : Fail(kind)
    PROVE  GatewayInv'
<1>1. /\ UNCHANGED <<cancelled, attempt, pinned, pinRejected, streamRetried, refusals, acc, streams,
                     shown, outcome, chats>>
      /\ pc' \in {"stream", "failed"} /\ failure' \in Failures
      /\ pc' = "failed" => failure'.streamed = acc'.received
  <2>1. acc \in Accumulators /\ failure \in Failures
    BY DEF GatewayInv, GatewayTypeOK
  <2>2. CASE pc' = "stream" /\ UNCHANGED failure
    BY <2>1, <2>2 DEF ladderVars, wireVars
  <2>3. CASE \E kind \in Kinds : Fail(kind)
    <3>1. PICK kind \in Kinds : Fail(kind)
      BY <2>3
    <3>2. pc' = "failed" /\ failure' = [kind |-> kind, streamed |-> acc.received]
      BY <3>1 DEF Fail
    <3>3. failure' \in Failures
      BY <2>1, <3>2, FailureOf
    <3>4. failure'.streamed = acc'.received
      BY <3>2
    <3> QED BY <3>2, <3>3, <3>4 DEF ladderVars, wireVars
  <2> QED BY <2>2, <2>3
<1>2. GatewayTypeOK'
  BY <1>1 DEF GatewayInv, GatewayTypeOK, Pcs
<1>3. LadderInv' /\ AccInv'
  BY <1>1 DEF GatewayInv, LadderInv, AccInv
<1>4. PICK a \in Nat : ShownAfter(a)
  BY DEF GatewayInv, ScreenInv
<1>5. ShownAfter(a)'
  BY <1>1, <1>4 DEF ShownAfter, Reading
<1> QED BY <1>1, <1>2, <1>3, <1>5 DEF GatewayInv, ScreenInv

\* The two failures a line can end in.
LEMMA FailureAfterLine ==
    ASSUME NEW a \in Accumulators, NEW kind \in {"malformed", "cancelled"}
    PROVE  [kind |-> kind, streamed |-> a.received] \in Failures
<1>1. kind \in Kinds
  BY DEF Kinds
<1> QED BY <1>1, FailureOf

\* A line of the stream: a token goes to the accumulator and to the screen.
LEMMA ReceivePreserves ==
    ASSUME GatewayInv, NEW line \in {"token", "usage", "malformed"}, Receive(line)
    PROVE  GatewayInv'
<1>0. /\ acc.received \in BOOLEAN /\ acc.malformed \in 0 .. MalformedLimit + 1
      /\ acc.tokens \in Nat /\ acc.usageFrames \in Nat
      /\ acc = [received |-> acc.received, malformed |-> acc.malformed, tokens |-> acc.tokens,
                usageFrames |-> acc.usageFrames]
  BY AccumulatorFields DEF GatewayInv
<1>1. /\ pc = "stream"
      /\ UNCHANGED <<cancelled, attempt, pinned, pinRejected, streamRetried, refusals, outcome, chats>>
      /\ \/ /\ pc' = "failed" /\ \E kind \in {"malformed", "cancelled"} :
                                     failure' = [kind |-> kind, streamed |-> acc'.received]
         \/ UNCHANGED <<pc, failure>> /\ ~(acc'.malformed > MalformedLimit)
  BY DEF Receive, Fail, ladderVars
<1>2. PICK a \in Nat : ShownAfter(a)
  BY <1>1 DEF GatewayInv, ScreenInv
<1>3. /\ streams \in Seq(Nat) /\ Len(streams) \in Nat /\ Len(streams) >= 1
      /\ Len(streams) <= MaxRetries + 1 /\ streams[Len(streams)] = acc.tokens
      /\ acc.malformed <= MalformedLimit
  BY <1>1, LenProperties DEF GatewayInv, GatewayTypeOK, AccInv
<1>4. shown \in Seq(1 .. MaxRetries + 1) /\ Len(shown) \in Nat /\ DOMAIN shown = 1 .. Len(shown)
  BY LenProperties DEF GatewayInv, GatewayTypeOK
<1>5. CASE line = "token"
  <2>1. /\ acc' = [acc EXCEPT !.received = TRUE, !.tokens = @ + 1]
        /\ streams' = [streams EXCEPT ![Len(streams)] = @ + 1]
        /\ shown' = Append(shown, Len(streams))
    BY <1>5 DEF Receive
  <2>2. /\ acc' \in Accumulators
        /\ acc'.received /\ acc'.tokens = acc.tokens + 1 /\ acc'.malformed = acc.malformed
    <3>1. acc' = [received |-> TRUE, malformed |-> acc.malformed, tokens |-> acc.tokens + 1,
                  usageFrames |-> acc.usageFrames]
      BY <1>0, <2>1
    <3>2. acc.tokens + 1 \in Nat
      BY <1>0
    <3>3. acc' \in Accumulators
      BY <1>0, <3>1, <3>2, AccumulatorOf, Zenon
    <3> QED BY <3>1, <3>3
  <2>3. /\ streams' \in Seq(Nat) /\ Len(streams') = Len(streams)
        /\ streams'[Len(streams)] = acc.tokens + 1
    BY <1>3, <2>1, ExceptSeq
  <2>4. /\ shown' \in Seq(1 .. MaxRetries + 1) /\ Len(shown') = Len(shown) + 1
        /\ \A i \in 1 .. Len(shown) : shown'[i] = shown[i]
        /\ shown'[Len(shown) + 1] = Len(streams)
    BY <1>3, <1>4, <2>1, AppendProperties, GatewayAssumption
  <2>5. DOMAIN shown' = 1 .. (Len(shown) + 1)
    BY <2>4, LenProperties
  <2>6. GatewayTypeOK'
    <3>1. failure' \in Failures /\ pc' \in Pcs
      BY <1>1, <2>2, FailureAfterLine DEF GatewayInv, GatewayTypeOK, Pcs
    <3>2. streams' \in Seq(Nat) /\ Len(streams') <= MaxRetries + 1 /\ shown' \in Seq(1 .. MaxRetries + 1)
      BY <1>3, <2>3, <2>4
    <3> QED BY <1>1, <2>2, <3>1, <3>2 DEF GatewayInv, GatewayTypeOK
  <2>7. LadderInv' /\ AccInv'
    <3>1. LadderInv'
      BY <1>1, <2>3 DEF GatewayInv, LadderInv
    <3>2. acc'.tokens > 0 => acc'.received
      BY <2>2
    <3>3. Len(streams') >= 1 /\ streams'[Len(streams')] = acc'.tokens /\ acc'.malformed <= MalformedLimit
      BY <1>3, <2>2, <2>3
    <3>4. pc' = "failed" => failure'.streamed = acc'.received
      BY <1>1
    <3> QED BY <3>1, <3>2, <3>3, <3>4 DEF AccInv
  <2>8. ShownAfter(a)'
    <3>1. /\ a < Len(streams) /\ acc.tokens <= Len(shown)
          /\ \A i \in 1 .. Len(shown) :
                 shown[i] = IF i > Len(shown) - acc.tokens THEN Len(streams) ELSE a
          /\ ~streamRetried => acc.tokens = Len(shown)
      BY <1>1, <1>2, <1>4 DEF ShownAfter, Reading
    <3>2. \A i \in 1 .. (Len(shown) + 1) :
              shown'[i] = IF i > (Len(shown) + 1) - (acc.tokens + 1) THEN Len(streams) ELSE a
      <4> SUFFICES ASSUME NEW i \in 1 .. (Len(shown) + 1)
                   PROVE  shown'[i] = IF i > (Len(shown) + 1) - (acc.tokens + 1) THEN Len(streams) ELSE a
        OBVIOUS
      <4>1. (Len(shown) + 1) - (acc.tokens + 1) = Len(shown) - acc.tokens
        BY <1>0, <1>4
      <4>2. CASE i \in 1 .. Len(shown)
        BY <2>4, <3>1, <4>1, <4>2
      <4>3. CASE i = Len(shown) + 1
        BY <1>0, <1>4, <2>4, <4>1, <4>3
      <4> QED BY <1>4, <4>2, <4>3
    <3> QED BY <1>1, <1>3, <1>4, <2>2, <2>3, <2>4, <2>5, <3>1, <3>2 DEF ShownAfter, Reading
  <2> QED BY <1>1, <2>6, <2>7, <2>8 DEF GatewayInv, ScreenInv
<1>6. CASE line # "token"
  <2>1. /\ UNCHANGED <<streams, shown>>
        /\ acc' \in Accumulators
        /\ acc'.tokens = acc.tokens /\ (acc.received => acc'.received)
    <3>1. CASE line = "usage"
      <4>1. /\ acc.usageFrames < 2 /\ UNCHANGED <<streams, shown>>
            /\ acc' = [acc EXCEPT !.received = TRUE, !.usageFrames = @ + 1]
        BY <3>1 DEF Receive, wireVars
      <4>2. acc' = [received |-> TRUE, malformed |-> acc.malformed, tokens |-> acc.tokens,
                    usageFrames |-> acc.usageFrames + 1]
        BY <1>0, <4>1
      <4>3. acc.usageFrames + 1 \in Nat
        BY <1>0
      <4>4. acc' \in Accumulators
        BY <1>0, <4>2, <4>3, AccumulatorOf, Zenon
      <4> QED BY <4>1, <4>2, <4>4
    <3>2. CASE line = "malformed"
      <4>1. acc' = [acc EXCEPT !.malformed = @ + 1] /\ UNCHANGED <<streams, shown>>
        BY <3>2 DEF Receive, wireVars
      <4>2. acc' = [received |-> acc.received, malformed |-> acc.malformed + 1, tokens |-> acc.tokens,
                    usageFrames |-> acc.usageFrames]
        BY <1>0, <4>1
      <4>3. acc.malformed + 1 \in 0 .. MalformedLimit + 1
        BY <1>0, <1>3, Bounds
      <4>4. acc' \in Accumulators
        BY <1>0, <4>2, <4>3, AccumulatorOf
      <4> QED BY <4>1, <4>2, <4>4
    <3> QED BY <1>6, <3>1, <3>2
  <2>2. GatewayTypeOK'
    <3>1. failure' \in Failures /\ pc' \in Pcs
      BY <1>1, <2>1, FailureAfterLine DEF GatewayInv, GatewayTypeOK, Pcs
    <3>2. /\ cancelled' \in BOOLEAN /\ pinned' \in BOOLEAN /\ pinRejected' \in BOOLEAN /\ streamRetried' \in BOOLEAN
          /\ attempt' \in 0 .. MaxRetries + 1 /\ refusals' \in Nat /\ chats' \in Nat
          /\ (outcome' = NoOutcome \/ outcome' \in [reply : BOOLEAN, attempt : Nat, tokens : Nat])
      BY <1>1 DEF GatewayInv, GatewayTypeOK
    <3>3. /\ streams' \in Seq(Nat) /\ Len(streams') <= MaxRetries + 1 /\ shown' \in Seq(1 .. MaxRetries + 1)
      BY <2>1 DEF GatewayInv, GatewayTypeOK
    <3> QED BY <2>1, <3>1, <3>2, <3>3 DEF GatewayTypeOK
  <2>3. LadderInv' /\ AccInv'
    <3>1. LadderInv'
      BY <1>1, <2>1 DEF GatewayInv, LadderInv
    <3>2. acc'.tokens > 0 => acc'.received
      BY <2>1 DEF GatewayInv, AccInv
    <3>3. /\ Len(streams') >= 1 /\ streams'[Len(streams')] = acc'.tokens
          /\ (pc' = "stream" => acc'.malformed <= MalformedLimit)
      <4>1. Len(streams') >= 1 /\ streams'[Len(streams')] = acc'.tokens
        BY <1>3, <2>1
      <4>2. acc'.malformed \in Nat
        BY <2>1 DEF Accumulators
      <4>3. pc' = "stream" => ~(acc'.malformed > MalformedLimit)
        BY <1>1
      <4> QED BY <4>1, <4>2, <4>3, Bounds
    <3>4. pc' \in {"stream", "failed"} /\ (pc' = "failed" => failure'.streamed = acc'.received)
      BY <1>1
    <3> QED BY <3>1, <3>2, <3>3, <3>4 DEF AccInv
  <2>4. ShownAfter(a)'
    BY <1>1, <1>2, <2>1 DEF ShownAfter, Reading
  <2> QED BY <1>1, <2>2, <2>3, <2>4 DEF GatewayInv, ScreenInv
<1> QED BY <1>5, <1>6

\* The request ends with an error: the screen keeps what it shows.
LEMMA ErrorPreserves ==
    ASSUME GatewayInv, pc # "idle", Conclude(Error),
           UNCHANGED <<acc, failure, streams, shown, cancelled, chats>>,
           attempt' \in 0 .. MaxRetries + 1, pinned' \in BOOLEAN, pinRejected' \in BOOLEAN, streamRetried' \in BOOLEAN,
           refusals' \in Nat
    PROVE  GatewayInv'
<1>1. pc' = "idle" /\ outcome' = Error
  BY DEF Conclude
<1>2. GatewayTypeOK'
  BY <1>1 DEF GatewayInv, GatewayTypeOK, Pcs, Error
<1>3. LadderInv' /\ AccInv'
  BY <1>1 DEF GatewayInv, LadderInv, AccInv
<1>4. ShownEndsWithReply'
  <2>1. PICK a \in Nat : ShownAfter(a)
    BY DEF GatewayInv, ScreenInv
  <2>2. \A i \in DOMAIN shown : shown[i] \in {a, Len(streams)}
    BY <2>1 DEF ShownAfter
  <2>3. Len(streams) \in Nat
    BY LenProperties DEF GatewayInv, GatewayTypeOK
  <2> QED BY <1>1, <2>2, <2>3 DEF ShownEndsWithReply, Error
<1> QED BY <1>1, <1>2, <1>3, <1>4 DEF GatewayInv, ScreenInv

\* A reply is the stream the accumulator has, and the end of the screen.
LEMMA EndPreserves ==
    ASSUME GatewayInv, End PROVE GatewayInv'
<1>1. /\ pc = "stream" /\ UNCHANGED <<cancelled, attempt, pinned, pinRejected, streamRetried, refusals,
                                      acc, streams, shown, chats>>
      /\ \/ pc' = "idle" /\ outcome' = Reply /\ UNCHANGED failure
         \/ UNCHANGED outcome /\ \E kind \in Kinds : Fail(kind)
  BY DEF End, Conclude, ladderVars, wireVars, Kinds
<1>2. CASE UNCHANGED outcome /\ \E kind \in Kinds : Fail(kind)
  BY <1>1, <1>2, ReadingPreserves DEF ladderVars, wireVars
<1>3. CASE pc' = "idle" /\ outcome' = Reply /\ UNCHANGED failure
  <2>1. Len(streams) \in Nat /\ Len(shown) \in Nat /\ DOMAIN shown = 1 .. Len(shown) /\ acc.tokens \in Nat
    BY LenProperties, AccumulatorFields DEF GatewayInv, GatewayTypeOK
  <2>2. PICK a \in Nat : ShownAfter(a)
    BY <1>1 DEF GatewayInv, ScreenInv
  <2>3. /\ a < Len(streams) /\ acc.tokens <= Len(shown)
        /\ \A i \in DOMAIN shown :
               shown[i] = IF i > Len(shown) - acc.tokens THEN Len(streams) ELSE a
    BY <1>1, <2>2 DEF ShownAfter, Reading
  <2>4. outcome'.tokens = acc.tokens /\ outcome'.attempt = Len(streams)
        /\ outcome' \in [reply : BOOLEAN, attempt : Nat, tokens : Nat]
    BY <1>3, <2>1 DEF Reply
  <2>5. \A i \in DOMAIN shown : (shown[i] = Len(streams)) <=> (i > Len(shown) - acc.tokens)
    BY <2>1, <2>3
  <2>6. \A i, j, k \in DOMAIN shown : ~(shown[i] < shown[j] /\ shown[j] < shown[k])
    BY <2>1, <2>3
  <2>7. ShownEndsWithReply'
    BY <1>1, <2>3, <2>4, <2>5, <2>6 DEF ShownEndsWithReply
  <2>8. GatewayTypeOK'
    BY <1>1, <1>3, <2>4 DEF GatewayInv, GatewayTypeOK, Pcs
  <2>9. LadderInv' /\ AccInv'
    BY <1>1, <1>3 DEF GatewayInv, LadderInv, AccInv
  <2> QED BY <1>3, <2>7, <2>8, <2>9 DEF GatewayInv, ScreenInv
<1> QED BY <1>1, <1>2, <1>3

\* Nothing of what failed is repeated over a screen that has two streams already.
LEMMA RetryPreserves ==
    ASSUME GatewayInv, pc \in {"failed", "pausing", "backoff"}, pc' \in {"send", "pausing", "backoff"},
           pc' = "send" => attempt' = attempt + 1 /\ attempt < MaxRetries,
           pc' # "send" => UNCHANGED attempt,
           UNCHANGED <<acc, failure, streams, shown, cancelled, chats, outcome>>,
           pinned' \in BOOLEAN, pinRejected' \in BOOLEAN, streamRetried' \in BOOLEAN, refusals' \in Nat,
           \/ pc = "failed" /\ ~failure.streamed /\ UNCHANGED streamRetried
           \/ pc = "failed" /\ ~streamRetried /\ streamRetried'
           \/ pc # "failed" /\ UNCHANGED streamRetried
    PROVE  GatewayInv'
<1>1. GatewayTypeOK'
  BY GatewayAssumption DEF GatewayInv, GatewayTypeOK, LadderInv, Pcs
<1>2. LadderInv'
  <2>1. Len(streams) \in Nat /\ attempt \in Nat /\ attempt <= MaxRetries /\ Len(streams) <= attempt + 1
        /\ outcome = NoOutcome
    BY LenProperties, GatewayAssumption DEF GatewayInv, GatewayTypeOK, LadderInv
  <2>2. CASE pc' = "send"
    BY <2>1, <2>2, GatewayAssumption DEF LadderInv
  <2>3. CASE pc' # "send"
    BY <2>1, <2>3 DEF LadderInv
  <2> QED BY <2>2, <2>3
<1>3. AccInv'
  BY DEF GatewayInv, AccInv
<1>4. PICK a \in Nat : ShownAfter(a)
  BY DEF GatewayInv, ScreenInv
<1>5. Len(streams) \in Nat /\ Len(shown) \in Nat /\ DOMAIN shown = 1 .. Len(shown) /\ acc.tokens \in Nat
      /\ shown \in Seq(1 .. MaxRetries + 1)
  BY LenProperties, AccumulatorFields DEF GatewayInv, GatewayTypeOK
<1>6. \E b \in Nat : ShownAfter(b)'
  <2>1. CASE pc = "failed" /\ ~failure.streamed /\ UNCHANGED streamRetried
    <3>1. acc.tokens = 0
      BY <1>5, <2>1 DEF GatewayInv, AccInv
    <3>2. (\A i \in DOMAIN shown : shown[i] = a) /\ (~streamRetried => Len(shown) = 0)
      BY <1>4, <1>5, <2>1, <3>1 DEF ShownAfter, Reading
    <3>3. ~streamRetried => shown = <<>>
      BY <1>5, <3>2, EmptySeq
    <3> QED BY <1>4, <2>1, <3>2, <3>3 DEF ShownAfter, Reading
  <2>2. CASE pc = "failed" /\ ~streamRetried /\ streamRetried'
    <3>1. \A i \in DOMAIN shown : shown[i] = Len(streams)
      BY <1>4, <1>5, <2>2 DEF ShownAfter, Reading
    <3>2. ShownAfter(Len(streams))'
      BY <1>5, <2>2, <3>1 DEF ShownAfter, Reading
    <3> QED BY <1>5, <3>2
  <2>3. CASE pc # "failed" /\ UNCHANGED streamRetried
    BY <1>4, <2>3 DEF ShownAfter, Reading
  <2> QED BY <2>1, <2>2, <2>3
<1> QED BY <1>1, <1>2, <1>3, <1>6 DEF GatewayInv, ScreenInv

\* Every rung of the ladder goes on, or ends with an error.
LEMMA LadderPreserves ==
    ASSUME GatewayInv, DropPin \/ Judge \/ Wake PROVE GatewayInv'
<1>0. /\ attempt \in 0 .. MaxRetries + 1 /\ pinned \in BOOLEAN /\ pinRejected \in BOOLEAN /\ streamRetried \in BOOLEAN
      /\ refusals \in Nat /\ (pc # "idle" => attempt <= MaxRetries)
  BY DEF GatewayInv, GatewayTypeOK, LadderInv
<1>1. CASE DropPin
  <2>1. /\ pc = "failed" /\ ~failure.streamed /\ UNCHANGED streamRetried
        /\ pinned' \in BOOLEAN /\ pinRejected' \in BOOLEAN /\ streamRetried' \in BOOLEAN /\ refusals' \in Nat
        /\ UNCHANGED <<acc, failure, streams, shown, cancelled, chats>>
    <3>1. /\ pc = "failed" /\ ~failure.streamed /\ UNCHANGED streamRetried
          /\ pinned' = FALSE /\ pinRejected' = TRUE /\ refusals' = refusals + 1
          /\ UNCHANGED <<acc, failure, streams, shown, cancelled, chats>>
      BY <1>1 DEF DropPin, PinRefused, wireVars
    <3>2. pinned' \in BOOLEAN /\ pinRejected' \in BOOLEAN /\ streamRetried' \in BOOLEAN
      BY <1>0, <3>1, Zenon
    <3>3. refusals' \in Nat
      <4>1. refusals' = refusals + 1
        BY <3>1
      <4> QED BY <1>0, <4>1
    <3> QED BY <3>1, <3>2, <3>3
  <2>2. CASE attempt < MaxRetries
    BY <1>0, <1>1, <2>1, <2>2, RetryPreserves DEF DropPin, NextAttempt
  <2>3. CASE ~(attempt < MaxRetries)
    BY <1>0, <1>1, <2>1, <2>3, ErrorPreserves, GatewayAssumption DEF DropPin, NextAttempt
  <2> QED BY <2>2, <2>3
<1>2. CASE Judge
  <2>1. /\ pc = "failed" /\ UNCHANGED <<attempt, pinned, pinRejected, refusals>>
        /\ UNCHANGED <<acc, failure, streams, shown, cancelled, chats>>
        /\ pinned' \in BOOLEAN /\ pinRejected' \in BOOLEAN
    BY <1>0, <1>2 DEF Judge, wireVars
  <2>2. CASE pc' = "pausing"
    BY <1>0, <1>2, <2>1, <2>2, RetryPreserves DEF Judge, Conclude
  <2>3. CASE pc' = "backoff"
    BY <1>0, <1>2, <2>1, <2>3, RetryPreserves DEF Judge, Conclude
  <2>4. CASE Conclude(Error) /\ UNCHANGED streamRetried
    BY <1>0, <2>1, <2>4, ErrorPreserves
  <2> QED BY <1>2, <2>2, <2>3, <2>4 DEF Judge
<1>3. CASE Wake
  <2>1. /\ pc \in {"pausing", "backoff"} /\ UNCHANGED <<pinned, pinRejected, streamRetried, refusals>>
        /\ UNCHANGED <<acc, failure, streams, shown, cancelled, chats>>
        /\ pinned' \in BOOLEAN /\ pinRejected' \in BOOLEAN /\ streamRetried' \in BOOLEAN
    BY <1>0, <1>3 DEF Wake, wireVars
  <2>2. CASE pc' = "send"
    BY <1>0, <1>3, <2>1, <2>2, RetryPreserves DEF Wake, NextAttempt, Conclude
  <2>3. CASE Conclude(Error) /\ attempt' \in 0 .. MaxRetries + 1
    BY <1>0, <2>1, <2>3, ErrorPreserves
  <2> QED BY <1>0, <1>3, <2>1, <2>2, <2>3, GatewayAssumption DEF Wake, NextAttempt
<1> QED BY <1>1, <1>2, <1>3

\* Every step keeps the invariant.
LEMMA GatewayPreserved == GatewayInv /\ [GatewayNext]_gatewayVars => GatewayInv'
<1> SUFFICES ASSUME GatewayInv, [GatewayNext]_gatewayVars PROVE GatewayInv'
  OBVIOUS
<1>1. ASSUME Headers PROVE GatewayInv'
  <2>1. "transport" \in Kinds /\ Statuses \subseteq Kinds
    BY DEF Kinds
  <2> QED BY <1>1, <2>1, ReadingPreserves DEF Headers
<1>2. ASSUME Break \/ Stall PROVE GatewayInv'
  <2>1. {"transport", "cancelled", "stalled"} \subseteq Kinds
    BY DEF Kinds
  <2> QED BY <1>2, <2>1, ReadingPreserves DEF Break, Stall
<1>3. ASSUME UNCHANGED gatewayVars PROVE GatewayInv'
  BY <1>3 DEF gatewayVars, ladderVars, wireVars, GatewayInv, GatewayTypeOK, LadderInv, AccInv,
              ScreenInv, ShownAfter, Reading, ShownEndsWithReply
<1> QED
  BY <1>1, <1>2, <1>3, ChatPreserves, CancelPreserves, SendPreserves, ReceivePreserves, EndPreserves,
     LadderPreserves DEF GatewayNext

\* The invariant holds for ever.
LEMMA GatewayInvariant == GatewaySpec => []GatewayInv
BY GatewayInitial, GatewayPreserved, PTL DEF GatewaySpec

\* At most two requests of one Chat carry text to the screen, and of a reply the screen's
\* last lines are the whole, however often requests are repeated.
THEOREM ScreenEndsWithReply == GatewaySpec => []ShownEndsWithReply
BY GatewayInvariant, ScreenIsEnough, PTL

-----------------------------------------------------------------------------
(* The client is one that gives one reply.                                 *)

\* The latest stream of the promise is the last one begun.
LEMMA LatestIsLast ==
    ASSUME GatewayInv PROVE One!Latest = Len(streams)
<1>1. /\ streams \in Seq(Nat) /\ Len(streams) \in Nat /\ DOMAIN streams = 1 .. Len(streams)
      /\ Len(streams) <= MaxRetries + 1
  BY LenProperties DEF GatewayInv, GatewayTypeOK
<1>2. CASE streams = <<>>
  BY <1>2 DEF One!Latest
<1>3. CASE streams # <<>>
  <2>1. Len(streams) \in One!Attempts
    BY <1>1, <1>3, EmptySeq, GatewayAssumption DEF One!Attempts
  <2>2. \A n \in One!Attempts : DOMAIN streams = 1 .. n => n = Len(streams)
    <3> SUFFICES ASSUME NEW n \in 1 .. MaxRetries + 1, DOMAIN streams = 1 .. n PROVE n = Len(streams)
      BY DEF One!Attempts
    <3>1. n \in Nat /\ n >= 1
      BY Bounds
    <3>2. n \in DOMAIN streams /\ Len(streams) \in 1 .. n
      <4>1. n \in 1 .. n
        BY <3>1
      <4>2. Len(streams) \in 1 .. Len(streams)
        BY <1>1, <2>1, Bounds DEF One!Attempts
      <4> QED BY <1>1, <4>1, <4>2
    <3> QED BY <1>1, <3>1, <3>2
  <2> QED BY <1>1, <1>3, <2>1, <2>2 DEF One!Latest
<1> QED BY <1>2, <1>3

\* Every step of the client is a step of the promise, or none of its business.
LEMMA ClientSimulates ==
    ASSUME GatewayInv, [GatewayNext]_gatewayVars PROVE [One!AbsNext]_(One!absVars)
<1> USE DEF One!absVars, ladderVars, wireVars
<1>0. /\ streams \in Seq(Nat) /\ Len(streams) \in Nat /\ DOMAIN streams = 1 .. Len(streams)
      /\ MaxRetries \in Nat /\ One!Latest = Len(streams)
  BY LenProperties, LatestIsLast, GatewayAssumption DEF GatewayInv, GatewayTypeOK
<1>1. CASE Chat
  BY <1>1 DEF Chat, One!Ask, One!AbsNext
<1>2. CASE Cancel
  BY <1>2 DEF Cancel, One!Cancel, One!AbsNext
<1>3. CASE Send
  <2>1. CASE cancelled
    BY <1>3, <2>1 DEF Send, Fail
  <2>2. CASE ~cancelled
    <3>1. /\ pc = "send" /\ pc' = "headers" /\ streams' = Append(streams, 0)
          /\ UNCHANGED <<cancelled, outcome>>
      BY <1>3, <2>2 DEF Send
    <3>2. Len(streams) < MaxRetries + 1
      BY <1>0, <3>1 DEF GatewayInv, GatewayTypeOK, LadderInv
    <3>3. Append(streams, 0) = [n \in 1 .. Len(streams) + 1 |-> IF n \in DOMAIN streams THEN streams[n] ELSE 0]
      <4>1. /\ Append(streams, 0) \in [1 .. Len(streams) + 1 -> Nat]
            /\ \A n \in 1 .. Len(streams) : Append(streams, 0)[n] = streams[n]
            /\ Append(streams, 0)[Len(streams) + 1] = 0
        <5>1. /\ Append(streams, 0) \in Seq(Nat) /\ Len(Append(streams, 0)) = Len(streams) + 1
              /\ \A n \in 1 .. Len(streams) : Append(streams, 0)[n] = streams[n]
              /\ Append(streams, 0)[Len(streams) + 1] = 0
          BY <1>0, AppendProperties
        <5>2. Append(streams, 0) \in [1 .. Len(Append(streams, 0)) -> Nat]
          BY <5>1, LenProperties
        <5> QED BY <5>1, <5>2
      <4>2. \A n \in 1 .. Len(streams) + 1 :
                Append(streams, 0)[n] = IF n \in DOMAIN streams THEN streams[n] ELSE 0
        BY <1>0, <4>1
      <4> QED BY <4>1, <4>2
    <3> QED BY <1>0, <2>2, <3>1, <3>2, <3>3 DEF One!Begin, One!AbsNext
  <2> QED BY <2>1, <2>2
<1>4. CASE Headers \/ Break \/ Stall
  BY <1>4 DEF Headers, Break, Stall, Fail
<1>5. ASSUME NEW line \in {"token", "usage", "malformed"}, Receive(line)
      PROVE  [One!AbsNext]_(One!absVars)
  <2>1. pc = "stream" /\ pc' \in {"stream", "failed"} /\ UNCHANGED <<cancelled, outcome>>
    BY <1>5 DEF Receive, Fail
  <2>2. CASE line = "token"
    <3>1. streams' = [streams EXCEPT ![Len(streams)] = @ + 1]
      BY <1>5, <2>2 DEF Receive
    <3>2. Len(streams) # 0
      BY <1>0, <2>1 DEF GatewayInv, AccInv
    <3> QED BY <1>0, <2>1, <3>1, <3>2 DEF One!Carry, One!AbsNext
  <2>3. CASE line # "token"
    <3>1. UNCHANGED streams
      BY <1>5, <2>3 DEF Receive
    <3> QED BY <2>1, <3>1
  <2> QED BY <2>2, <2>3
<1>6. CASE End
  <2>1. CASE Conclude(Reply)
    <3>1. /\ pc = "stream" /\ pc' = "idle" /\ outcome' = Reply /\ UNCHANGED <<cancelled, streams>>
      BY <1>6, <2>1 DEF End, Conclude
    <3>2. Len(streams) # 0 /\ Reply = [reply |-> TRUE, attempt |-> Len(streams), tokens |-> streams[Len(streams)]]
      <4>1. Len(streams) >= 1 /\ streams[Len(streams)] = acc.tokens
        BY <3>1 DEF GatewayInv, AccInv
      <4> QED BY <1>0, <4>1 DEF Reply
    <3> QED BY <1>0, <3>1, <3>2 DEF One!Conclude, One!AbsNext
  <2>2. CASE ~Conclude(Reply)
    BY <1>6, <2>2 DEF End, Fail
  <2> QED BY <2>1, <2>2
<1>7. ASSUME pc # "idle", Conclude(Error), UNCHANGED <<cancelled, streams>> PROVE One!AbsNext
  BY <1>7 DEF Conclude, Error, One!Conclude, One!AbsNext
<1>8. CASE DropPin
  BY <1>7, <1>8 DEF DropPin, NextAttempt
<1>9. CASE Judge
  BY <1>7, <1>9 DEF Judge
<1>10. CASE Wake
  BY <1>7, <1>10 DEF Wake, NextAttempt
<1>11. CASE UNCHANGED gatewayVars
  BY <1>11 DEF gatewayVars
<1> QED
  BY <1>1, <1>2, <1>3, <1>4, <1>5, <1>6, <1>8, <1>9, <1>10, <1>11 DEF GatewayNext

\* One request has one outcome, an error or the whole of its last stream, and nothing is
\* sent for a caller that has cancelled: the client implements OneReply.
THEOREM ClientImplementsOneReply == GatewaySpec => OneReplySpec
<1>1. GatewayInit => One!AbsInit
  BY DEF GatewayInit, One!AbsInit
<1>2. GatewayInv /\ [GatewayNext]_gatewayVars => [One!AbsNext]_(One!absVars)
  BY ClientSimulates
<1> QED BY <1>1, <1>2, GatewayInvariant, PTL DEF GatewaySpec, OneReplySpec, One!AbsSpec

-----------------------------------------------------------------------------
(* The usage of a stream.                                                   *)
LEMMA NumbersAreIntegers ==
    ASSUME NEW n \in [Fields -> UsageNumbers], NEW f \in Fields, IsValid(f, n)
    PROVE  n[f].value \in Int
<1>1. \A number \in UsageNumbers : number.state = "valid" => number.value \in Int
  BY StreamAssumption DEF UsageNumbers, Absent, Marked, Valid
<1> QED BY <1>1 DEF IsValid

\* What the totals of any frames say of themselves.
LEMMA TrustedAddsUp ==
    ASSUME NEW n \in [Fields -> UsageNumbers],
           IsValid("prompt", n), CacheRead(n).some, CacheMiss(n).some, ~Contradictory(n),
           IsValid("deepSeekMiss", n) => IsValid("deepSeekRead", n)
    PROVE  /\ CacheRead(n).value + CacheMiss(n).value = n["prompt"].value
           /\ CacheRead(n).value >= 0 /\ CacheMiss(n).value >= 0
<1>1. n["prompt"].value \in Int
  BY NumbersAreIntegers DEF Fields
<1>2. CASE IsValid("deepSeekMiss", n)
  <2>1. CacheMiss(n).value = n["deepSeekMiss"].value
    BY <1>2 DEF CacheMiss, Some
  <2>2. CacheRead(n).value = n["deepSeekRead"].value
    BY <1>2 DEF CacheRead, Some
  <2>3. n["deepSeekRead"].value + n["deepSeekMiss"].value = n["prompt"].value
    BY <1>2 DEF Contradictory
  <2>4. n["deepSeekRead"].value \in Int /\ n["deepSeekMiss"].value \in Int
    BY <1>2, NumbersAreIntegers DEF Fields
  <2>5. ~(CacheRead(n).value < 0) /\ ~(CacheMiss(n).value < 0)
    BY DEF Contradictory
  <2> QED BY <2>1, <2>2, <2>3, <2>4, <2>5
<1>3. CASE ~IsValid("deepSeekMiss", n)
  <2>1. CacheMiss(n).value = Difference(n)
    BY <1>3 DEF CacheMiss, Some, None
  <2>2. CacheRead(n).value \in Int
    BY NumbersAreIntegers DEF CacheRead, Some, None, Fields
  <2>3. ~(CacheRead(n).value < 0) /\ ~(CacheMiss(n).value < 0)
    BY DEF Contradictory
  <2>4. CacheMiss(n).value = n["prompt"].value - CacheRead(n).value
    BY <2>1 DEF Difference
  <2> QED BY <1>1, <2>2, <2>3, <2>4
<1> QED BY <1>2, <1>3

LEMMA UsageNumbersKept ==
    ReplySpec => [](numbers \in [Fields -> UsageNumbers])
<1>1. ReplyInit => numbers \in [Fields -> UsageNumbers]
  BY DEF ReplyInit, UsageNumbers
<1>2. numbers \in [Fields -> UsageNumbers] /\ [ReplyNext]_replyVars =>
         (numbers \in [Fields -> UsageNumbers])'
  BY DEF ReplyNext, MergeUsage, IngestCall, Finish, Write, Rescue, replyVars
<1> QED BY <1>1, <1>2, PTL DEF ReplySpec

\* A usage that is not marked contradictory adds up, for every range of integers, every
\* report of a provider and every order in which its frames arrive.
THEOREM UsageAlwaysAddsUp == ReplySpec => []UsageAddsUp
<1>1. numbers \in [Fields -> UsageNumbers] => UsageAddsUp
  <2> SUFFICES ASSUME numbers \in [Fields -> UsageNumbers]
               PROVE  UsageAddsUp
    OBVIOUS
  <2>1. /\ Usage(numbers).prompt.some => IsValid("prompt", numbers)
        /\ IsValid("prompt", numbers) => Usage(numbers).prompt.value = numbers["prompt"].value
        /\ Usage(numbers).read = CacheRead(numbers) /\ Usage(numbers).miss = CacheMiss(numbers)
        /\ Usage(numbers).contradictory = Contradictory(numbers)
    BY DEF Usage, Some, None
  <2> QED BY <2>1, TrustedAddsUp DEF UsageAddsUp
<1> QED BY <1>1, UsageNumbersKept, PTL

-----------------------------------------------------------------------------
(* The usage ledger: what the callbacks show never goes back.              *)

\* A sum over a sequence of numbers is the last value of a run that adds them one by one.
LEMMA SumIsRun ==
    ASSUME NEW seq \in Seq(Nat)
    PROVE  \E run \in [0 .. Len(seq) -> Nat] :
              /\ run[0] = 0 /\ \A i \in 1 .. Len(seq) : run[i] = run[i - 1] + seq[i]
              /\ AddedUp(seq) = run[Len(seq)]
<1> DEFINE n == Len(seq)
           step == [i \in 1 .. n |-> [a \in Nat |-> a + seq[i]]]
           body(g) == [s \in SUBSET (1 .. n) |-> IF s = {} THEN 0 ELSE g[s \ {Max(s)}] + seq[Max(s)]]
           iter == CHOOSE iter : iter = body(iter)
<1>1. n \in Nat /\ DOMAIN seq = 1 .. n /\ \A i \in 1 .. n : seq[i] \in Nat
  BY LenProperties, ElementOfSeq
<1>2. AddedUp(seq) = iter[1 .. n]
  BY <1>1 DEF AddedUp, FoldLeft, MapThenFoldSet
<1> HIDE DEF n
<1>3. \A i \in 1 .. n : step[i] \in [Nat -> Nat]
  BY <1>1
<1>4. \A i \in 1 .. n : \A a \in Nat : step[i][a] = a + seq[i]
  BY <1>1
<1> HIDE DEF step
<1>5. \E g : g = body(g)
  <2>1. FoldOf(0, step, n, Nat) # {}
    BY <1>1, <1>3, FoldExists
  <2>2. PICK g \in [SUBSET (1 .. n) -> Nat] :
            \A s \in SUBSET (1 .. n) : g[s] = IF s = {} THEN 0 ELSE step[Max(s)][g[s \ {Max(s)}]]
    BY <2>1 DEF FoldOf
  <2>3. ASSUME NEW s \in SUBSET (1 .. n)
        PROVE  g[s] = IF s = {} THEN 0 ELSE g[s \ {Max(s)}] + seq[Max(s)]
    <3>1. CASE s # {}
      <4>1. Max(s) \in 1 .. n /\ s \ {Max(s)} \in SUBSET (1 .. n)
        BY <1>1, <3>1, MaxIn
      <4> QED BY <1>4, <2>2, <3>1, <4>1
    <3> QED BY <2>2, <3>1
  <2>4. g = body(g)
    BY <2>3
  <2> QED BY <2>4
<1>6. iter = body(iter)
  <2> HIDE DEF body
  <2> QED BY <1>5
<1> HIDE DEF iter
<1>7. PICK run \in [0 .. n -> Nat] : run[0] = 0 /\ \A i \in 1 .. n : run[i] = step[i][run[i - 1]]
  <2> HIDE DEF body
  <2>1. 0 \in Nat
    OBVIOUS
  <2>2. RunOf(0, step, n, Nat) # {}
    BY <1>1, <1>3, <2>1, RunExists
  <2> QED BY <2>2 DEF RunOf
<1>8. iter[1 .. n] = run[n]
  <2> DEFINE P == {m \in 0 .. n : iter[1 .. m] = run[m]}
  <2>1. 0 \in P
    <3>1. 1 .. 0 = {} /\ {} \in SUBSET (1 .. n) /\ 0 \in 0 .. n
      BY <1>1, MaxIn
    <3>2. iter[{}] = 0
      BY <1>6, <3>1
    <3> QED BY <1>7, <3>1, <3>2
  <2>2. ASSUME NEW m \in 0 .. n, m < n, m \in P
        PROVE  m + 1 \in P
    <3>1. m + 1 \in 1 .. n /\ (m + 1) - 1 = m /\ m + 1 \in 0 .. n
      <4> HIDE DEF P, n
      <4> QED BY <1>1, <2>2
    <3>2. /\ Max(1 .. m + 1) = m + 1 /\ (1 .. m + 1) \ {m + 1} = 1 .. m
          /\ 1 .. m + 1 \in SUBSET (1 .. n) /\ 1 .. m + 1 # {}
      BY <1>1, <3>1, MaxIn
    <3>3. iter[1 .. m + 1] = iter[1 .. m] + seq[m + 1]
      BY <1>6, <3>2
    <3>4. run[m] \in Nat /\ run[m + 1] = step[m + 1][run[m]]
      BY <1>7, <3>1
    <3> QED BY <1>4, <2>2, <3>1, <3>3, <3>4
  <2>3. 0 .. n \subseteq P
    <3> HIDE DEF P
    <3> QED BY <1>1, <2>1, <2>2, UpTo
  <2> QED BY <1>1, <2>3
<1>9. \A i \in 1 .. n : run[i - 1] \in Nat /\ run[i] = run[i - 1] + seq[i]
  <2> HIDE DEF body
  <2>1. \A i \in 1 .. n : i - 1 \in 0 .. n
    BY <1>1
  <2> QED BY <1>4, <1>7, <2>1
<1> QED BY <1>2, <1>7, <1>8, <1>9 DEF n

\* One number more adds that number.
LEMMA SumGrows ==
    ASSUME NEW seq \in Seq(Nat), NEW m \in Nat
    PROVE  AddedUp(seq) \in Nat /\ AddedUp(Append(seq, m)) = AddedUp(seq) + m
<1> DEFINE longer == Append(seq, m)
           n == Len(seq)
<1>1. /\ n \in Nat /\ longer \in Seq(Nat) /\ Len(longer) = n + 1
      /\ \A i \in 1 .. n : longer[i] = seq[i]
      /\ longer[n + 1] = m
  BY AppendProperties, LenProperties
<1> HIDE DEF longer
<1>2. PICK short \in [0 .. n -> Nat] :
          /\ short[0] = 0 /\ \A i \in 1 .. n : short[i] = short[i - 1] + seq[i]
          /\ AddedUp(seq) = short[n]
  BY SumIsRun
<1>3. PICK long \in [0 .. n + 1 -> Nat] :
          /\ long[0] = 0 /\ \A i \in 1 .. n + 1 : long[i] = long[i - 1] + longer[i]
          /\ AddedUp(longer) = long[n + 1]
  BY <1>1, SumIsRun
<1> HIDE DEF n
<1>4. long[n] = short[n]
  <2> DEFINE P == {k \in 0 .. n : long[k] = short[k]}
  <2>1. 0 \in P
    BY <1>1, <1>2, <1>3
  <2>2. ASSUME NEW k \in 0 .. n, k < n, k \in P
        PROVE  k + 1 \in P
    <3>1. k + 1 \in 1 .. n /\ k + 1 \in 1 .. n + 1 /\ (k + 1) - 1 = k /\ k + 1 \in 0 .. n
      BY <1>1, <2>2
    <3>2. long[k + 1] = long[k] + longer[k + 1] /\ short[k + 1] = short[k] + seq[k + 1]
      BY <1>2, <1>3, <3>1
    <3> QED BY <1>1, <2>2, <3>1, <3>2
  <2>3. 0 .. n \subseteq P
    <3> HIDE DEF P
    <3> QED BY <1>1, <2>1, <2>2, UpTo
  <2> QED BY <1>1, <2>3
<1>5. long[n + 1] = long[n] + longer[n + 1]
  <2>1. n + 1 \in 1 .. n + 1 /\ (n + 1) - 1 = n
    BY <1>1
  <2> QED BY <1>3, <2>1
<1>6. short[n] \in Nat
  BY <1>1, <1>2
<1> QED BY <1>1, <1>2, <1>3, <1>4, <1>5, <1>6 DEF longer

\* What a usage reports is a count, or nothing; providers do not report negative counts.
Counted == [some : BOOLEAN, value : Nat]
UsagesAreCounts == \A u \in Usages : u.prompt \in Counted /\ u.read \in Counted /\ u.miss \in Counted

\* The records are a log of such usages.
IsLog(seq) == \E S : seq \in Seq(S) /\ \A r \in S : r.usage \in Usages

\* The sums a snapshot is made of, of the values of one record.
Values == {"prompt", "read", "miss"}
Counts(r) ==
    [v \in Values |-> CASE v = "prompt" -> Prompt(r)
                        [] v = "read"   -> IF Paired(r) THEN Read(r) ELSE 0
                        [] v = "miss"   -> IF Paired(r) THEN Miss(r) ELSE 0]
TotalOf(seq, v) == AddedUp([i \in DOMAIN seq |-> Counts(seq[i])[v]])

LEMMA CountsAreNumbers ==
    ASSUME UsagesAreCounts, NEW r, r.usage \in Usages, NEW v \in Values
    PROVE  Counts(r)[v] \in Nat
<1>1. r.usage.prompt \in Counted /\ r.usage.read \in Counted /\ r.usage.miss \in Counted
  BY DEF UsagesAreCounts
<1>2. Prompt(r) \in Nat /\ Read(r) \in Nat /\ Miss(r) \in Nat
  BY <1>1 DEF Prompt, Read, Miss, Value, Counted
<1> HIDE DEF Counts
<1>3. /\ Counts(r)["prompt"] = Prompt(r)
      /\ Counts(r)["read"] = IF Paired(r) THEN Read(r) ELSE 0
      /\ Counts(r)["miss"] = IF Paired(r) THEN Miss(r) ELSE 0
  BY DEF Counts, Values
<1> QED BY <1>2, <1>3 DEF Values

LEMMA SumsOfLog ==
    /\ \A seq : Total(seq, Prompt) = TotalOf(seq, "prompt")
    /\ \A seq : Total(seq, LAMBDA r : IF Paired(r) THEN Read(r) ELSE 0) = TotalOf(seq, "read")
    /\ \A seq : Total(seq, LAMBDA r : IF Paired(r) THEN Miss(r) ELSE 0) = TotalOf(seq, "miss")
<1>1. ASSUME NEW seq
      PROVE  /\ [i \in DOMAIN seq |-> Prompt(seq[i])] = [i \in DOMAIN seq |-> Counts(seq[i])["prompt"]]
             /\ [i \in DOMAIN seq |-> IF Paired(seq[i]) THEN Read(seq[i]) ELSE 0]
                = [i \in DOMAIN seq |-> Counts(seq[i])["read"]]
             /\ [i \in DOMAIN seq |-> IF Paired(seq[i]) THEN Miss(seq[i]) ELSE 0]
                = [i \in DOMAIN seq |-> Counts(seq[i])["miss"]]
  BY DEF Counts, Values
<1> QED BY <1>1 DEF Total, TotalOf

\* One record more adds what it counts.
LEMMA TotalsGrow ==
    ASSUME UsagesAreCounts, NEW S, NEW seq \in Seq(S), \A r \in S : r.usage \in Usages,
           NEW new \in S, NEW v \in Values
    PROVE  /\ TotalOf(seq, v) \in Nat
           /\ TotalOf(Append(seq, new), v) = TotalOf(seq, v) + Counts(new)[v]
<1> DEFINE counted == [i \in DOMAIN seq |-> Counts(seq[i])[v]]
           longer == Append(seq, new)
           more == [i \in DOMAIN longer |-> Counts(longer[i])[v]]
<1>1. /\ Len(seq) \in Nat /\ DOMAIN seq = 1 .. Len(seq) /\ \A i \in 1 .. Len(seq) : seq[i] \in S
  BY LenProperties, ElementOfSeq
<1>2. /\ longer \in Seq(S) /\ Len(longer) = Len(seq) + 1
      /\ \A i \in 1 .. Len(seq) : longer[i] = seq[i]
      /\ longer[Len(seq) + 1] = new
  BY AppendProperties
<1>3. DOMAIN longer = 1 .. Len(seq) + 1
  BY <1>2, LenProperties
<1> HIDE DEF longer
<1>4. \A r \in S : Counts(r)[v] \in Nat
  BY CountsAreNumbers
<1>5. counted \in Seq(Nat) /\ Len(counted) = Len(seq)
  <2>1. counted \in [1 .. Len(seq) -> Nat]
    BY <1>1, <1>4
  <2> HIDE DEF counted
  <2> QED BY <1>1, <2>1, SeqDef, LenProperties
<1>6. more = Append(counted, Counts(new)[v])
  <2> DEFINE appended == Append(counted, Counts(new)[v])
  <2>1. Counts(new)[v] \in Nat
    BY <1>4
  <2>2. \A i \in 1 .. Len(seq) : counted[i] = Counts(seq[i])[v]
    BY <1>1
  <2>3. more \in [1 .. Len(seq) + 1 -> Nat] /\ \A i \in 1 .. Len(seq) + 1 : more[i] = Counts(longer[i])[v]
    <3>1. \A i \in 1 .. Len(seq) + 1 : longer[i] \in S
      BY <1>2, <1>3, ElementOfSeq
    <3> QED BY <1>3, <1>4, <3>1
  <2> HIDE DEF counted, more
  <2>4. /\ appended \in Seq(Nat) /\ Len(appended) = Len(seq) + 1
        /\ \A i \in 1 .. Len(seq) : appended[i] = counted[i]
        /\ appended[Len(seq) + 1] = Counts(new)[v]
    BY <1>5, <2>1, AppendProperties
  <2>5. DOMAIN appended = 1 .. Len(seq) + 1
    BY <2>4, LenProperties
  <2> HIDE DEF appended
  <2>6. \A i \in 1 .. Len(seq) + 1 : more[i] = appended[i]
    <3>1. \A i \in 1 .. Len(seq) + 1 : i \in 1 .. Len(seq) \/ i = Len(seq) + 1
      BY <1>1
    <3> QED BY <1>2, <2>2, <2>3, <2>4, <3>1
  <2>7. appended \in [1 .. Len(seq) + 1 -> Nat]
    BY <2>4, <2>5, ElementOfSeq
  <2>8. more = appended
    BY <2>3, <2>6, <2>7
  <2> QED BY <2>8 DEF appended
<1>7. TotalOf(seq, v) = AddedUp(counted) /\ TotalOf(longer, v) = AddedUp(more)
  BY DEF TotalOf
<1> HIDE DEF counted, more
<1>8. Counts(new)[v] \in Nat
  BY <1>4
<1> QED BY <1>5, <1>6, <1>7, <1>8, SumGrows DEF longer

Snapshots == [task : Nat, prompt : Int, read : Int, miss : Int]

\* One snapshot may be shown before another.
Before(x, y) ==
    /\ x.task <= y.task
    /\ x.task = y.task => x.prompt <= y.prompt /\ x.read <= y.read /\ x.miss <= y.miss

LEMMA BeforeIsTransitive ==
    \A x, y, z \in Snapshots : Before(x, y) /\ Before(y, z) => Before(x, z)
  BY DEF Snapshots, Before

\* A snapshot by its sums.
LEMMA SnapshotIs ==
    ASSUME UsagesAreCounts, task \in Nat, NEW S, NEW seq \in Seq(S), \A r \in S : r.usage \in Usages,
           NEW from \in 0 .. Len(seq)
    PROVE  LET now == [v \in Values |-> TotalOf(seq, v)]
               then == [v \in Values |-> TotalOf(SubSeq(seq, 1, from), v)]
           IN  /\ now \in [Values -> Nat] /\ then \in [Values -> Nat]
               /\ Snapshot(seq, from) \in Snapshots /\ Snapshot(seq, from).task = task
               /\ Snapshot(seq, from).prompt =
                      IF now["prompt"] > then["prompt"] THEN now["prompt"] - then["prompt"] ELSE 0
               /\ Snapshot(seq, from).read = now["read"] - then["read"]
               /\ Snapshot(seq, from).miss = now["miss"] - then["miss"]
<1> DEFINE earlier == SubSeq(seq, 1, from)
           now == [v \in Values |-> TotalOf(seq, v)]
           then == [v \in Values |-> TotalOf(earlier, v)]
<1>1. earlier \in Seq(S)
  <2>1. Len(seq) \in Nat /\ from \in Nat /\ from <= Len(seq) /\ \A i \in 1 .. from : seq[i] \in S
    BY LenProperties, ElementOfSeq
  <2> QED BY <2>1, SubSeqProperties
<1> HIDE DEF earlier
<1>2. ASSUME NEW s \in Seq(S), NEW v \in Values
      PROVE  TotalOf(s, v) \in Nat
  <2>1. CASE S = {}
    <3>1. s = <<>>
      <4>1. \A i \in 1 .. Len(s) : s[i] \in S
        BY ElementOfSeq
      <4>2. Len(s) \in Nat
        BY LenProperties
      <4>3. Len(s) = 0
        BY <2>1, <4>1, <4>2
      <4> QED BY <4>3, EmptySeq
    <3>2. [i \in DOMAIN s |-> Counts(s[i])[v]] = <<>>
      BY <3>1
    <3>3. <<>> \in Seq(Nat)
      OBVIOUS
    <3> QED BY <3>2, <3>3, SumGrows DEF TotalOf
  <2>2. CASE S # {}
    <3>1. PICK new \in S : TRUE
      BY <2>2
    <3> QED BY <1>2, <3>1, TotalsGrow
  <2> QED BY <2>1, <2>2
<1>3. now \in [Values -> Nat] /\ then \in [Values -> Nat]
  BY <1>1, <1>2
<1>4. /\ now["prompt"] = AggregateUsage(seq).prompt /\ now["read"] = AggregateUsage(seq).pairedRead
      /\ now["miss"] = AggregateUsage(seq).pairedMiss
      /\ then["prompt"] = AggregateUsage(earlier).prompt
      /\ then["read"] = AggregateUsage(earlier).pairedRead
      /\ then["miss"] = AggregateUsage(earlier).pairedMiss
  BY SumsOfLog DEF AggregateUsage, Values
<1> HIDE DEF now, then
<1>5. Snapshot(seq, from) =
        [task |-> task, prompt |-> IF now["prompt"] > then["prompt"] THEN now["prompt"] - then["prompt"] ELSE 0,
         read |-> now["read"] - then["read"], miss |-> now["miss"] - then["miss"]]
  BY <1>4 DEF Snapshot, earlier
<1>6. \A v \in Values : now[v] \in Nat /\ then[v] \in Nat
  BY <1>3
<1>7. Snapshot(seq, from) \in Snapshots
  BY <1>5, <1>6, SMTT(30) DEF Snapshots, Values
<1> QED BY <1>3, <1>5, <1>7 DEF now, then, earlier

\* A record more takes nothing from a snapshot.
LEMMA SnapshotsGrow ==
    ASSUME UsagesAreCounts, task \in Nat, IsLog(records), start \in 0 .. Len(records),
           NEW new, new.usage \in Usages
    PROVE  /\ Snapshot(records, start) \in Snapshots
           /\ Snapshot(Append(records, new), start) \in Snapshots
           /\ Snapshot(Append(records, new), start).task = task
           /\ Before(Snapshot(records, start), Snapshot(Append(records, new), start))
<1>1. PICK R : records \in Seq(R) /\ \A r \in R : r.usage \in Usages
  BY DEF IsLog
<1> DEFINE S == R \union {new}
           longer == Append(records, new)
<1>2. records \in Seq(S) /\ \A r \in S : r.usage \in Usages
  <2>1. Len(records) \in Nat /\ records \in [1 .. Len(records) -> R]
    BY <1>1, LenProperties
  <2>2. records \in [1 .. Len(records) -> S]
    BY <2>1
  <2>3. records \in Seq(S)
    <3> HIDE DEF S
    <3> QED BY <2>1, <2>2, SeqDef
  <2> QED BY <1>1, <2>3
<1>3. new \in S
  OBVIOUS
<1> HIDE DEF S
<1>4. /\ longer \in Seq(S) /\ Len(longer) = Len(records) + 1
      /\ \A i \in 1 .. Len(records) : longer[i] = records[i]
      /\ Len(records) \in Nat
  BY <1>2, <1>3, AppendProperties, LenProperties
<1>5. SubSeq(longer, 1, start) = SubSeq(records, 1, start)
  <2> HIDE DEF longer
  <2>1. start \in Nat /\ start <= Len(records) /\ start <= Len(longer)
    BY <1>4
  <2>2. \A i \in 1 .. start : records[i] \in S /\ longer[i] = records[i] /\ longer[i] \in S
    BY <1>2, <1>4, <2>1, ElementOfSeq
  <2>3. /\ SubSeq(records, 1, start) \in Seq(S) /\ Len(SubSeq(records, 1, start)) = start
        /\ \A i \in 1 .. start : SubSeq(records, 1, start)[i] = records[i]
    <3>1. start - 1 + 1 = start /\ \A i \in 1 .. start : 1 + i - 1 = i
      BY <2>1
    <3> QED BY <1>2, <2>1, <2>2, <3>1, SubSeqProperties
  <2>4. /\ SubSeq(longer, 1, start) \in Seq(S) /\ Len(SubSeq(longer, 1, start)) = start
        /\ \A i \in 1 .. start : SubSeq(longer, 1, start)[i] = longer[i]
    <3>1. start - 1 + 1 = start /\ \A i \in 1 .. start : 1 + i - 1 = i
      BY <2>1
    <3> QED BY <1>4, <2>1, <2>2, <3>1, SubSeqProperties
  <2> QED BY <2>2, <2>3, <2>4, SeqEqual
<1>6. \A v \in Values : /\ TotalOf(records, v) \in Nat /\ TotalOf(longer, v) \in Nat
                        /\ TotalOf(records, v) <= TotalOf(longer, v)
  <2>1. ASSUME NEW v \in Values
        PROVE  Counts(new)[v] \in Nat
    BY CountsAreNumbers
  <2>2. ASSUME NEW v \in Values
        PROVE  TotalOf(records, v) \in Nat /\ TotalOf(longer, v) = TotalOf(records, v) + Counts(new)[v]
    BY <1>2, <1>3, TotalsGrow
  <2> HIDE DEF longer
  <2> QED BY <2>1, <2>2
<1> HIDE DEF longer
<1>7. start \in 0 .. Len(longer)
  BY <1>4
<1> DEFINE now == [v \in Values |-> TotalOf(records, v)]
           soon == [v \in Values |-> TotalOf(longer, v)]
           then == [v \in Values |-> TotalOf(SubSeq(records, 1, start), v)]
           x == Snapshot(records, start)
           y == Snapshot(longer, start)
<1>8. /\ now \in [Values -> Nat] /\ then \in [Values -> Nat]
      /\ x \in Snapshots /\ x.task = task
      /\ x.prompt = IF now["prompt"] > then["prompt"] THEN now["prompt"] - then["prompt"] ELSE 0
      /\ x.read = now["read"] - then["read"] /\ x.miss = now["miss"] - then["miss"]
  BY <1>2, SnapshotIs
<1>9. /\ soon \in [Values -> Nat]
      /\ y \in Snapshots /\ y.task = task
      /\ y.prompt = IF soon["prompt"] > then["prompt"] THEN soon["prompt"] - then["prompt"] ELSE 0
      /\ y.read = soon["read"] - then["read"] /\ y.miss = soon["miss"] - then["miss"]
  <2> DEFINE before == [v \in Values |-> TotalOf(SubSeq(longer, 1, start), v)]
  <2>1. /\ soon \in [Values -> Nat]
        /\ y \in Snapshots /\ y.task = task
        /\ y.prompt = IF soon["prompt"] > before["prompt"] THEN soon["prompt"] - before["prompt"] ELSE 0
        /\ y.read = soon["read"] - before["read"] /\ y.miss = soon["miss"] - before["miss"]
    BY <1>2, <1>4, <1>7, SnapshotIs
  <2>2. before = then
    BY <1>5
  <2> HIDE DEF before, then, soon, y
  <2> QED BY <2>1, <2>2
<1>10. \A v \in Values : now[v] <= soon[v]
  BY <1>6
<1> HIDE DEF now, soon, then, x, y
<1>11. Before(x, y)
  <2>1. /\ now["prompt"] \in Nat /\ now["read"] \in Nat /\ now["miss"] \in Nat
        /\ soon["prompt"] \in Nat /\ soon["read"] \in Nat /\ soon["miss"] \in Nat
        /\ then["prompt"] \in Nat /\ then["read"] \in Nat /\ then["miss"] \in Nat
        /\ now["prompt"] <= soon["prompt"] /\ now["read"] <= soon["read"] /\ now["miss"] <= soon["miss"]
    BY <1>8, <1>9, <1>10 DEF Values
  <2>2. x.prompt <= y.prompt
    BY <1>8, <1>9, <2>1, SMTT(30)
  <2>3. x.read <= y.read /\ x.miss <= y.miss
    BY <1>8, <1>9, <2>1, SMTT(30)
  <2> QED BY <1>8, <1>9, <2>2, <2>3 DEF Before
<1> QED BY <1>8, <1>9, <1>11 DEF x, y, longer

\* What is on its way to the callback, oldest first: what a recorder has taken, then
\* the queue.
LedgerInv ==
    /\ IsLog(records) /\ start \in 0 .. Len(records) /\ task \in Nat
    /\ queue \in Seq(Snapshots) /\ emitted \in Seq(Snapshots)
    /\ pending \in [Recorders -> Seq(Snapshots)]
    /\ draining \in SUBSET Recorders /\ emitting \in BOOLEAN
    /\ emitting = (draining # {})
    /\ \A p, q \in Recorders : p \in draining /\ q \in draining => p = q
    /\ \A p \in Recorders : pending[p] = <<>> \/ (p \in draining /\ Len(pending[p]) = 1)

OrderInv ==
    /\ \A i, j \in DOMAIN emitted : i < j => Before(emitted[i], emitted[j])
    /\ \A i, j \in DOMAIN queue : i < j => Before(queue[i], queue[j])
    /\ \A i \in DOMAIN emitted, j \in DOMAIN queue : Before(emitted[i], queue[j])
    /\ \A p \in Recorders : pending[p] # <<>> =>
           /\ \A i \in DOMAIN emitted : Before(emitted[i], pending[p][1])
           /\ \A j \in DOMAIN queue : Before(pending[p][1], queue[j])

Current == Snapshot(records, start)

\* Nothing shown or to be shown is ahead of the ledger.
AheadInv ==
    /\ \A i \in DOMAIN emitted : Before(emitted[i], Current)
    /\ \A j \in DOMAIN queue : Before(queue[j], Current)
    /\ \A p \in Recorders : pending[p] # <<>> => Before(pending[p][1], Current)

EmissionInv == LedgerInv /\ OrderInv /\ AheadInv

\* Of a snapshot to be shown, wherever it is.
LEMMA ToShowTypes ==
    ASSUME LedgerInv
    PROVE  /\ \A i \in DOMAIN emitted : emitted[i] \in Snapshots
           /\ \A i \in DOMAIN queue : queue[i] \in Snapshots
           /\ \A p \in Recorders : pending[p] # <<>> => pending[p][1] \in Snapshots
           /\ Len(emitted) \in Nat /\ DOMAIN emitted = 1 .. Len(emitted)
           /\ Len(queue) \in Nat /\ DOMAIN queue = 1 .. Len(queue)
<1>1. /\ Len(emitted) \in Nat /\ DOMAIN emitted = 1 .. Len(emitted)
      /\ Len(queue) \in Nat /\ DOMAIN queue = 1 .. Len(queue)
      /\ \A i \in DOMAIN emitted : emitted[i] \in Snapshots
      /\ \A i \in DOMAIN queue : queue[i] \in Snapshots
  BY LenProperties, ElementOfSeq DEF LedgerInv
<1>2. ASSUME NEW p \in Recorders, pending[p] # <<>>
      PROVE  pending[p][1] \in Snapshots
  <2>1. pending[p] \in Seq(Snapshots) /\ Len(pending[p]) = 1
    BY <1>2 DEF LedgerInv
  <2> QED BY <2>1, ElementOfSeq
<1> QED BY <1>1, <1>2

\* A recorder queues a snapshot of the longer ledger.
LEMMA EnqueuePreserves ==
    ASSUME UsagesAreCounts, EmissionInv, NEW p \in Recorders, NEW new, new.usage \in Usages,
           records' = Append(records, new), Enqueue(p),
           UNCHANGED <<start, task, pending, emitted>>
    PROVE  EmissionInv'
<1> DEFINE next == Snapshot(Append(records, new), start)
<1>1. /\ Current \in Snapshots /\ next \in Snapshots /\ next.task = task
      /\ Before(Current, next)
  BY SnapshotsGrow DEF EmissionInv, LedgerInv, Current
<1>2. Current' = next
  <2>1. \A seq, from : Snapshot(seq, from)' = Snapshot(seq, from)
    BY DEF Snapshot
  <2> QED BY <2>1 DEF Current
<1>3. /\ queue' = Append(queue, next) /\ emitting' = TRUE
      /\ draining' = IF emitting THEN draining ELSE draining \cup {p}
  <2>1. \A seq, from : Snapshot(seq, from)' = Snapshot(seq, from)
    BY DEF Snapshot
  <2> QED BY <1>2 DEF Enqueue, Snapshot, AggregateUsage
<1> HIDE DEF next
<1>4. /\ IsLog(records)' /\ (start \in 0 .. Len(records))'
  <2>1. PICK R : records \in Seq(R) /\ \A r \in R : r.usage \in Usages
    BY DEF EmissionInv, LedgerInv, IsLog
  <2> DEFINE S == R \union {new}
  <2>2. Len(records) \in Nat /\ records \in [1 .. Len(records) -> R]
    BY <2>1, LenProperties
  <2>3. records \in [1 .. Len(records) -> S]
    BY <2>2
  <2>4. /\ records \in Seq(S) /\ new \in S /\ \A r \in S : r.usage \in Usages
    <3>1. new \in S /\ \A r \in S : r.usage \in Usages
      BY <2>1
    <3> HIDE DEF S
    <3> QED BY <2>2, <2>3, <3>1, SeqDef
  <2> HIDE DEF S
  <2>5. records' \in Seq(S) /\ Len(records') = Len(records) + 1
    BY <2>4, AppendProperties
  <2>6. IsLog(records')
    BY <2>4, <2>5 DEF IsLog
  <2>7. start' \in 0 .. Len(records')
    BY <2>2, <2>5 DEF EmissionInv, LedgerInv
  <2> QED BY <2>6, <2>7 DEF IsLog
<1>5. /\ queue' \in Seq(Snapshots) /\ DOMAIN queue' = 1 .. Len(queue) + 1
      /\ \A i \in 1 .. Len(queue) : queue'[i] = queue[i]
      /\ queue'[Len(queue) + 1] = next
      /\ DOMAIN queue = 1 .. Len(queue) /\ Len(queue) \in Nat
  <2> DEFINE longer == Append(queue, next)
  <2>1. queue \in Seq(Snapshots) /\ Len(queue) \in Nat /\ DOMAIN queue = 1 .. Len(queue)
    BY LenProperties DEF EmissionInv, LedgerInv
  <2>2. /\ longer \in Seq(Snapshots) /\ Len(longer) = Len(queue) + 1
        /\ \A i \in 1 .. Len(queue) : longer[i] = queue[i]
        /\ longer[Len(queue) + 1] = next
    BY <1>1, <2>1, AppendProperties
  <2>3. DOMAIN longer = 1 .. Len(longer)
    BY <2>2, LenProperties
  <2>4. queue' = longer
    BY <1>3
  <2> HIDE DEF longer
  <2> QED BY <2>1, <2>2, <2>3, <2>4
<1>6. LedgerInv'
  <2>1. /\ draining' \in SUBSET Recorders /\ emitting' = (draining' # {})
        /\ \A q, r \in Recorders : q \in draining' /\ r \in draining' => q = r
        /\ \A q \in draining : q \in draining'
    <3>1. CASE emitting
      BY <1>3, <3>1 DEF EmissionInv, LedgerInv
    <3>2. CASE ~emitting
      BY <1>3, <3>2 DEF EmissionInv, LedgerInv
    <3> QED BY <3>1, <3>2
  <2>2. \A q \in Recorders : (pending[q] = <<>> \/ (q \in draining /\ Len(pending[q]) = 1))'
    BY <2>1 DEF EmissionInv, LedgerInv
  <2> QED BY <1>3, <1>4, <1>5, <2>1, <2>2 DEF EmissionInv, LedgerInv
<1>7. /\ \A i \in DOMAIN emitted : Before(emitted[i], next)
      /\ \A j \in DOMAIN queue : Before(queue[j], next)
      /\ \A q \in Recorders : pending[q] # <<>> => Before(pending[q][1], next)
  BY <1>1, ToShowTypes, BeforeIsTransitive DEF EmissionInv, AheadInv
<1>8. Before(next, next)
  BY <1>1 DEF Before, Snapshots
<1>9. \A i \in 1 .. Len(queue) + 1 : i \in 1 .. Len(queue) \/ i = Len(queue) + 1
  BY <1>5
<1>10. OrderInv'
  <2>1. \A i, j \in DOMAIN queue' : i < j => Before(queue'[i], queue'[j])
    <3> SUFFICES ASSUME NEW i \in 1 .. Len(queue) + 1, NEW j \in 1 .. Len(queue) + 1, i < j
                 PROVE  Before(queue'[i], queue'[j])
      BY <1>5
    <3>1. i \in 1 .. Len(queue)
      BY <1>5
    <3>2. CASE j = Len(queue) + 1
      BY <1>5, <1>7, <3>1, <3>2
    <3>3. CASE j \in 1 .. Len(queue)
      BY <1>5, <3>1, <3>3 DEF EmissionInv, OrderInv
    <3> QED BY <1>9, <3>2, <3>3
  <2>2. \A i \in DOMAIN emitted, j \in DOMAIN queue' : Before(emitted[i], queue'[j])
    BY <1>5, <1>7, <1>9 DEF EmissionInv, OrderInv
  <2>3. \A q \in Recorders : pending[q] # <<>> =>
           /\ \A i \in DOMAIN emitted : Before(emitted[i], pending[q][1])
           /\ \A j \in DOMAIN queue' : Before(pending[q][1], queue'[j])
    BY <1>5, <1>7, <1>9 DEF EmissionInv, OrderInv
  <2> QED BY <2>1, <2>2, <2>3 DEF EmissionInv, OrderInv, Before
<1>11. AheadInv'
  <2>1. \A j \in DOMAIN queue' : Before(queue'[j], next)
    BY <1>5, <1>7, <1>8, <1>9
  <2> QED BY <1>2, <1>7, <2>1 DEF AheadInv, Before
<1> QED BY <1>6, <1>10, <1>11 DEF EmissionInv

\* The recorder that drains takes the oldest, or stops.
LEMMA TakePreserves ==
    ASSUME EmissionInv, NEW p \in Recorders, Take(p)
    PROVE  EmissionInv'
<1>1. /\ p \in draining /\ pending[p] = <<>>
      /\ UNCHANGED <<records, start, task, emitted>>
  BY DEF Take
<1>2. Current' = Current
  BY <1>1 DEF Current, Snapshot
<1>3. /\ queue \in Seq(Snapshots) /\ Len(queue) \in Nat /\ DOMAIN queue = 1 .. Len(queue)
      /\ pending \in [Recorders -> Seq(Snapshots)]
      /\ \A q \in Recorders : q # p => pending[q] = <<>>
  <2>1. \A q \in Recorders : q # p => pending[q] = <<>>
    BY <1>1 DEF EmissionInv, LedgerInv
  <2> QED BY <2>1, LenProperties DEF EmissionInv, LedgerInv
<1>4. CASE queue = <<>>
  <2>1. emitting' = FALSE /\ draining' = draining \ {p} /\ UNCHANGED <<queue, pending>>
    BY <1>4 DEF Take
  <2>2. LedgerInv'
    <3>1. draining' = {}
      BY <1>1, <2>1 DEF EmissionInv, LedgerInv
    <3>2. \A q \in Recorders : pending'[q] = <<>>
      BY <1>1, <1>3, <2>1
    <3> QED BY <1>1, <2>1, <3>1, <3>2 DEF EmissionInv, LedgerInv, IsLog
  <2>3. OrderInv'
    BY <1>1, <2>1 DEF EmissionInv, OrderInv, Before
  <2>4. AheadInv'
    BY <1>1, <1>2, <2>1 DEF EmissionInv, AheadInv, Before
  <2> QED BY <2>2, <2>3, <2>4 DEF EmissionInv
<1>5. CASE queue # <<>>
  <2> DEFINE taken == Head(queue)
  <2>1. /\ pending' = [pending EXCEPT ![p] = <<taken>>] /\ queue' = Tail(queue)
        /\ UNCHANGED <<emitting, draining>>
    BY <1>5 DEF Take
  <2>2. /\ taken = queue[1] /\ 1 \in DOMAIN queue /\ taken \in Snapshots
        /\ queue' \in Seq(Snapshots) /\ DOMAIN queue' = 1 .. Len(queue) - 1
        /\ \A i \in 1 .. Len(queue) - 1 : queue'[i] = queue[i + 1]
    <3> DEFINE rest == Tail(queue)
    <3>1. /\ Len(queue) # 0 /\ 1 \in DOMAIN queue /\ taken = queue[1] /\ taken \in Snapshots
      BY <1>3, <1>5, EmptySeq, ElementOfSeq
    <3>2. /\ rest \in Seq(Snapshots) /\ Len(rest) = Len(queue) - 1
          /\ \A i \in 1 .. Len(rest) : rest[i] = queue[i + 1]
      BY <1>3, <1>5, HeadTailProperties
    <3>3. DOMAIN rest = 1 .. Len(rest)
      BY <3>2, LenProperties
    <3>4. queue' = rest
      BY <2>1
    <3> HIDE DEF rest
    <3> QED BY <3>1, <3>2, <3>3, <3>4
  <2> HIDE DEF taken
  <2>3. /\ pending' \in [Recorders -> Seq(Snapshots)]
        /\ pending'[p] = <<taken>> /\ Len(<<taken>>) = 1 /\ <<taken>>[1] = taken
        /\ \A q \in Recorders : q # p => pending'[q] = <<>>
    <3>1. <<taken>> \in Seq(Snapshots)
      BY <2>2
    <3> QED BY <1>3, <2>1, <3>1
  <2>4. \A i \in 1 .. Len(queue) - 1 : i \in DOMAIN queue /\ i + 1 \in DOMAIN queue /\ 1 < i + 1
    BY <1>3
  <2>5. LedgerInv'
    BY <1>1, <2>1, <2>2, <2>3 DEF EmissionInv, LedgerInv, IsLog
  <2>6. OrderInv'
    <3>1. \A i, j \in DOMAIN queue' : i < j => Before(queue'[i], queue'[j])
      <4> SUFFICES ASSUME NEW i \in 1 .. Len(queue) - 1, NEW j \in 1 .. Len(queue) - 1, i < j
                   PROVE  Before(queue'[i], queue'[j])
        BY <2>2
      <4>1. i + 1 \in DOMAIN queue /\ j + 1 \in DOMAIN queue /\ i + 1 < j + 1
        BY <1>3, <2>4
      <4>2. Before(queue[i + 1], queue[j + 1])
        BY <4>1 DEF EmissionInv, OrderInv
      <4> QED BY <2>2, <4>2
    <3>2. \A i \in DOMAIN emitted, j \in DOMAIN queue' : Before(emitted[i], queue'[j])
      BY <2>2, <2>4 DEF EmissionInv, OrderInv
    <3>3. \A i \in DOMAIN emitted : Before(emitted[i], taken)
      BY <2>2 DEF EmissionInv, OrderInv
    <3>4. \A j \in DOMAIN queue' : Before(taken, queue'[j])
      BY <2>2, <2>4 DEF EmissionInv, OrderInv
    <3>5. \A q \in Recorders : pending'[q] # <<>> =>
             /\ \A i \in DOMAIN emitted : Before(emitted[i], pending'[q][1])
             /\ \A j \in DOMAIN queue' : Before(pending'[q][1], queue'[j])
      BY <2>3, <3>3, <3>4
    <3>6. \A i, j \in DOMAIN emitted : i < j => Before(emitted[i], emitted[j])
      BY DEF EmissionInv, OrderInv
    <3> QED BY <1>1, <3>1, <3>2, <3>5, <3>6 DEF OrderInv, Before
  <2>7. AheadInv'
    <3>1. \A j \in DOMAIN queue' : Before(queue'[j], Current)
      BY <2>2, <2>4 DEF EmissionInv, AheadInv
    <3>2. \A q \in Recorders : pending'[q] # <<>> => Before(pending'[q][1], Current)
      BY <2>2, <2>3 DEF EmissionInv, AheadInv
    <3>3. \A i \in DOMAIN emitted : Before(emitted[i], Current)
      BY DEF EmissionInv, AheadInv
    <3> QED BY <1>1, <1>2, <3>1, <3>2, <3>3 DEF AheadInv, Before
  <2> QED BY <2>5, <2>6, <2>7 DEF EmissionInv
<1> QED BY <1>4, <1>5

\* The callback is called with what was taken.
LEMMA CallbackPreserves ==
    ASSUME EmissionInv, NEW p \in Recorders, Callback(p)
    PROVE  EmissionInv'
<1> DEFINE oldest == pending[p][1]
<1>1. /\ pending[p] # <<>> /\ emitted' = emitted \o pending[p]
      /\ pending' = [pending EXCEPT ![p] = <<>>]
      /\ UNCHANGED <<records, start, task, queue, emitting, draining>>
  BY DEF Callback
<1>2. Current' = Current
  BY <1>1 DEF Current, Snapshot
<1>3. /\ p \in draining /\ Len(pending[p]) = 1 /\ pending[p] \in Seq(Snapshots) /\ oldest \in Snapshots
      /\ pending \in [Recorders -> Seq(Snapshots)]
      /\ emitted \in Seq(Snapshots) /\ Len(emitted) \in Nat /\ DOMAIN emitted = 1 .. Len(emitted)
  BY <1>1, ToShowTypes DEF EmissionInv, LedgerInv
<1>4. /\ emitted' \in Seq(Snapshots) /\ DOMAIN emitted' = 1 .. Len(emitted) + 1
      /\ \A i \in 1 .. Len(emitted) : emitted'[i] = emitted[i]
      /\ emitted'[Len(emitted) + 1] = oldest
  <2> DEFINE longer == emitted \o pending[p]
  <2>1. /\ longer \in Seq(Snapshots) /\ Len(longer) = Len(emitted) + Len(pending[p])
        /\ \A i \in 1 .. Len(emitted) + Len(pending[p]) :
               longer[i] = IF i <= Len(emitted) THEN emitted[i] ELSE pending[p][i - Len(emitted)]
    BY <1>3, ConcatProperties
  <2>2. DOMAIN longer = 1 .. Len(longer)
    BY <2>1, LenProperties
  <2>3. emitted' = longer
    BY <1>1
  <2> HIDE DEF longer
  <2>4. /\ \A i \in 1 .. Len(emitted) : i \in 1 .. Len(emitted) + 1 /\ i <= Len(emitted)
        /\ Len(emitted) + 1 \in 1 .. Len(emitted) + 1 /\ ~(Len(emitted) + 1 <= Len(emitted))
        /\ Len(emitted) + 1 - Len(emitted) = 1
    BY <1>3
  <2> QED BY <1>3, <2>1, <2>2, <2>3, <2>4
<1> HIDE DEF oldest
<1>5. \A q \in Recorders : pending'[q] = <<>>
  <2>1. \A q \in Recorders : q # p => pending[q] = <<>>
    BY <1>3 DEF EmissionInv, LedgerInv
  <2> QED BY <1>1, <1>3, <2>1
<1>6. pending' \in [Recorders -> Seq(Snapshots)]
  <2>1. <<>> \in Seq(Snapshots)
    OBVIOUS
  <2> QED BY <1>1, <1>3, <2>1
<1>7. LedgerInv'
  BY <1>1, <1>4, <1>5, <1>6 DEF EmissionInv, LedgerInv, IsLog
<1>8. \A i \in 1 .. Len(emitted) + 1 : i \in 1 .. Len(emitted) \/ i = Len(emitted) + 1
  BY <1>3
<1>9. /\ \A i \in DOMAIN emitted : Before(emitted[i], oldest)
      /\ \A j \in DOMAIN queue : Before(oldest, queue[j])
      /\ Before(oldest, Current)
  BY <1>1 DEF EmissionInv, OrderInv, AheadInv, oldest
<1>10. OrderInv'
  <2>1. \A i, j \in DOMAIN emitted' : i < j => Before(emitted'[i], emitted'[j])
    <3> SUFFICES ASSUME NEW i \in 1 .. Len(emitted) + 1, NEW j \in 1 .. Len(emitted) + 1, i < j
                 PROVE  Before(emitted'[i], emitted'[j])
      BY <1>4
    <3>1. i \in 1 .. Len(emitted)
      BY <1>3
    <3>2. CASE j = Len(emitted) + 1
      BY <1>3, <1>4, <1>9, <3>1, <3>2
    <3>3. CASE j \in 1 .. Len(emitted)
      BY <1>3, <1>4, <3>1, <3>3 DEF EmissionInv, OrderInv
    <3> QED BY <1>8, <3>2, <3>3
  <2>2. \A i \in DOMAIN emitted', j \in DOMAIN queue : Before(emitted'[i], queue[j])
    BY <1>3, <1>4, <1>8, <1>9 DEF EmissionInv, OrderInv
  <2>3. \A i, j \in DOMAIN queue : i < j => Before(queue[i], queue[j])
    BY DEF EmissionInv, OrderInv
  <2> QED BY <1>1, <1>5, <2>1, <2>2, <2>3, ZenonT(30) DEF OrderInv, Before
<1>11. AheadInv'
  <2>1. \A i \in DOMAIN emitted' : Before(emitted'[i], Current)
    BY <1>3, <1>4, <1>8, <1>9 DEF EmissionInv, AheadInv
  <2>2. \A j \in DOMAIN queue : Before(queue[j], Current)
    BY DEF EmissionInv, AheadInv
  <2> QED BY <1>1, <1>2, <1>5, <2>1, <2>2 DEF AheadInv, Before
<1> QED BY <1>7, <1>10, <1>11 DEF EmissionInv

\* A task that starts is later than all that was taken before.
LEMMA StartTaskPreserves ==
    ASSUME UsagesAreCounts, EmissionInv, StartTask
    PROVE  EmissionInv'
<1>1. /\ task' = task + 1 /\ start' = Len(records)
      /\ UNCHANGED <<records, queue, emitting, pending, draining, emitted>>
  BY DEF StartTask
<1>2. task \in Nat /\ Current.task = task /\ Current'.task = task + 1
  BY <1>1 DEF EmissionInv, LedgerInv, Current, Snapshot
<1>3. LedgerInv'
  <2>1. Len(records) \in Nat
    BY LenProperties DEF EmissionInv, LedgerInv, IsLog
  <2>2. task' \in Nat /\ start' \in 0 .. Len(records')
    BY <1>1, <1>2, <2>1
  <2> QED BY <1>1, <2>2 DEF EmissionInv, LedgerInv, IsLog
<1>4. OrderInv'
  BY <1>1 DEF EmissionInv, OrderInv, Before
<1>5. \A x \in Snapshots : Before(x, Current) => Before(x, Current')
  BY <1>2 DEF Before, Snapshots
<1>6. AheadInv'
  <2> DEFINE next == Current'
  <2> HIDE DEF next
  <2>1. \A x \in Snapshots : Before(x, Current) => Before(x, next)
    BY <1>5 DEF next
  <2>2. /\ \A i \in DOMAIN emitted : Before(emitted[i], next)
        /\ \A j \in DOMAIN queue : Before(queue[j], next)
        /\ \A p \in Recorders : pending[p] # <<>> => Before(pending[p][1], next)
    BY <2>1, ToShowTypes DEF EmissionInv, AheadInv
  <2> QED BY <1>1, <2>2 DEF AheadInv, Before, next
<1> QED BY <1>3, <1>4, <1>6 DEF EmissionInv

LEMMA NothingRecorded ==
    ASSUME EmissionInv, UNCHANGED <<records, start, task, queue, emitting, pending, draining, emitted>>
    PROVE  EmissionInv'
<1>1. Current' = Current
  BY DEF Current, Snapshot
<1>2. LedgerInv' /\ OrderInv'
  BY DEF EmissionInv, LedgerInv, IsLog, OrderInv, Before
<1>3. AheadInv'
  BY <1>1 DEF EmissionInv, AheadInv, Before
<1> QED BY <1>2, <1>3 DEF EmissionInv

\* For usages that are counts, any block size, ring, models and numbers of records and
\* tasks: whichever goroutine records and whichever drains, what the callbacks show of
\* a task never goes back.
THEOREM EmissionsNeverBack ==
    ASSUME UsagesAreCounts
    PROVE  LedgerSpec => []EmissionsNeverGoBack
<1>1. LedgerInit => EmissionInv
  <2> SUFFICES ASSUME LedgerInit
               PROVE  EmissionInv
    OBVIOUS
  <2>1. /\ records = <<>> /\ start = 0 /\ task = 0 /\ queue = <<>> /\ emitting = FALSE
        /\ pending = [p \in Recorders |-> <<>>] /\ draining = {} /\ emitted = <<>>
    BY DEF LedgerInit
  <2>2. LedgerInv
    <3>1. IsLog(<<>>)
      <4>1. PICK S : S = {}
        OBVIOUS
      <4>2. <<>> \in Seq(S) /\ \A r \in S : r.usage \in Usages
        BY <4>1
      <4> QED BY <4>2 DEF IsLog
    <3>2. pending \in [Recorders -> Seq(Snapshots)] /\ \A p \in Recorders : pending[p] = <<>>
      BY <2>1
    <3>3. Len(<<>>) = 0 /\ <<>> \in Seq(Snapshots)
      OBVIOUS
    <3>4. draining \in SUBSET Recorders /\ emitting = (draining # {}) /\ emitting \in BOOLEAN
      BY <2>1
    <3> QED BY <2>1, <3>1, <3>2, <3>3, <3>4 DEF LedgerInv
  <2>3. DOMAIN emitted = {} /\ DOMAIN queue = {} /\ \A p \in Recorders : pending[p] = <<>>
    BY <2>1
  <2>4. OrderInv /\ AheadInv
    BY <2>3 DEF OrderInv, AheadInv
  <2> QED BY <2>2, <2>4 DEF EmissionInv
<1>2. EmissionInv /\ [LedgerNext]_ledgerVars => EmissionInv'
  <2> SUFFICES ASSUME EmissionInv, [LedgerNext]_ledgerVars
               PROVE  EmissionInv'
    OBVIOUS
  <2>1. CASE StartTask
    BY <2>1, StartTaskPreserves
  <2>2. CASE EndTask \/ RecordHarnessEvent
    BY <2>2, NothingRecorded DEF EndTask, RecordHarnessEvent
  <2>3. ASSUME NEW m \in Models, NEW usage \in Usages, RecordMain(m, usage)
        PROVE  EmissionInv'
    <3>1. PICK changed \in BOOLEAN, grew \in BOOLEAN :
              records' = Append(records,
                  [stream |-> "main", model |-> m, usage |-> usage,
                   attribution |-> Attribution(usage, changed, grew),
                   tail |-> [some |-> MainRecords(records) # <<>> /\ usage.prompt.some,
                             value |-> NewTail(MainRecords(records), usage)]])
      BY <2>3 DEF RecordMain
    <3>2. PICK new : records' = Append(records, new) /\ new.usage = usage
      BY <3>1
    <3>3. Enqueue("task") /\ UNCHANGED <<start, task, pending, emitted>> /\ "task" \in Recorders
      BY <2>3 DEF RecordMain, Recorders
    <3> QED BY <3>2, <3>3, EnqueuePreserves
  <2>4. ASSUME NEW p \in Recorders, NEW m \in Models, NEW usage \in Usages, RecordAux(p, m, usage)
        PROVE  EmissionInv'
    <3>1. PICK new : records' = Append(records, new) /\ new.usage = usage
      BY <2>4 DEF RecordAux
    <3>2. Enqueue(p) /\ UNCHANGED <<start, task, pending, emitted>>
      BY <2>4 DEF RecordAux
    <3> QED BY <3>1, <3>2, EnqueuePreserves
  <2>5. ASSUME NEW p \in Recorders, Take(p) \/ Callback(p)
        PROVE  EmissionInv'
    BY <2>5, TakePreserves, CallbackPreserves
  <2>6. CASE UNCHANGED ledgerVars
    BY <2>6, NothingRecorded DEF ledgerVars
  <2> QED BY <2>1, <2>2, <2>3, <2>4, <2>5, <2>6 DEF LedgerNext
<1>3. EmissionInv => EmissionsNeverGoBack
  <2> SUFFICES ASSUME EmissionInv, NEW i \in DOMAIN emitted, NEW j \in DOMAIN emitted, i < j
               PROVE  /\ emitted[i].task <= emitted[j].task
                      /\ emitted[i].task = emitted[j].task =>
                            /\ emitted[i].prompt <= emitted[j].prompt
                            /\ emitted[i].read <= emitted[j].read
                            /\ emitted[i].miss <= emitted[j].miss
    BY DEF EmissionsNeverGoBack
  <2>1. Before(emitted[i], emitted[j])
    BY DEF EmissionInv, OrderInv
  <2> QED BY <2>1 DEF Before
<1> QED BY <1>1, <1>2, <1>3, PTL DEF LedgerSpec

-----------------------------------------------------------------------------
(* The reports: sums over the records, over the rows and over the pairings. *)

\* The sum of the first m numbers of f.
SumTo(f, m) == AddedUp([i \in 1 .. m |-> f[i]])

LEMMA SumToIs ==
    ASSUME NEW n \in Nat, NEW f \in [1 .. n -> Nat]
    PROVE  /\ SumTo(f, 0) = 0
           /\ \A m \in 0 .. n : SumTo(f, m) \in Nat
           /\ \A m \in 0 .. n : m < n => SumTo(f, m + 1) = SumTo(f, m) + f[m + 1]
<1>1. ASSUME NEW m \in 0 .. n
      PROVE  [i \in 1 .. m |-> f[i]] \in Seq(Nat) /\ Len([i \in 1 .. m |-> f[i]]) = m
  <2> DEFINE part == [i \in 1 .. m |-> f[i]]
  <2>1. m \in Nat /\ \A i \in 1 .. m : i \in 1 .. n
    OBVIOUS
  <2>2. part \in [1 .. m -> Nat]
    BY <2>1
  <2> HIDE DEF part
  <2>3. part \in Seq(Nat) /\ Len(part) = m
    BY <2>1, <2>2, SeqDef, LenProperties
  <2> QED BY <2>3 DEF part
<1>2. SumTo(f, 0) = 0
  <2>1. [i \in 1 .. 0 |-> f[i]] = <<>>
    OBVIOUS
  <2>2. PICK run \in [0 .. 0 -> Nat] : run[0] = 0 /\ AddedUp(<<>>) = run[0]
    <3>1. <<>> \in Seq(Nat) /\ Len(<<>>) = 0
      OBVIOUS
    <3> QED BY <3>1, SumIsRun
  <2> QED BY <2>1, <2>2 DEF SumTo
<1>3. \A m \in 0 .. n : SumTo(f, m) \in Nat
  <2>1. 0 \in Nat
    OBVIOUS
  <2> QED BY <1>1, <2>1, SumGrows DEF SumTo
<1>4. ASSUME NEW m \in 0 .. n, m < n
      PROVE  SumTo(f, m + 1) = SumTo(f, m) + f[m + 1]
  <2> DEFINE part == [i \in 1 .. m |-> f[i]]
             more == [i \in 1 .. m + 1 |-> f[i]]
             appended == Append(part, f[m + 1])
  <2>1. m \in Nat /\ m + 1 \in 1 .. n /\ m + 1 \in 0 .. n /\ m + 1 \in Nat
    BY <1>4
  <2>2. f[m + 1] \in Nat
    BY <2>1
  <2>3. part \in Seq(Nat) /\ Len(part) = m /\ \A i \in 1 .. m : part[i] = f[i]
    BY <1>1
  <2>4. /\ more \in [1 .. m + 1 -> Nat]
        /\ \A i \in 1 .. m + 1 : more[i] = f[i]
    <3>1. \A i \in 1 .. m + 1 : i \in 1 .. n
      BY <2>1
    <3> QED BY <3>1
  <2> HIDE DEF part, more
  <2>5. /\ appended \in Seq(Nat) /\ Len(appended) = m + 1
        /\ \A i \in 1 .. m : appended[i] = part[i]
        /\ appended[m + 1] = f[m + 1]
    BY <2>2, <2>3, AppendProperties
  <2>6. AddedUp(appended) = AddedUp(part) + f[m + 1]
    BY <2>2, <2>3, SumGrows
  <2> HIDE DEF appended
  <2>7. appended \in [1 .. m + 1 -> Nat]
    BY <2>5, LenProperties, ElementOfSeq
  <2>8. \A i \in 1 .. m + 1 : more[i] = appended[i]
    <3>1. \A i \in 1 .. m + 1 : i \in 1 .. m \/ i = m + 1
      BY <2>1
    <3> QED BY <2>3, <2>4, <2>5, <3>1
  <2>9. more = appended
    BY <2>4, <2>7, <2>8
  <2> QED BY <2>6, <2>9 DEF SumTo, part, more
<1> QED BY <1>2, <1>3, <1>4

\* Where one number is raised, so is every sum that has it.
LEMMA SumToRaised ==
    ASSUME NEW n \in Nat, NEW f \in [1 .. n -> Nat], NEW g \in [1 .. n -> Nat],
           NEW q \in 1 .. n, NEW d \in Nat,
           g[q] = f[q] + d, \A j \in 1 .. n : j # q => g[j] = f[j]
    PROVE  SumTo(g, n) = SumTo(f, n) + d
<1> DEFINE P == {m \in 0 .. n : SumTo(g, m) = SumTo(f, m) + IF q <= m THEN d ELSE 0}
<1>1. /\ SumTo(f, 0) = 0 /\ SumTo(g, 0) = 0
      /\ \A m \in 0 .. n : SumTo(f, m) \in Nat /\ SumTo(g, m) \in Nat
      /\ \A m \in 0 .. n : m < n => /\ SumTo(f, m + 1) = SumTo(f, m) + f[m + 1]
                                    /\ SumTo(g, m + 1) = SumTo(g, m) + g[m + 1]
  BY SumToIs
<1>2. 0 \in P
  BY <1>1
<1>3. ASSUME NEW m \in 0 .. n, m < n, m \in P
      PROVE  m + 1 \in P
  <2>1. m + 1 \in 1 .. n /\ m + 1 \in 0 .. n /\ f[m + 1] \in Nat /\ g[m + 1] \in Nat
    BY <1>3
  <2>2. /\ SumTo(f, m + 1) = SumTo(f, m) + f[m + 1] /\ SumTo(g, m + 1) = SumTo(g, m) + g[m + 1]
        /\ SumTo(f, m) \in Nat /\ SumTo(g, m) \in Nat
    BY <1>1, <1>3
  <2>3. SumTo(g, m) = SumTo(f, m) + IF q <= m THEN d ELSE 0
    BY <1>3
  <2>4. CASE q = m + 1
    BY <2>1, <2>2, <2>3, <2>4
  <2>5. CASE q # m + 1
    <3>1. g[m + 1] = f[m + 1]
      BY <2>1, <2>5
    <3> QED BY <2>1, <2>2, <2>3, <2>5, <3>1
  <2> QED BY <2>4, <2>5
<1>4. 0 .. n \subseteq P
  <2> HIDE DEF P
  <2> QED BY <1>2, <1>3, UpTo
<1>5. n \in P
  <2>1. n \in 0 .. n
    OBVIOUS
  <2> QED BY <1>4, <2>1
<1> QED BY <1>5

\* Smaller numbers have a smaller sum, and the same sum only if they are the same.
LEMMA SumToCompares ==
    ASSUME NEW n \in Nat, NEW f \in [1 .. n -> Nat], NEW g \in [1 .. n -> Nat],
           \A i \in 1 .. n : f[i] <= g[i]
    PROVE  SumTo(f, n) <= SumTo(g, n) /\ (SumTo(f, n) = SumTo(g, n) => f = g)
<1> DEFINE P == {m \in 0 .. n : /\ SumTo(f, m) <= SumTo(g, m)
                                /\ SumTo(f, m) = SumTo(g, m) => \A i \in 1 .. m : f[i] = g[i]}
<1>1. /\ SumTo(f, 0) = 0 /\ SumTo(g, 0) = 0
      /\ \A m \in 0 .. n : SumTo(f, m) \in Nat /\ SumTo(g, m) \in Nat
      /\ \A m \in 0 .. n : m < n => /\ SumTo(f, m + 1) = SumTo(f, m) + f[m + 1]
                                    /\ SumTo(g, m + 1) = SumTo(g, m) + g[m + 1]
  BY SumToIs
<1>2. 0 \in P
  BY <1>1
<1>3. ASSUME NEW m \in 0 .. n, m < n, m \in P
      PROVE  m + 1 \in P
  <2>1. m + 1 \in 1 .. n /\ m + 1 \in 0 .. n
    BY <1>3
  <2>2. f[m + 1] \in Nat /\ g[m + 1] \in Nat /\ f[m + 1] <= g[m + 1]
    BY <2>1
  <2>3. /\ SumTo(f, m + 1) = SumTo(f, m) + f[m + 1] /\ SumTo(g, m + 1) = SumTo(g, m) + g[m + 1]
        /\ SumTo(f, m) \in Nat /\ SumTo(g, m) \in Nat
    BY <1>1, <1>3
  <2>4. /\ SumTo(f, m) <= SumTo(g, m)
        /\ SumTo(f, m) = SumTo(g, m) => \A i \in 1 .. m : f[i] = g[i]
    BY <1>3
  <2>5. SumTo(f, m + 1) <= SumTo(g, m + 1)
    BY <2>2, <2>3, <2>4
  <2>6. ASSUME SumTo(f, m + 1) = SumTo(g, m + 1)
        PROVE  \A i \in 1 .. m + 1 : f[i] = g[i]
    <3>1. SumTo(f, m) = SumTo(g, m) /\ f[m + 1] = g[m + 1]
      BY <2>2, <2>3, <2>4, <2>6
    <3>2. \A i \in 1 .. m + 1 : i \in 1 .. m \/ i = m + 1
      OBVIOUS
    <3> QED BY <2>4, <3>1, <3>2
  <2> QED BY <2>1, <2>5, <2>6
<1>4. 0 .. n \subseteq P
  <2> HIDE DEF P
  <2> QED BY <1>2, <1>3, UpTo
<1>5. n \in P
  <2>1. n \in 0 .. n
    OBVIOUS
  <2> QED BY <1>4, <2>1
<1> QED BY <1>5

\* The sum of naughts, and of ones.
LEMMA SumToOfOnes ==
    ASSUME NEW n \in Nat
    PROVE  SumTo([i \in 1 .. n |-> 0], n) = 0 /\ SumTo([i \in 1 .. n |-> 1], n) = n
<1> DEFINE naughts == [i \in 1 .. n |-> 0]
           ones == [i \in 1 .. n |-> 1]
           P == {m \in 0 .. n : SumTo(naughts, m) = 0 /\ SumTo(ones, m) = m}
<1>1. /\ naughts \in [1 .. n -> Nat] /\ ones \in [1 .. n -> Nat]
      /\ \A i \in 1 .. n : naughts[i] = 0 /\ ones[i] = 1
  OBVIOUS
<1> HIDE DEF naughts, ones
<1>2. /\ SumTo(naughts, 0) = 0 /\ SumTo(ones, 0) = 0
      /\ \A m \in 0 .. n : m < n => /\ SumTo(naughts, m + 1) = SumTo(naughts, m) + naughts[m + 1]
                                    /\ SumTo(ones, m + 1) = SumTo(ones, m) + ones[m + 1]
  BY <1>1, SumToIs
<1>3. 0 \in P
  BY <1>2
<1>4. ASSUME NEW m \in 0 .. n, m < n, m \in P
      PROVE  m + 1 \in P
  <2>1. m + 1 \in 1 .. n /\ m + 1 \in 0 .. n
    BY <1>4
  <2> QED BY <1>1, <1>2, <1>4, <2>1
<1>5. 0 .. n \subseteq P
  <2> HIDE DEF P
  <2> QED BY <1>3, <1>4, UpTo
<1>6. n \in 0 .. n
  OBVIOUS
<1> QED BY <1>5, <1>6 DEF naughts, ones

\* Numbers sorted into k parts: the sums of the parts add up to the sum of them all. A
\* number that is in no part is naught.
LEMMA PartsAddUp ==
    ASSUME NEW n \in Nat, NEW k \in Nat, NEW f \in [1 .. n -> Nat],
           NEW part \in [1 .. n -> Nat], \A i \in 1 .. n : part[i] \in 1 .. k \/ f[i] = 0,
           NEW cell \in [1 .. k -> [1 .. n -> Nat]],
           \A j \in 1 .. k, i \in 1 .. n : cell[j][i] = IF part[i] = j THEN f[i] ELSE 0
    PROVE  SumTo([j \in 1 .. k |-> SumTo(cell[j], n)], k) = SumTo(f, n)
<1> DEFINE row(m) == [j \in 1 .. k |-> SumTo(cell[j], m)]
           P == {m \in 0 .. n : SumTo(row(m), k) = SumTo(f, m)}
<1>1. /\ SumTo(f, 0) = 0
      /\ \A m \in 0 .. n : SumTo(f, m) \in Nat
      /\ \A m \in 0 .. n : m < n => SumTo(f, m + 1) = SumTo(f, m) + f[m + 1]
  BY SumToIs
<1>2. ASSUME NEW j \in 1 .. k
      PROVE  /\ SumTo(cell[j], 0) = 0
             /\ \A m \in 0 .. n : SumTo(cell[j], m) \in Nat
             /\ \A m \in 0 .. n : m < n => SumTo(cell[j], m + 1) = SumTo(cell[j], m) + cell[j][m + 1]
  <2>1. cell[j] \in [1 .. n -> Nat]
    OBVIOUS
  <2> QED BY <2>1, SumToIs
<1>3. ASSUME NEW m \in 0 .. n
      PROVE  row(m) \in [1 .. k -> Nat] /\ \A j \in 1 .. k : row(m)[j] = SumTo(cell[j], m)
  BY <1>2
<1>4. 0 \in P
  <2>1. 0 \in 0 .. n
    OBVIOUS
  <2>2. row(0) = [j \in 1 .. k |-> 0]
    BY <1>2
  <2>3. SumTo(row(0), k) = 0
    BY <2>2, SumToOfOnes
  <2> QED BY <1>1, <2>1, <2>3
<1>5. ASSUME NEW m \in 0 .. n, m < n, m \in P
      PROVE  m + 1 \in P
  <2>1. m + 1 \in 1 .. n /\ m + 1 \in 0 .. n /\ f[m + 1] \in Nat
    BY <1>5
  <2>2. SumTo(f, m + 1) = SumTo(f, m) + f[m + 1] /\ SumTo(row(m), k) = SumTo(f, m)
    BY <1>1, <1>5
  <2> DEFINE now == row(m)
             next == row(m + 1)
  <2>3. /\ now \in [1 .. k -> Nat] /\ next \in [1 .. k -> Nat]
        /\ \A j \in 1 .. k : now[j] = SumTo(cell[j], m) /\ next[j] = SumTo(cell[j], m + 1)
    BY <1>3, <2>1
  <2>4. SumTo(now, k) = SumTo(f, m)
    BY <2>2
  <2> HIDE DEF row, now, next
  <2>5. \A j \in 1 .. k : /\ SumTo(cell[j], m + 1) = SumTo(cell[j], m) + cell[j][m + 1]
                          /\ SumTo(cell[j], m) \in Nat
                          /\ cell[j][m + 1] = IF part[m + 1] = j THEN f[m + 1] ELSE 0
    BY <1>2, <1>5, <2>1
  <2>6. \A j \in 1 .. k : next[j] = IF part[m + 1] = j THEN now[j] + f[m + 1] ELSE now[j]
    <3> SUFFICES ASSUME NEW j \in 1 .. k
                 PROVE  next[j] = IF part[m + 1] = j THEN now[j] + f[m + 1] ELSE now[j]
      OBVIOUS
    <3>1. /\ next[j] = SumTo(cell[j], m + 1) /\ now[j] = SumTo(cell[j], m)
          /\ SumTo(cell[j], m + 1) = SumTo(cell[j], m) + cell[j][m + 1]
          /\ SumTo(cell[j], m) \in Nat
          /\ cell[j][m + 1] = IF part[m + 1] = j THEN f[m + 1] ELSE 0
      BY <2>3, <2>5
    <3> QED BY <2>1, <3>1
  <2>7. ASSUME part[m + 1] \in 1 .. k
        PROVE  SumTo(next, k) = SumTo(f, m + 1)
    <3> DEFINE q == part[m + 1]
               d == f[m + 1]
    <3>1. q \in 1 .. k /\ d \in Nat
      BY <2>1, <2>7
    <3>2. next[q] = now[q] + d /\ \A j \in 1 .. k : j # q => next[j] = now[j]
      BY <2>6, <2>7
    <3> HIDE DEF q, d
    <3>3. now \in [1 .. k -> Nat] /\ next \in [1 .. k -> Nat]
      BY <2>3
    <3>4. SumTo(next, k) = SumTo(now, k) + d
      BY <3>1, <3>2, <3>3, SumToRaised
    <3> QED BY <2>2, <2>4, <3>4 DEF d
  <2>8. ASSUME part[m + 1] \notin 1 .. k
        PROVE  SumTo(next, k) = SumTo(f, m + 1)
    <3>1. f[m + 1] = 0
      BY <2>1, <2>8
    <3>2. \A j \in 1 .. k : next[j] = now[j]
      BY <2>6, <2>8
    <3>3. next = now
      BY <2>3, <3>2
    <3>4. SumTo(f, m) \in Nat
      BY <1>1
    <3>5. SumTo(f, m + 1) = SumTo(f, m) + f[m + 1]
      BY <2>2
    <3>6. SumTo(f, m + 1) = SumTo(f, m)
      BY <3>1, <3>4, <3>5
    <3> QED BY <2>4, <3>3, <3>6
  <2>9. SumTo(row(m + 1), k) = SumTo(f, m + 1)
    BY <2>7, <2>8 DEF next
  <2> QED BY <2>1, <2>9
<1>6. 0 .. n \subseteq P
  <2> HIDE DEF P
  <2> QED BY <1>4, <1>5, UpTo
<1>7. n \in P
  <2>1. n \in 0 .. n
    OBVIOUS
  <2> QED BY <1>6, <2>1
<1> QED BY <1>7

\* A finite set as a sequence has every element at one place.
LEMMA SetToSeqIs ==
    ASSUME NEW S, IsFiniteSet(S)
    PROVE  /\ Cardinality(S) \in Nat
           /\ SetToSeq(S) \in [1 .. Cardinality(S) -> S]
           /\ \A i, j \in 1 .. Cardinality(S) : SetToSeq(S)[i] = SetToSeq(S)[j] => i = j
           /\ \A x \in S : \E i \in 1 .. Cardinality(S) : SetToSeq(S)[i] = x
<1> DEFINE k == Cardinality(S)
           s == SetToSeq(S)
<1>1. k \in Nat /\ ExistsBijection(1 .. k, S)
  BY FS_CardinalityType
<1> HIDE DEF k
<1>2. PICK b \in [1 .. k -> S] : IsInjective(b)
  BY <1>1 DEF ExistsBijection, Bijection, Injection
<1>3. s \in [1 .. k -> S] /\ IsInjective(s)
  BY <1>2 DEF SetToSeq, k
<1> HIDE DEF s
<1>4. \A i, j \in 1 .. k : s[i] = s[j] => i = j
  BY <1>3 DEF IsInjective
<1>5. s \in Injection(1 .. k, S)
  BY <1>3 DEF Injection
<1>6. Cardinality(1 .. k) = k
  <2>1. k = 0 \/ k >= 1
    BY <1>1
  <2>2. 1 \in Int /\ k \in Int
    BY <1>1
  <2>3. Cardinality(1 .. k) = IF 1 > k THEN 0 ELSE k - 1 + 1
    BY <2>2, FS_Interval
  <2> QED BY <1>1, <2>1, <2>3
<1>7. s \in Surjection(1 .. k, S)
  <2>1. Cardinality(1 .. k) = Cardinality(S)
    BY <1>6 DEF k
  <2> QED BY <1>5, <2>1, FS_Injection
<1>8. \A x \in S : \E i \in 1 .. k : s[i] = x
  BY <1>7 DEF Surjection
<1> QED BY <1>1, <1>3, <1>4, <1>8 DEF k, s

\* What a reply costs is a count too, of the smallest unit of money.
CostsAreCounts == \A u \in Usages : u.cost \in Counted

\* The records are a log of the session's models and streams.
LogInv ==
    \E S : /\ records \in Seq(S)
           /\ \A r \in S : r.usage \in Usages /\ r.model \in Models /\ r.stream \in Streams

\* The numbers the reports are made of, record by record.
Reads == [i \in DOMAIN records |-> Read(records[i])]
Misses == [i \in DOMAIN records |-> Miss(records[i])]
Prompts == [i \in DOMAIN records |-> Prompt(records[i])]
Costs == [i \in DOMAIN records |-> IF HasUsage(records[i]) THEN Cost(records[i]) ELSE 0]
Ones == [i \in DOMAIN records |-> 1]
PairedReads == [i \in DOMAIN records |-> IF Paired(records[i]) THEN Read(records[i]) ELSE 0]
Billed == [i \in DOMAIN records |-> IF HasUsage(records[i]) THEN 1 ELSE 0]
Priced == [i \in DOMAIN records |-> IF HasUsage(records[i]) /\ records[i].usage.cost.some THEN 1 ELSE 0]

\* What a row and a pairing have of them.
RowPart(f, m) ==
    [i \in DOMAIN records |-> IF HasUsage(records[i]) /\ records[i].model = m THEN f[i] ELSE 0]
PairingPart(f, m, s) ==
    [i \in DOMAIN records |-> IF records[i].model = m /\ records[i].stream = s THEN f[i] ELSE 0]
SteadyPart(m, s) ==
    [i \in DOMAIN records |->
        IF /\ records[i].model = m /\ records[i].stream = s /\ Paired(records[i])
           /\ \E j \in 1 .. i - 1 : /\ records[j].model = m /\ records[j].stream = s
                                    /\ Paired(records[j])
        THEN Read(records[i]) ELSE 0]

LEMMA LogIs ==
    ASSUME UsagesAreCounts, CostsAreCounts, LogInv
    PROVE  /\ Len(records) \in Nat /\ DOMAIN records = 1 .. Len(records)
           /\ \A i \in DOMAIN records :
                 /\ records[i].model \in Models /\ records[i].stream \in Streams
                 /\ Read(records[i]) \in Nat /\ Miss(records[i]) \in Nat
                 /\ Prompt(records[i]) \in Nat /\ Cost(records[i]) \in Nat
                 /\ ~HasUsage(records[i]) => Read(records[i]) = 0 /\ Miss(records[i]) = 0
<1>1. PICK S : /\ records \in Seq(S)
               /\ \A r \in S : r.usage \in Usages /\ r.model \in Models /\ r.stream \in Streams
  BY DEF LogInv
<1>2. Len(records) \in Nat /\ DOMAIN records = 1 .. Len(records) /\ \A i \in DOMAIN records : records[i] \in S
  BY <1>1, LenProperties, ElementOfSeq
<1>3. ASSUME NEW i \in DOMAIN records
      PROVE  /\ records[i].model \in Models /\ records[i].stream \in Streams
             /\ Read(records[i]) \in Nat /\ Miss(records[i]) \in Nat
             /\ Prompt(records[i]) \in Nat /\ Cost(records[i]) \in Nat
             /\ ~HasUsage(records[i]) => Read(records[i]) = 0 /\ Miss(records[i]) = 0
  <2> DEFINE r == records[i]
  <2>1. r.usage \in Usages /\ r.model \in Models /\ r.stream \in Streams
    BY <1>1, <1>2
  <2> HIDE DEF r
  <2>2. /\ r.usage.prompt \in Counted /\ r.usage.read \in Counted /\ r.usage.miss \in Counted
        /\ r.usage.cost \in Counted
    BY <2>1 DEF UsagesAreCounts, CostsAreCounts
  <2>3. Read(r) \in Nat /\ Miss(r) \in Nat /\ Prompt(r) \in Nat /\ Cost(r) \in Nat
    BY <2>2 DEF Read, Miss, Prompt, Cost, Value, Counted
  <2>4. ~HasUsage(r) => Read(r) = 0 /\ Miss(r) = 0
    BY DEF HasUsage, Read, Miss, Value
  <2> QED BY <2>1, <2>3, <2>4 DEF r
<1> QED BY <1>2, <1>3

LEMMA NumbersOfLog ==
    ASSUME UsagesAreCounts, CostsAreCounts, LogInv
    PROVE  /\ {Reads, Misses, Prompts, Costs, Ones, PairedReads, Billed, Priced}
                 \subseteq [1 .. Len(records) -> Nat]
           /\ \A m, s : SteadyPart(m, s) \in [1 .. Len(records) -> Nat]
<1>1. DOMAIN records = 1 .. Len(records)
  BY LogIs
<1>2. \A i \in DOMAIN records : /\ Read(records[i]) \in Nat /\ Miss(records[i]) \in Nat
                                /\ Prompt(records[i]) \in Nat /\ Cost(records[i]) \in Nat
  BY LogIs
<1>3. /\ Reads \in [1 .. Len(records) -> Nat] /\ Misses \in [1 .. Len(records) -> Nat]
      /\ Prompts \in [1 .. Len(records) -> Nat]
  BY <1>1, <1>2 DEF Reads, Misses, Prompts
<1>4. Costs \in [1 .. Len(records) -> Nat]
  BY <1>1, <1>2 DEF Costs
<1>5. /\ Ones \in [1 .. Len(records) -> Nat] /\ Billed \in [1 .. Len(records) -> Nat]
      /\ Priced \in [1 .. Len(records) -> Nat]
  BY <1>1 DEF Ones, Billed, Priced
<1>6. PairedReads \in [1 .. Len(records) -> Nat]
  BY <1>1, <1>2 DEF PairedReads
<1>7. ASSUME NEW m, NEW s
      PROVE  SteadyPart(m, s) \in [1 .. Len(records) -> Nat]
  BY <1>1, <1>2 DEF SteadyPart
<1> QED BY <1>3, <1>4, <1>5, <1>6, <1>7

\* The sum of them all.
LEMMA SumToAll ==
    ASSUME NEW n \in Nat, NEW f \in [1 .. n -> Nat]
    PROVE  SumTo(f, n) = AddedUp(f)
<1>1. [i \in 1 .. n |-> f[i]] = f
  OBVIOUS
<1> QED BY <1>1 DEF SumTo

\* The cells hold the numbers of f, each in the cell of its key; a number with a key that is
\* not of K is naught.
SortedByKey(n, f, K, key, cell) ==
    /\ n \in Nat /\ f \in [1 .. n -> Nat] /\ cell \in [K -> [1 .. n -> Nat]]
    /\ \A i \in 1 .. n : key[i] \in K \/ f[i] = 0
    /\ \A x \in K, i \in 1 .. n : cell[x][i] = IF key[i] = x THEN f[i] ELSE 0

\* The sums of the cells of a set's elements, added up one after the other.
InTurn(K, cell) == AddedUp([j \in DOMAIN SetToSeq(K) |-> AddedUp(cell[SetToSeq(K)[j]])])

\* Numbers sorted by key: what the keys have, one after the other, adds up to them all.
LEMMA SharedOut ==
    ASSUME NEW n, NEW f, NEW K, NEW key, NEW cell, IsFiniteSet(K), SortedByKey(n, f, K, key, cell)
    PROVE  InTurn(K, cell) = AddedUp(f)
<1> DEFINE k == Cardinality(K)
           s == SetToSeq(K)
           place(i) == CHOOSE j \in 1 .. k : s[j] = key[i]
           part == [i \in 1 .. n |-> IF key[i] \in K THEN place(i) ELSE 0]
           parts == [j \in 1 .. k |-> cell[s[j]]]
           sums == [j \in 1 .. k |-> SumTo(parts[j], n)]
<1>0. /\ n \in Nat /\ f \in [1 .. n -> Nat] /\ cell \in [K -> [1 .. n -> Nat]]
      /\ \A i \in 1 .. n : key[i] \in K \/ f[i] = 0
      /\ \A x \in K, i \in 1 .. n : cell[x][i] = IF key[i] = x THEN f[i] ELSE 0
  BY DEF SortedByKey
<1>1. /\ k \in Nat /\ s \in [1 .. k -> K]
      /\ \A i, j \in 1 .. k : s[i] = s[j] => i = j
      /\ \A x \in K : \E i \in 1 .. k : s[i] = x
  BY SetToSeqIs
<1> HIDE DEF k, s
<1>2. ASSUME NEW i \in 1 .. n, key[i] \in K
      PROVE  place(i) \in 1 .. k /\ s[place(i)] = key[i]
  BY <1>1, <1>2
<1> HIDE DEF place
<1>3. part \in [1 .. n -> Nat] /\ \A i \in 1 .. n : part[i] \in 1 .. k \/ f[i] = 0
  <2>1. ASSUME NEW i \in 1 .. n
        PROVE  part[i] \in Nat /\ (part[i] \in 1 .. k \/ f[i] = 0)
    <3>1. CASE key[i] \in K
      BY <1>1, <1>2, <3>1
    <3>2. CASE key[i] \notin K
      BY <1>0, <3>2
    <3> QED BY <3>1, <3>2
  <2> QED BY <2>1
<1>4. ASSUME NEW j \in 1 .. k, NEW i \in 1 .. n
      PROVE  cell[s[j]][i] = IF part[i] = j THEN f[i] ELSE 0
  <2>1. s[j] \in K
    BY <1>1
  <2>2. cell[s[j]][i] = IF key[i] = s[j] THEN f[i] ELSE 0
    BY <1>0, <2>1
  <2>3. CASE key[i] \in K
    <3>1. part[i] = place(i) /\ place(i) \in 1 .. k /\ s[place(i)] = key[i]
      BY <1>2, <2>3
    <3>2. key[i] = s[j] <=> part[i] = j
      BY <1>1, <3>1
    <3> HIDE DEF part
    <3> QED BY <2>2, <3>2
  <2>4. CASE key[i] \notin K
    <3>1. part[i] = 0 /\ f[i] = 0 /\ j # 0
      BY <1>0, <2>4
    <3> HIDE DEF part
    <3> QED BY <2>2, <3>1
  <2> QED BY <2>3, <2>4
<1>5. parts \in [1 .. k -> [1 .. n -> Nat]]
  BY <1>0, <1>1
<1>6. \A j \in 1 .. k, i \in 1 .. n : parts[j][i] = IF part[i] = j THEN f[i] ELSE 0
  BY <1>4
<1>7. \A j \in 1 .. k : parts[j] = cell[s[j]]
  OBVIOUS
<1> HIDE DEF part, parts
<1>8. SumTo(sums, k) = SumTo(f, n)
  <2>1. k \in Nat /\ n \in Nat /\ f \in [1 .. n -> Nat]
    BY <1>0, <1>1
  <2>2. part \in [1 .. n -> Nat]
    BY <1>3
  <2>3. \A i \in 1 .. n : part[i] \in 1 .. k \/ f[i] = 0
    BY <1>3
  <2> QED BY <1>5, <1>6, <2>1, <2>2, <2>3, PartsAddUp
<1>9. sums \in [1 .. k -> Nat] /\ \A j \in 1 .. k : sums[j] = AddedUp(cell[s[j]])
  <2>1. ASSUME NEW j \in 1 .. k
        PROVE  SumTo(parts[j], n) \in Nat /\ SumTo(parts[j], n) = AddedUp(cell[s[j]])
    <3>1. parts[j] \in [1 .. n -> Nat] /\ n \in 0 .. n /\ n \in Nat
      BY <1>0, <1>5
    <3>2. SumTo(parts[j], n) \in Nat /\ SumTo(parts[j], n) = AddedUp(parts[j])
      BY <3>1, SumToIs, SumToAll
    <3> QED BY <1>7, <3>2
  <2> QED BY <2>1
<1>10. AddedUp(sums) = AddedUp(f)
  <2> HIDE DEF sums
  <2>1. SumTo(sums, k) = AddedUp(sums)
    BY <1>1, <1>9, SumToAll
  <2>2. SumTo(f, n) = AddedUp(f)
    BY <1>0, SumToAll
  <2> QED BY <1>8, <2>1, <2>2
<1>11. [j \in DOMAIN s |-> AddedUp(cell[s[j]])] = sums
  <2>1. DOMAIN s = 1 .. k
    BY <1>1
  <2> HIDE DEF sums
  <2> QED BY <1>9, <2>1
<1> QED BY <1>10, <1>11 DEF InTurn, s

\* The rows share out the numbers of the billed records.
LEMMA RowsAddUp ==
    ASSUME UsagesAreCounts, CostsAreCounts, LogInv, IsFiniteSet(Models),
           NEW f \in [1 .. Len(records) -> Nat],
           \A i \in DOMAIN records : ~HasUsage(records[i]) => f[i] = 0
    PROVE  AddedUp([j \in DOMAIN SetToSeq(RowsOf(records)) |->
                       AddedUp(RowPart(f, SetToSeq(RowsOf(records))[j]))]) = AddedUp(f)
<1> DEFINE n == Len(records)
           listed == RowsOf(records)
           key == [i \in 1 .. n |-> records[i].model]
           cell == [m \in listed |-> RowPart(f, m)]
           s == SetToSeq(listed)
<1>1. n \in Nat /\ DOMAIN records = 1 .. n /\ \A i \in DOMAIN records : records[i].model \in Models
  BY LogIs
<1>2. IsFiniteSet(listed)
  <2>1. listed \in SUBSET Models
    BY DEF RowsOf
  <2> HIDE DEF listed
  <2> QED BY <2>1, FS_Subset
<1>3. \A i \in 1 .. n : key[i] \in listed \/ f[i] = 0
  BY <1>1 DEF RowsOf
<1>4. \A m \in listed : /\ RowPart(f, m) \in [1 .. n -> Nat]
                      /\ \A i \in 1 .. n : RowPart(f, m)[i] = IF key[i] = m THEN f[i] ELSE 0
  BY <1>1 DEF RowPart
<1>5. f \in [1 .. n -> Nat]
  OBVIOUS
<1> HIDE DEF n, listed, key
<1>6. /\ cell \in [listed -> [1 .. n -> Nat]]
      /\ \A m \in listed, i \in 1 .. n : cell[m][i] = IF key[i] = m THEN f[i] ELSE 0
      /\ \A m \in listed : cell[m] = RowPart(f, m)
  BY <1>4
<1> HIDE DEF cell
<1>7. InTurn(listed, cell) = AddedUp(f)
  <2>1. SortedByKey(n, f, listed, key, cell)
    BY <1>1, <1>3, <1>5, <1>6 DEF SortedByKey
  <2> QED BY <1>2, <2>1, SharedOut
<1>8. \A j \in DOMAIN s : s[j] \in listed
  BY <1>2, SetToSeqIs
<1> HIDE DEF s
<1>9. [j \in DOMAIN s |-> AddedUp(cell[s[j]])] = [j \in DOMAIN s |-> AddedUp(RowPart(f, s[j]))]
  BY <1>6, <1>8
<1> QED BY <1>7, <1>9 DEF InTurn, s, listed

\* The pairings share out the numbers of all the records.
LEMMA PairingsAddUp ==
    ASSUME UsagesAreCounts, CostsAreCounts, LogInv, IsFiniteSet(Models),
           NEW f \in [1 .. Len(records) -> Nat]
    PROVE  AddedUp([j \in DOMAIN SetToSeq(Models \X Streams) |->
                       AddedUp(PairingPart(f, SetToSeq(Models \X Streams)[j][1],
                                              SetToSeq(Models \X Streams)[j][2]))]) = AddedUp(f)
<1> DEFINE n == Len(records)
           pairs == Models \X Streams
           key == [i \in 1 .. n |-> <<records[i].model, records[i].stream>>]
           cell == [p \in pairs |-> PairingPart(f, p[1], p[2])]
           s == SetToSeq(pairs)
<1>1. /\ n \in Nat /\ DOMAIN records = 1 .. n
      /\ \A i \in DOMAIN records : records[i].model \in Models /\ records[i].stream \in Streams
  BY LogIs
<1>2. IsFiniteSet(pairs)
  <2>1. IsFiniteSet(Streams)
    <3>1. IsFiniteSet({"main"}) /\ Streams = {"main"} \cup {"aux"}
      BY FS_Singleton DEF Streams
    <3> QED BY <3>1, FS_AddElement
  <2> QED BY <2>1, FS_Product
<1>3. \A i \in 1 .. n : key[i] \in pairs
  BY <1>1
<1>4. ASSUME NEW p \in pairs
      PROVE  /\ PairingPart(f, p[1], p[2]) \in [1 .. n -> Nat]
             /\ \A i \in 1 .. n : PairingPart(f, p[1], p[2])[i] = IF key[i] = p THEN f[i] ELSE 0
  <2>1. PICK m \in Models, t \in Streams : p = <<m, t>>
    OBVIOUS
  <2>2. p[1] = m /\ p[2] = t
    BY <2>1
  <2>3. PairingPart(f, m, t) \in [1 .. n -> Nat]
    BY <1>1 DEF PairingPart
  <2>4. ASSUME NEW i \in 1 .. n
        PROVE  PairingPart(f, m, t)[i] = IF key[i] = <<m, t>> THEN f[i] ELSE 0
    BY <1>1 DEF PairingPart
  <2> QED BY <2>1, <2>2, <2>3, <2>4
<1>5. f \in [1 .. n -> Nat]
  OBVIOUS
<1> HIDE DEF n, pairs, key
<1>6. /\ cell \in [pairs -> [1 .. n -> Nat]]
      /\ \A p \in pairs, i \in 1 .. n : cell[p][i] = IF key[i] = p THEN f[i] ELSE 0
      /\ \A p \in pairs : cell[p] = PairingPart(f, p[1], p[2])
  BY <1>4
<1> HIDE DEF cell
<1>7. InTurn(pairs, cell) = AddedUp(f)
  <2>1. SortedByKey(n, f, pairs, key, cell)
    BY <1>1, <1>3, <1>5, <1>6 DEF SortedByKey
  <2> QED BY <1>2, <2>1, SharedOut
<1>8. \A j \in DOMAIN s : s[j] \in pairs
  BY <1>2, SetToSeqIs
<1> HIDE DEF s
<1>9. [j \in DOMAIN s |-> AddedUp(cell[s[j]])] = [j \in DOMAIN s |-> AddedUp(PairingPart(f, s[j][1], s[j][2]))]
  BY <1>6, <1>8
<1> QED BY <1>7, <1>9 DEF InTurn, s, pairs

LEMMA SessionIs ==
    /\ AggregateUsage(records).read = AddedUp(Reads)
    /\ AggregateUsage(records).miss = AddedUp(Misses)
    /\ AggregateUsage(records).prompt = AddedUp(Prompts)
    /\ AggregateUsage(records).pairedRead = AddedUp(PairedReads)
    /\ AggregateUsage(records).requests = Len(records)
<1>1. /\ Total(records, Read) = AddedUp(Reads) /\ Total(records, Miss) = AddedUp(Misses)
      /\ Total(records, Prompt) = AddedUp(Prompts)
  BY DEF Total, Reads, Misses, Prompts
<1>2. Total(records, LAMBDA r : IF Paired(r) THEN Read(r) ELSE 0) = AddedUp(PairedReads)
  BY DEF Total, PairedReads
<1> QED BY <1>1, <1>2 DEF AggregateUsage

LEMMA RowIs ==
    ASSUME NEW m
    PROVE  /\ ModelRow(records, m).read = AddedUp(RowPart(Reads, m))
           /\ ModelRow(records, m).uncached = AddedUp(RowPart(Misses, m))
           /\ ModelRow(records, m).cost.some
                 = \A i \in DOMAIN records : HasUsage(records[i]) /\ records[i].model = m =>
                       records[i].usage.cost.some
           /\ ModelRow(records, m).cost.some => ModelRow(records, m).cost.value = AddedUp(RowPart(Costs, m))
<1> DEFINE Mine(r) == HasUsage(r) /\ r.model = m
<1>1. /\ TotalWhere(records, Mine, Read) = AddedUp(RowPart(Reads, m))
      /\ TotalWhere(records, Mine, Miss) = AddedUp(RowPart(Misses, m))
      /\ TotalWhere(records, Mine, Cost) = AddedUp(RowPart(Costs, m))
  <2>1. [i \in DOMAIN records |-> IF HasUsage(records[i]) /\ records[i].model = m THEN Read(records[i]) ELSE 0]
        = RowPart(Reads, m)
    BY DEF RowPart, Reads
  <2>2. [i \in DOMAIN records |-> IF HasUsage(records[i]) /\ records[i].model = m THEN Miss(records[i]) ELSE 0]
        = RowPart(Misses, m)
    BY DEF RowPart, Misses
  <2>3. [i \in DOMAIN records |-> IF HasUsage(records[i]) /\ records[i].model = m THEN Cost(records[i]) ELSE 0]
        = RowPart(Costs, m)
    BY DEF RowPart, Costs
  <2> QED BY <2>1, <2>2, <2>3 DEF TotalWhere, Total
<1> QED BY <1>1 DEF ModelRow

LEMMA PairingIs ==
    ASSUME NEW m, NEW s
    PROVE  /\ PairingRate(records, m, s).prompt = AddedUp(PairingPart(Prompts, m, s))
           /\ PairingRate(records, m, s).requests = AddedUp(PairingPart(Ones, m, s))
           /\ PairingRate(records, m, s).read = AddedUp(SteadyPart(m, s))
<1> DEFINE Mine(r) == r.model = m /\ r.stream = s
<1>1. TotalWhere(records, Mine, Prompt) = AddedUp(PairingPart(Prompts, m, s))
  <2>1. [i \in DOMAIN records |-> IF records[i].model = m /\ records[i].stream = s THEN Prompt(records[i]) ELSE 0]
        = PairingPart(Prompts, m, s)
    BY DEF PairingPart, Prompts
  <2> QED BY <2>1 DEF TotalWhere, Total
<1>2. CountWhere(records, Mine) = AddedUp(PairingPart(Ones, m, s))
  <2>1. [i \in DOMAIN records |-> IF records[i].model = m /\ records[i].stream = s THEN 1 ELSE 0]
        = PairingPart(Ones, m, s)
    BY DEF PairingPart, Ones
  <2> QED BY <2>1 DEF CountWhere, TotalWhere, Total
<1>3. PairingRate(records, m, s).read = AddedUp(SteadyPart(m, s))
  BY DEF PairingRate, SteadyPart
<1> QED BY <1>1, <1>2, <1>3 DEF PairingRate

LEMMA CreditsAre ==
    /\ Credits(records).some = (AddedUp(Billed) > 0 /\ AddedUp(Priced) = AddedUp(Billed))
    /\ Credits(records).some => Credits(records).value = AddedUp(Costs)
<1>1. CountWhere(records, HasUsage) = AddedUp(Billed)
  BY DEF CountWhere, TotalWhere, Total, Billed
<1>2. CountWhere(records, LAMBDA r : HasUsage(r) /\ r.usage.cost.some) = AddedUp(Priced)
  BY DEF CountWhere, TotalWhere, Total, Priced
<1>3. TotalWhere(records, HasUsage, Cost) = AddedUp(Costs)
  BY DEF TotalWhere, Total, Costs
<1> QED BY <1>1, <1>2, <1>3 DEF Credits

LEMMA SumsCompare ==
    ASSUME NEW n \in Nat, NEW f \in [1 .. n -> Nat], NEW g \in [1 .. n -> Nat],
           \A i \in 1 .. n : f[i] <= g[i]
    PROVE  /\ AddedUp(f) \in Nat /\ AddedUp(g) \in Nat /\ AddedUp(f) <= AddedUp(g)
           /\ AddedUp(f) = AddedUp(g) => f = g
<1>1. SumTo(f, n) = AddedUp(f) /\ SumTo(g, n) = AddedUp(g)
  BY SumToAll
<1>2. SumTo(f, n) \in Nat /\ SumTo(g, n) \in Nat
  <2>1. n \in 0 .. n
    OBVIOUS
  <2> QED BY <2>1, SumToIs
<1>3. SumTo(f, n) <= SumTo(g, n) /\ (SumTo(f, n) = SumTo(g, n) => f = g)
  BY SumToCompares
<1> QED BY <1>1, <1>2, <1>3

LEMMA SameFunction ==
    ASSUME NEW S, NEW f \in [S -> Nat], NEW g \in [S -> Nat], \A i \in S : f[i] = g[i]
    PROVE  f = g
  OBVIOUS

\* The session has a price exactly when some reply is billed and every row has a price.
LEMMA PriceIsKnown ==
    ASSUME UsagesAreCounts, CostsAreCounts, LogInv
    PROVE  Credits(records).some <=> /\ RowsOf(records) # {}
                                     /\ \A m \in RowsOf(records) : ModelRow(records, m).cost.some
<1> DEFINE n == Len(records)
           naughts == [i \in 1 .. n |-> 0]
           known == \A i \in DOMAIN records : HasUsage(records[i]) => records[i].usage.cost.some
<1>1. n \in Nat /\ DOMAIN records = 1 .. n /\ \A i \in DOMAIN records : records[i].model \in Models
  BY LogIs
<1>2. Billed \in [1 .. n -> Nat] /\ Priced \in [1 .. n -> Nat]
  BY NumbersOfLog
<1>3. \A i \in 1 .. n :
          /\ Billed[i] = IF HasUsage(records[i]) THEN 1 ELSE 0
          /\ Priced[i] = IF HasUsage(records[i]) /\ records[i].usage.cost.some THEN 1 ELSE 0
  BY <1>1 DEF Billed, Priced
<1>4. naughts \in [1 .. n -> Nat] /\ \A i \in 1 .. n : naughts[i] = 0
  OBVIOUS
<1>5. AddedUp(naughts) = 0
  <2>1. SumTo(naughts, n) = 0
    BY <1>1, SumToOfOnes
  <2> HIDE DEF naughts, n
  <2> QED BY <1>1, <1>4, <2>1, SumToAll
<1> HIDE DEF n, naughts
<1>6. /\ AddedUp(Billed) \in Nat /\ AddedUp(Priced) \in Nat
      /\ AddedUp(Priced) = AddedUp(Billed) => Priced = Billed
  <2>1. \A i \in 1 .. n : Priced[i] <= Billed[i]
    BY <1>3
  <2> QED BY <1>1, <1>2, <2>1, SumsCompare
<1>7. AddedUp(Billed) = 0 => Billed = naughts
  <2>1. \A i \in 1 .. n : naughts[i] <= Billed[i]
    BY <1>3, <1>4
  <2>2. AddedUp(naughts) = AddedUp(Billed) => naughts = Billed
    BY <1>1, <1>2, <1>4, <2>1, SumsCompare
  <2> QED BY <1>5, <2>2
<1>8. AddedUp(Billed) > 0 <=> RowsOf(records) # {}
  <2>1. ASSUME AddedUp(Billed) > 0
        PROVE  RowsOf(records) # {}
    <3>1. Billed # naughts
      BY <1>5, <2>1
    <3>2. PICK i \in 1 .. n : Billed[i] # naughts[i]
      BY <1>2, <1>4, <3>1, SameFunction
    <3>3. HasUsage(records[i]) /\ records[i].model \in Models /\ i \in DOMAIN records
      BY <1>1, <1>3, <1>4, <3>2
    <3> QED BY <3>3 DEF RowsOf
  <2>2. ASSUME RowsOf(records) # {}
        PROVE  AddedUp(Billed) > 0
    <3>1. PICK i \in DOMAIN records : HasUsage(records[i])
      BY <2>2 DEF RowsOf
    <3>2. Billed[i] = 1 /\ naughts[i] = 0
      BY <1>1, <1>3, <1>4, <3>1
    <3>3. AddedUp(Billed) # 0
      BY <1>7, <3>2
    <3> QED BY <1>6, <3>3
  <2> QED BY <2>1, <2>2
<1>9. AddedUp(Priced) = AddedUp(Billed) <=> known
  <2>1. ASSUME AddedUp(Priced) = AddedUp(Billed), NEW i \in DOMAIN records, HasUsage(records[i])
        PROVE  records[i].usage.cost.some
    <3>1. Priced[i] = Billed[i]
      BY <1>6, <2>1
    <3>2. Billed[i] = 1
      BY <1>1, <1>3, <2>1
    <3>3. Priced[i] = IF HasUsage(records[i]) /\ records[i].usage.cost.some THEN 1 ELSE 0
      BY <1>1, <1>3
    <3> QED BY <3>1, <3>2, <3>3
  <2>2. ASSUME known
        PROVE  Priced = Billed
    <3>1. \A i \in 1 .. n : Priced[i] = Billed[i]
      BY <1>1, <1>3, <2>2
    <3> QED BY <1>2, <3>1, SameFunction
  <2> QED BY <2>1, <2>2
<1>10. known <=> \A m \in RowsOf(records) : ModelRow(records, m).cost.some
  <2>1. \A m : ModelRow(records, m).cost.some
                  = \A i \in DOMAIN records : HasUsage(records[i]) /\ records[i].model = m =>
                        records[i].usage.cost.some
    BY RowIs
  <2>2. \A i \in DOMAIN records : HasUsage(records[i]) => records[i].model \in RowsOf(records)
    BY <1>1 DEF RowsOf
  <2> QED BY <2>1, <2>2
<1>11. Credits(records).some = (AddedUp(Billed) > 0 /\ AddedUp(Priced) = AddedUp(Billed))
  BY CreditsAre
<1> HIDE DEF known
<1> QED BY <1>8, <1>9, <1>10, <1>11

LEMMA ReportsOfLog ==
    ASSUME UsagesAreCounts, CostsAreCounts, LogInv, IsFiniteSet(Models)
    PROVE  ReportsAgree
<1> DEFINE n == Len(records)
           listed == SetToSeq(RowsOf(records))
           pairs == SetToSeq(Models \X Streams)
<1>1. /\ n \in Nat /\ DOMAIN records = 1 .. n
      /\ \A i \in DOMAIN records : ~HasUsage(records[i]) => Read(records[i]) = 0 /\ Miss(records[i]) = 0
  BY LogIs
<1>2. /\ Reads \in [1 .. n -> Nat] /\ Misses \in [1 .. n -> Nat] /\ Prompts \in [1 .. n -> Nat]
      /\ Costs \in [1 .. n -> Nat] /\ Ones \in [1 .. n -> Nat] /\ PairedReads \in [1 .. n -> Nat]
      /\ \A m, s : SteadyPart(m, s) \in [1 .. n -> Nat]
  BY NumbersOfLog
<1>3. AddedUp([j \in DOMAIN listed |-> ModelRow(records, listed[j]).read]) = AddedUp(Reads)
  <2>1. \A i \in DOMAIN records : ~HasUsage(records[i]) => Reads[i] = 0
    BY <1>1 DEF Reads
  <2>2. AddedUp([j \in DOMAIN listed |-> AddedUp(RowPart(Reads, listed[j]))]) = AddedUp(Reads)
    BY <1>2, <2>1, RowsAddUp
  <2> HIDE DEF listed
  <2>3. [j \in DOMAIN listed |-> ModelRow(records, listed[j]).read]
        = [j \in DOMAIN listed |-> AddedUp(RowPart(Reads, listed[j]))]
    BY RowIs
  <2> QED BY <2>2, <2>3
<1>4. AddedUp([j \in DOMAIN listed |-> ModelRow(records, listed[j]).uncached]) = AddedUp(Misses)
  <2>1. \A i \in DOMAIN records : ~HasUsage(records[i]) => Misses[i] = 0
    BY <1>1 DEF Misses
  <2>2. AddedUp([j \in DOMAIN listed |-> AddedUp(RowPart(Misses, listed[j]))]) = AddedUp(Misses)
    BY <1>2, <2>1, RowsAddUp
  <2> HIDE DEF listed
  <2>3. [j \in DOMAIN listed |-> ModelRow(records, listed[j]).uncached]
        = [j \in DOMAIN listed |-> AddedUp(RowPart(Misses, listed[j]))]
    BY RowIs
  <2> QED BY <2>2, <2>3
<1>5. AddedUp([j \in DOMAIN pairs |-> PairingRate(records, pairs[j][1], pairs[j][2]).prompt])
      = AddedUp(Prompts)
  <2>1. AddedUp([j \in DOMAIN pairs |-> AddedUp(PairingPart(Prompts, pairs[j][1], pairs[j][2]))])
        = AddedUp(Prompts)
    BY <1>2, PairingsAddUp
  <2> HIDE DEF pairs
  <2>2. [j \in DOMAIN pairs |-> PairingRate(records, pairs[j][1], pairs[j][2]).prompt]
        = [j \in DOMAIN pairs |-> AddedUp(PairingPart(Prompts, pairs[j][1], pairs[j][2]))]
    BY PairingIs
  <2> QED BY <2>1, <2>2
<1>6. AddedUp([j \in DOMAIN pairs |-> PairingRate(records, pairs[j][1], pairs[j][2]).requests]) = n
  <2>1. AddedUp([j \in DOMAIN pairs |-> AddedUp(PairingPart(Ones, pairs[j][1], pairs[j][2]))])
        = AddedUp(Ones)
    BY <1>2, PairingsAddUp
  <2>2. AddedUp(Ones) = n
    <3>1. Ones = [i \in 1 .. n |-> 1]
      BY <1>1 DEF Ones
    <3> HIDE DEF n
    <3>2. SumTo(Ones, n) = n
      BY <1>1, <3>1, SumToOfOnes
    <3> QED BY <1>1, <1>2, <3>2, SumToAll
  <2> HIDE DEF pairs
  <2>3. [j \in DOMAIN pairs |-> PairingRate(records, pairs[j][1], pairs[j][2]).requests]
        = [j \in DOMAIN pairs |-> AddedUp(PairingPart(Ones, pairs[j][1], pairs[j][2]))]
    BY PairingIs
  <2> QED BY <2>1, <2>2, <2>3
<1>7. AddedUp([j \in DOMAIN pairs |-> PairingRate(records, pairs[j][1], pairs[j][2]).read])
      <= AddedUp(PairedReads)
  <2> DEFINE k == Cardinality(Models \X Streams)
             steady == [j \in 1 .. k |-> AddedUp(SteadyPart(pairs[j][1], pairs[j][2]))]
             paired == [j \in 1 .. k |-> AddedUp(PairingPart(PairedReads, pairs[j][1], pairs[j][2]))]
  <2>1. k \in Nat /\ DOMAIN pairs = 1 .. k
    <3>1. IsFiniteSet(Models \X Streams)
      <4>1. IsFiniteSet({"main"}) /\ Streams = {"main"} \cup {"aux"}
        BY FS_Singleton DEF Streams
      <4>2. IsFiniteSet(Streams)
        BY <4>1, FS_AddElement
      <4> QED BY <4>2, FS_Product
    <3>2. k \in Nat /\ pairs \in [1 .. k -> Models \X Streams]
      BY <3>1, SetToSeqIs
    <3> QED BY <3>2
  <2>2. AddedUp([j \in DOMAIN pairs |-> AddedUp(PairingPart(PairedReads, pairs[j][1], pairs[j][2]))])
        = AddedUp(PairedReads)
    BY <1>2, PairingsAddUp
  <2> HIDE DEF pairs, k
  <2>3. [j \in DOMAIN pairs |-> PairingRate(records, pairs[j][1], pairs[j][2]).read] = steady
    BY <2>1, PairingIs
  <2>4. ASSUME NEW m, NEW s
        PROVE  /\ AddedUp(SteadyPart(m, s)) \in Nat /\ AddedUp(PairingPart(PairedReads, m, s)) \in Nat
               /\ AddedUp(SteadyPart(m, s)) <= AddedUp(PairingPart(PairedReads, m, s))
    <3>1. SteadyPart(m, s) \in [1 .. n -> Nat]
      BY <1>2
    <3>2. /\ PairingPart(PairedReads, m, s) \in [1 .. n -> Nat]
          /\ \A i \in 1 .. n : PairingPart(PairedReads, m, s)[i]
                = IF records[i].model = m /\ records[i].stream = s THEN PairedReads[i] ELSE 0
      BY <1>1, <1>2 DEF PairingPart
    <3>3. \A i \in 1 .. n : PairedReads[i] = IF Paired(records[i]) THEN Read(records[i]) ELSE 0
      BY <1>1 DEF PairedReads
    <3>4. ASSUME NEW i \in 1 .. n
          PROVE  SteadyPart(m, s)[i] <= PairingPart(PairedReads, m, s)[i]
      <4>1. \/ SteadyPart(m, s)[i] = 0
            \/ /\ records[i].model = m /\ records[i].stream = s /\ Paired(records[i])
               /\ SteadyPart(m, s)[i] = Read(records[i])
        BY <1>1 DEF SteadyPart
      <4>2. PairingPart(PairedReads, m, s)[i] \in Nat
        BY <3>2
      <4>3. CASE SteadyPart(m, s)[i] = 0
        BY <4>2, <4>3
      <4>4. CASE /\ records[i].model = m /\ records[i].stream = s /\ Paired(records[i])
                 /\ SteadyPart(m, s)[i] = Read(records[i])
        <5>1. PairingPart(PairedReads, m, s)[i] = SteadyPart(m, s)[i]
          BY <3>2, <3>3, <4>4
        <5> QED BY <4>2, <5>1
      <4> QED BY <4>1, <4>3, <4>4
    <3> HIDE DEF n
    <3> QED BY <1>1, <3>1, <3>2, <3>4, SumsCompare
  <2>5. /\ steady \in [1 .. k -> Nat] /\ paired \in [1 .. k -> Nat]
        /\ \A j \in 1 .. k : steady[j] <= paired[j]
    BY <2>4
  <2>6. AddedUp(paired) = AddedUp(PairedReads)
    BY <2>1, <2>2
  <2> HIDE DEF steady, paired
  <2>7. AddedUp(steady) <= AddedUp(paired)
    BY <2>1, <2>5, SumsCompare
  <2> QED BY <2>3, <2>6, <2>7
<1>8. Credits(records).some => AddedUp([j \in DOMAIN listed |-> ModelRow(records, listed[j]).cost.value])
                               = Credits(records).value
  <2> SUFFICES ASSUME Credits(records).some
               PROVE  AddedUp([j \in DOMAIN listed |-> ModelRow(records, listed[j]).cost.value])
                      = Credits(records).value
    OBVIOUS
  <2>1. \A m \in RowsOf(records) : ModelRow(records, m).cost.some
    BY PriceIsKnown
  <2>2. Credits(records).value = AddedUp(Costs)
    BY CreditsAre
  <2>3. \A i \in DOMAIN records : ~HasUsage(records[i]) => Costs[i] = 0
    BY DEF Costs
  <2>4. AddedUp([j \in DOMAIN listed |-> AddedUp(RowPart(Costs, listed[j]))]) = AddedUp(Costs)
    BY <1>2, <2>3, RowsAddUp
  <2>5. \A j \in DOMAIN listed : listed[j] \in RowsOf(records)
    <3>1. IsFiniteSet(RowsOf(records))
      <4>1. RowsOf(records) \in SUBSET Models
        BY DEF RowsOf
      <4> QED BY <4>1, FS_Subset
    <3> QED BY <3>1, SetToSeqIs
  <2> HIDE DEF listed
  <2>6. \A j \in DOMAIN listed : ModelRow(records, listed[j]).cost.value = AddedUp(RowPart(Costs, listed[j]))
    BY <2>1, <2>5, RowIs
  <2>7. [j \in DOMAIN listed |-> ModelRow(records, listed[j]).cost.value]
        = [j \in DOMAIN listed |-> AddedUp(RowPart(Costs, listed[j]))]
    BY <2>6
  <2> QED BY <2>2, <2>4, <2>7
<1>9. Credits(records).some <=> /\ RowsOf(records) # {}
                                /\ \A m \in RowsOf(records) : ModelRow(records, m).cost.some
  BY PriceIsKnown
<1>10. /\ AggregateUsage(records).read = AddedUp(Reads)
       /\ AggregateUsage(records).miss = AddedUp(Misses)
       /\ AggregateUsage(records).prompt = AddedUp(Prompts)
       /\ AggregateUsage(records).pairedRead = AddedUp(PairedReads)
       /\ AggregateUsage(records).requests = n
  BY SessionIs
<1> QED BY <1>3, <1>4, <1>5, <1>6, <1>7, <1>8, <1>9, <1>10 DEF ReportsAgree, Total

\* For usages and costs that are counts and any finitely many models, however long the log is
\* and whoever recorded: the rows per model and the rates per pairing add up to the session's
\* sums, and the session has a price exactly when every row has one.
THEOREM ReportsAlwaysAgree ==
    ASSUME UsagesAreCounts, CostsAreCounts, IsFiniteSet(Models)
    PROVE  LedgerSpec => []ReportsAgree
<1>1. LedgerInit => LogInv
  <2> SUFFICES ASSUME LedgerInit
               PROVE  LogInv
    OBVIOUS
  <2>1. PICK S : S = {}
    OBVIOUS
  <2>2. <<>> \in Seq(S) /\ \A r \in S : r.usage \in Usages /\ r.model \in Models /\ r.stream \in Streams
    BY <2>1
  <2>3. records = <<>>
    BY DEF LedgerInit
  <2> QED BY <2>2, <2>3 DEF LogInv
<1>2. LogInv /\ [LedgerNext]_ledgerVars => LogInv'
  <2> SUFFICES ASSUME LogInv, [LedgerNext]_ledgerVars
               PROVE  LogInv'
    OBVIOUS
  <2>1. ASSUME NEW new, new.usage \in Usages, new.model \in Models, new.stream \in Streams,
               records' = Append(records, new)
        PROVE  LogInv'
    <3>1. PICK R : /\ records \in Seq(R)
                   /\ \A r \in R : r.usage \in Usages /\ r.model \in Models /\ r.stream \in Streams
      BY DEF LogInv
    <3> DEFINE S == R \union {new}
    <3>2. Len(records) \in Nat /\ records \in [1 .. Len(records) -> R]
      BY <3>1, LenProperties
    <3>3. records \in [1 .. Len(records) -> S]
      BY <3>2
    <3>4. new \in S /\ \A r \in S : r.usage \in Usages /\ r.model \in Models /\ r.stream \in Streams
      BY <2>1, <3>1
    <3> HIDE DEF S
    <3>5. records \in Seq(S)
      BY <3>2, <3>3, SeqDef
    <3>6. records' \in Seq(S)
      BY <2>1, <3>4, <3>5, AppendProperties
    <3> QED BY <3>4, <3>6 DEF LogInv
  <2>2. ASSUME NEW m \in Models, NEW usage \in Usages, RecordMain(m, usage)
        PROVE  LogInv'
    <3>1. PICK changed \in BOOLEAN, grew \in BOOLEAN :
              records' = Append(records,
                  [stream |-> "main", model |-> m, usage |-> usage,
                   attribution |-> Attribution(usage, changed, grew),
                   tail |-> [some |-> MainRecords(records) # <<>> /\ usage.prompt.some,
                             value |-> NewTail(MainRecords(records), usage)]])
      BY <2>2 DEF RecordMain
    <3>2. PICK new : records' = Append(records, new) /\ new.usage = usage /\ new.model = m /\ new.stream = "main"
      BY <3>1
    <3> QED BY <2>1, <2>2, <3>2 DEF Streams
  <2>3. ASSUME NEW p \in Recorders, NEW m \in Models, NEW usage \in Usages, RecordAux(p, m, usage)
        PROVE  LogInv'
    <3>1. PICK new : records' = Append(records, new) /\ new.usage = usage /\ new.model = m /\ new.stream = "aux"
      BY <2>3 DEF RecordAux
    <3> QED BY <2>1, <2>3, <3>1 DEF Streams
  <2>4. ASSUME UNCHANGED records
        PROVE  LogInv'
    BY <2>4 DEF LogInv
  <2>5. CASE StartTask \/ EndTask \/ RecordHarnessEvent
    BY <2>4, <2>5 DEF StartTask, EndTask, RecordHarnessEvent
  <2>6. ASSUME NEW p \in Recorders, Take(p) \/ Callback(p)
        PROVE  LogInv'
    BY <2>4, <2>6 DEF Take, Callback
  <2>7. CASE UNCHANGED ledgerVars
    BY <2>4, <2>7 DEF ledgerVars
  <2> QED BY <2>2, <2>3, <2>5, <2>6, <2>7 DEF LedgerNext
<1>3. LogInv => ReportsAgree
  BY ReportsOfLog
<1> QED BY <1>1, <1>2, <1>3, PTL DEF LedgerSpec

-----------------------------------------------------------------------------
(* The bridge: what is on its way to the screen, and what it shows. *)

\* What the engine sends and the screen shows: a piece of text, or a call that starts.
ScreenItems == [kind : {"text", "start"}, piece : Int, name : ToolNames \cup {""}]

RowStates == {"", "running", "ok", "cancelled"}

\* The rows of the transcript and the messages of the bridge.
ScreenRows ==
    [kind : {"user", "assistant_draft", "assistant"}, body : Seq(Int), name : {""}, state : RowStates]
    \cup [kind : {"tool"}, body : Seq(Int), name : ToolNames, state : RowStates, call : Int]

BridgeMessages ==
    [kind : {"text"}, body : Seq(Int)]
    \cup [kind : {"output"}, name : ToolNames, body : Seq(Int)]
    \cup [kind : {"start"}, name : ToolNames, call : Int]
    \cup [kind : {"end"}, name : ToolNames \cup {""}]
    \cup [kind : {"stats"}]

EnginePlaces == {"idle", "turn", "starting", "tool", "ending", "completing", "done"}

BridgeShape ==
    /\ rows \in Seq(ScreenRows) /\ outbox \in Seq(BridgeMessages)
    /\ streamBuf \in Seq(Int) /\ toolBuf \in Seq([name : ToolNames, chunks : Seq(Int)])
    /\ engine \in [at : EnginePlaces, tool : ToolNames \cup {""}, text : Seq(Int), calls : Int]
    /\ sentPieces \in Seq(ScreenItems) /\ pieces \in Int /\ answer \in Seq(Int)

\* What a message will show.
MessageItems(m) ==
    IF m.kind = "text" THEN TextItems(m.body)
    ELSE IF m.kind = "start" THEN <<StartMark(m.name, m.call)>> ELSE <<>>

RowLists(r) == [i \in DOMAIN r |-> RowItems(r[i])]
MessageLists(q) == [i \in DOMAIN q |-> MessageItems(q[i])]

\* Until the answer is shown, what the engine sent is what the screen shows, what is
\* on its way there and what the bridge buffers, in this order.
NothingLost ==
    engine.at # "done" =>
        (ShownOrder \o FlattenSeq(MessageLists(outbox))) \o TextItems(streamBuf) = sentPieces

BridgeInv == BridgeShape /\ NothingLost

\* Text shows its pieces, one by one and in order.
LEMMA ItemsOfText ==
    ASSUME NEW b \in Seq(Int)
    PROVE  TextItems(b) \in Seq(ScreenItems) /\ Len(TextItems(b)) = Len(b)
           /\ \A i \in 1 .. Len(b) : TextItems(b)[i] = TextPiece(b[i])
<1>1. DOMAIN b = 1 .. Len(b) /\ Len(b) \in Nat /\ \A i \in 1 .. Len(b) : b[i] \in Int
  OBVIOUS
<1>2. \A x \in Int : TextPiece(x) \in ScreenItems
  BY DEF TextPiece, ScreenItems
<1>3. TextItems(b) = [i \in 1 .. Len(b) |-> TextPiece(b[i])]
  BY <1>1 DEF TextItems
<1>4. \A i \in 1 .. Len(b) : TextPiece(b[i]) \in ScreenItems
  BY <1>1, <1>2
<1> QED BY <1>1, <1>3, <1>4

LEMMA ItemsJoined ==
    ASSUME NEW a \in Seq(Int), NEW b \in Seq(Int)
    PROVE  TextItems(a \o b) = TextItems(a) \o TextItems(b)
<1> DEFINE c == a \o b
           x == TextItems(a)
           y == TextItems(b)
           z == TextItems(c)
           m == Len(a)
           n == Len(b)
<1>1. c \in Seq(Int) /\ Len(c) = m + n /\ m \in Nat /\ n \in Nat
      /\ \A i \in 1 .. m + n : c[i] = IF i <= m THEN a[i] ELSE b[i - m]
  OBVIOUS
<1> HIDE DEF c
<1>2. /\ x \in Seq(ScreenItems) /\ Len(x) = m /\ \A i \in 1 .. m : x[i] = TextPiece(a[i])
      /\ y \in Seq(ScreenItems) /\ Len(y) = n /\ \A i \in 1 .. n : y[i] = TextPiece(b[i])
  BY ItemsOfText
<1>3. z \in Seq(ScreenItems) /\ Len(z) = m + n /\ \A i \in 1 .. m + n : z[i] = TextPiece(c[i])
  BY <1>1, ItemsOfText
<1> HIDE DEF x, y, z
<1>4. \A i \in 1 .. m + n : z[i] = (x \o y)[i]
  <2> TAKE i \in 1 .. m + n
  <2>1. CASE i <= m
    <3>1. i \in 1 .. m
      BY <1>1, <2>1
    <3> QED BY <1>1, <1>2, <1>3, <2>1, <3>1
  <2>2. CASE ~(i <= m)
    <3>1. i - m \in 1 .. n
      BY <1>1, <2>2
    <3>2. z[i] = TextPiece(b[i - m]) /\ y[i - m] = TextPiece(b[i - m])
      BY <1>1, <1>2, <1>3, <2>2, <3>1
    <3> HIDE DEF m, n
    <3>3. (x \o y)[i] = y[i - m]
      BY <1>1, <1>2, <2>2, <3>1
    <3> QED BY <3>2, <3>3
  <2> QED BY <2>1, <2>2
<1> HIDE DEF m, n
<1>5. (x \o y) \in Seq(ScreenItems) /\ Len(x \o y) = m + n
  <2>1. x \o y \in Seq(ScreenItems) /\ Len(x \o y) = Len(x) + Len(y)
    BY <1>2, ConcatProperties
  <2> QED BY <1>2, <2>1
<1>6. z = x \o y
  BY <1>3, <1>4, <1>5, SeqEqual
<1> QED BY <1>6 DEF x, y, z, c

LEMMA ItemsOfOne ==
    ASSUME NEW p \in Int
    PROVE  TextItems(<<p>>) = <<TextPiece(p)>>
BY DEF TextItems

LEMMA NoItems == TextItems(<<>>) = <<>>
BY DEF TextItems

LEMMA ItemsOfRow ==
    ASSUME NEW r \in ScreenRows
    PROVE  RowItems(r) \in Seq(ScreenItems)
<1>1. CASE r.kind = "tool"
  <2>1. r.name \in ToolNames /\ r.call \in Int
    BY <1>1 DEF ScreenRows
  <2>2. StartMark(r.name, r.call) \in ScreenItems
    BY <2>1 DEF StartMark, ScreenItems
  <2>3. RowItems(r) = <<StartMark(r.name, r.call)>>
    BY <1>1 DEF RowItems
  <2> QED BY <2>2, <2>3
<1>2. CASE r.kind = "user"
  BY <1>2 DEF RowItems
<1>3. CASE r.kind # "tool" /\ r.kind # "user"
  <2>1. RowItems(r) = TextItems(r.body)
    BY <1>3 DEF RowItems
  <2>2. r.body \in Seq(Int)
    BY DEF ScreenRows
  <2> QED BY <2>1, <2>2, ItemsOfText
<1> QED BY <1>1, <1>2, <1>3

LEMMA ItemsOfMessage ==
    ASSUME NEW m \in BridgeMessages
    PROVE  MessageItems(m) \in Seq(ScreenItems)
<1>1. CASE m.kind = "text"
  <2>1. m.body \in Seq(Int)
    BY <1>1 DEF BridgeMessages
  <2> QED BY <1>1, <2>1, ItemsOfText DEF MessageItems
<1>2. CASE m.kind = "start"
  <2>1. m.name \in ToolNames /\ m.call \in Int
    BY <1>2 DEF BridgeMessages
  <2>2. StartMark(m.name, m.call) \in ScreenItems
    BY <2>1 DEF StartMark, ScreenItems
  <2> QED BY <1>2, <2>2 DEF MessageItems
<1>3. CASE m.kind # "text" /\ m.kind # "start"
  BY <1>3 DEF MessageItems
<1> QED BY <1>1, <1>2, <1>3

-----------------------------------------------------------------------------
(* Lists of rows and of messages. *)

LEMMA ListsOfRows ==
    ASSUME NEW r \in Seq(ScreenRows)
    PROVE  /\ RowLists(r) \in Seq(Seq(ScreenItems)) /\ Len(RowLists(r)) = Len(r)
           /\ \A i \in 1 .. Len(r) : RowLists(r)[i] = RowItems(r[i])
<1>1. DOMAIN r = 1 .. Len(r) /\ Len(r) \in Nat /\ \A i \in 1 .. Len(r) : r[i] \in ScreenRows
  BY LenProperties, ElementOfSeq
<1>2. RowLists(r) = [i \in 1 .. Len(r) |-> RowItems(r[i])]
  BY <1>1 DEF RowLists
<1>3. \A i \in 1 .. Len(r) : RowItems(r[i]) \in Seq(ScreenItems)
  BY <1>1, ItemsOfRow
<1> QED BY <1>1, <1>2, <1>3

LEMMA ListsOfMessages ==
    ASSUME NEW q \in Seq(BridgeMessages)
    PROVE  /\ MessageLists(q) \in Seq(Seq(ScreenItems)) /\ Len(MessageLists(q)) = Len(q)
           /\ \A i \in 1 .. Len(q) : MessageLists(q)[i] = MessageItems(q[i])
<1>1. DOMAIN q = 1 .. Len(q) /\ Len(q) \in Nat /\ \A i \in 1 .. Len(q) : q[i] \in BridgeMessages
  BY LenProperties, ElementOfSeq
<1>2. MessageLists(q) = [i \in 1 .. Len(q) |-> MessageItems(q[i])]
  BY <1>1 DEF MessageLists
<1>3. \A i \in 1 .. Len(q) : MessageItems(q[i]) \in Seq(ScreenItems)
  BY <1>1, ItemsOfMessage
<1> QED BY <1>1, <1>2, <1>3

\* What one more row shows, and one more message.
LEMMA RowAppended ==
    ASSUME NEW r \in Seq(ScreenRows), NEW x \in ScreenRows
    PROVE  FlattenSeq(RowLists(Append(r, x))) = FlattenSeq(RowLists(r)) \o RowItems(x)
<1> DEFINE s == Append(r, x)
<1>1. s \in Seq(ScreenRows) /\ Len(s) = Len(r) + 1 /\ Len(r) \in Nat /\ s[Len(r) + 1] = x
      /\ \A i \in 1 .. Len(r) : s[i] = r[i]
  BY AppendProperties, LenProperties
<1> HIDE DEF s
<1> DEFINE k == RowLists(r)
           l == RowLists(s)
<1>2. k \in Seq(Seq(ScreenItems)) /\ Len(k) = Len(r) /\ \A i \in 1 .. Len(r) : k[i] = RowItems(r[i])
  BY ListsOfRows
<1>3. l \in Seq(Seq(ScreenItems)) /\ Len(l) = Len(s) /\ \A i \in 1 .. Len(s) : l[i] = RowItems(s[i])
  BY <1>1, ListsOfRows
<1>4. RowItems(x) \in Seq(ScreenItems)
  BY ItemsOfRow
<1> HIDE DEF k, l
<1>5. FlattenSeq(l) = FlattenSeq(k) \o RowItems(x)
  <2>1. Len(l) = Len(k) + 1 /\ (\A i \in 1 .. Len(k) : l[i] = k[i]) /\ l[Len(k) + 1] = RowItems(x)
    BY <1>1, <1>2, <1>3
  <2> QED BY <1>2, <1>3, <1>4, <2>1, ListGrows
<1> QED BY <1>5 DEF k, l, s

LEMMA MessageAppended ==
    ASSUME NEW r \in Seq(BridgeMessages), NEW x \in BridgeMessages
    PROVE  FlattenSeq(MessageLists(Append(r, x))) = FlattenSeq(MessageLists(r)) \o MessageItems(x)
<1> DEFINE s == Append(r, x)
<1>1. s \in Seq(BridgeMessages) /\ Len(s) = Len(r) + 1 /\ Len(r) \in Nat /\ s[Len(r) + 1] = x
      /\ \A i \in 1 .. Len(r) : s[i] = r[i]
  BY AppendProperties, LenProperties
<1> HIDE DEF s
<1> DEFINE k == MessageLists(r)
           l == MessageLists(s)
<1>2. k \in Seq(Seq(ScreenItems)) /\ Len(k) = Len(r) /\ \A i \in 1 .. Len(r) : k[i] = MessageItems(r[i])
  BY ListsOfMessages
<1>3. l \in Seq(Seq(ScreenItems)) /\ Len(l) = Len(s) /\ \A i \in 1 .. Len(s) : l[i] = MessageItems(s[i])
  BY <1>1, ListsOfMessages
<1>4. MessageItems(x) \in Seq(ScreenItems)
  BY ItemsOfMessage
<1> HIDE DEF k, l
<1>5. FlattenSeq(l) = FlattenSeq(k) \o MessageItems(x)
  <2>1. Len(l) = Len(k) + 1 /\ (\A i \in 1 .. Len(k) : l[i] = k[i]) /\ l[Len(k) + 1] = MessageItems(x)
    BY <1>1, <1>2, <1>3
  <2> QED BY <1>2, <1>3, <1>4, <2>1, ListGrows
<1> QED BY <1>5 DEF k, l, s

\* Rows that show the same one by one.
LEMMA SameRows ==
    ASSUME NEW r \in Seq(ScreenRows), NEW s \in Seq(ScreenRows), Len(s) = Len(r),
           \A i \in 1 .. Len(r) : RowItems(s[i]) = RowItems(r[i])
    PROVE  FlattenSeq(RowLists(s)) = FlattenSeq(RowLists(r))
<1> DEFINE k == RowLists(r)
           l == RowLists(s)
<1>2. k \in Seq(Seq(ScreenItems)) /\ Len(k) = Len(r) /\ \A i \in 1 .. Len(r) : k[i] = RowItems(r[i])
  BY ListsOfRows
<1>3. l \in Seq(Seq(ScreenItems)) /\ Len(l) = Len(s) /\ \A i \in 1 .. Len(s) : l[i] = RowItems(s[i])
  BY ListsOfRows
<1> HIDE DEF k, l
<1>4. Len(k) = Len(l) /\ \A i \in 1 .. Len(k) : k[i] = l[i]
  BY <1>2, <1>3
<1>5. k = l
  BY <1>2, <1>3, <1>4, SeqEqual
<1> QED BY <1>5 DEF k, l

\* A last row that shows more.
LEMMA LastRowGrows ==
    ASSUME NEW m \in Nat, NEW r \in Seq(ScreenRows), NEW s \in Seq(ScreenRows), NEW t \in Seq(ScreenItems),
           Len(r) = m + 1, Len(s) = m + 1, \A i \in 1 .. m : s[i] = r[i],
           RowItems(s[m + 1]) = RowItems(r[m + 1]) \o t
    PROVE  FlattenSeq(RowLists(s)) = FlattenSeq(RowLists(r)) \o t
<1> DEFINE f == SubSeq(r, 1, m)
           k == RowLists(f)
           l == RowLists(r)
           n == RowLists(s)
           x == RowItems(r[m + 1])
           F(q) == FlattenSeq(q)
<1>1. f \in Seq(ScreenRows) /\ Len(f) = m /\ \A i \in 1 .. m : f[i] = r[i]
  OBVIOUS
<1> HIDE DEF f
<1>2. k \in Seq(Seq(ScreenItems)) /\ Len(k) = m /\ \A i \in 1 .. m : k[i] = RowItems(r[i])
  BY <1>1, ListsOfRows
<1>3. l \in Seq(Seq(ScreenItems)) /\ Len(l) = m + 1 /\ \A i \in 1 .. m + 1 : l[i] = RowItems(r[i])
  BY ListsOfRows
<1>4. n \in Seq(Seq(ScreenItems)) /\ Len(n) = m + 1 /\ \A i \in 1 .. m + 1 : n[i] = RowItems(s[i])
  BY ListsOfRows
<1>5. x \in Seq(ScreenItems)
  <2>1. r[m + 1] \in ScreenRows
    OBVIOUS
  <2> QED BY <2>1, ItemsOfRow
<1>6. x \o t \in Seq(ScreenItems) /\ m + 1 \in 1 .. m + 1 /\ \A i \in 1 .. m : i \in 1 .. m + 1
  BY <1>5
<1>7. l[m + 1] = x /\ n[m + 1] = x \o t
  BY <1>3, <1>4, <1>6
<1> HIDE DEF k, l, n, x, F
<1>8. FlattenSeq(l) = FlattenSeq(k) \o x
  <2>1. Len(l) = Len(k) + 1 /\ (\A i \in 1 .. Len(k) : l[i] = k[i]) /\ l[Len(k) + 1] = x
    BY <1>2, <1>3, <1>6, <1>7
  <2> QED BY <1>2, <1>3, <1>5, <2>1, ListGrows
<1>9. FlattenSeq(n) = FlattenSeq(k) \o (x \o t)
  <2>1. Len(n) = Len(k) + 1 /\ (\A i \in 1 .. Len(k) : n[i] = k[i]) /\ n[Len(k) + 1] = x \o t
    BY <1>2, <1>4, <1>6, <1>7
  <2> HIDE DEF RowLists
  <2> QED BY <1>2, <1>4, <1>6, <2>1, ListGrows
<1>10. FlattenSeq(k) \in Seq(ScreenItems)
  BY <1>2, FlattenRun
<1>11. FlattenSeq(k) \o (x \o t) = (FlattenSeq(k) \o x) \o t
  <2> DEFINE u == FlattenSeq(k)
  <2>1. u \in Seq(ScreenItems)
    BY <1>10
  <2> HIDE DEF u
  <2>2. u \o (x \o t) = (u \o x) \o t
    BY <1>5, <2>1, ConcatAssociative
  <2> QED BY <2>2 DEF u
<1>12. FlattenSeq(n) = FlattenSeq(l) \o t
  BY <1>8, <1>9, <1>11
<1> QED BY <1>12 DEF l, n

-----------------------------------------------------------------------------
(* Messages, rows and what a change of them shows. *)

\* The first message of those that are sent, and the rest.
LEMMA MessageTaken ==
    ASSUME NEW q \in Seq(BridgeMessages), q # <<>>
    PROVE  /\ Head(q) \in BridgeMessages /\ Tail(q) \in Seq(BridgeMessages)
           /\ FlattenSeq(MessageLists(q))
                  = MessageItems(Head(q)) \o FlattenSeq(MessageLists(Tail(q)))
<1> DEFINE h == Head(q)
           t == Tail(q)
           x == MessageItems(h)
           k == MessageLists(t)
           l == MessageLists(q)
<1>1. h \in BridgeMessages /\ t \in Seq(BridgeMessages) /\ Len(q) = Len(t) + 1 /\ Len(t) \in Nat
      /\ h = q[1] /\ \A i \in 1 .. Len(t) : t[i] = q[i + 1]
  BY HeadTailProperties, LenProperties, EmptySeq
<1> HIDE DEF h, t
<1>2. x \in Seq(ScreenItems)
  BY <1>1, ItemsOfMessage
<1>3. k \in Seq(Seq(ScreenItems)) /\ Len(k) = Len(t) /\ \A i \in 1 .. Len(t) : k[i] = MessageItems(t[i])
  BY <1>1, ListsOfMessages
<1>4. l \in Seq(Seq(ScreenItems)) /\ Len(l) = Len(q) /\ \A i \in 1 .. Len(q) : l[i] = MessageItems(q[i])
  BY ListsOfMessages
<1>5. l[1] = x
  BY <1>1, <1>4
<1> HIDE DEF k, l, x
<1> DEFINE g == <<x>> \o k
<1>6. g \in Seq(Seq(ScreenItems)) /\ Len(g) = Len(t) + 1 /\ g[1] = x
      /\ \A i \in 1 .. Len(t) : g[i + 1] = k[i]
  BY <1>1, <1>2, <1>3
<1>7. FlattenSeq(g) = x \o FlattenSeq(k)
  BY <1>2, <1>3, FlattenEnds
<1> HIDE DEF g
<1>8. \A i \in 1 .. Len(q) : g[i] = l[i]
  <2> TAKE i \in 1 .. Len(q)
  <2>1. CASE i = 1
    BY <1>5, <1>6, <2>1
  <2>2. CASE i # 1
    <3>1. i - 1 \in 1 .. Len(t) /\ (i - 1) + 1 = i
      BY <1>1, <2>2
    <3>2. g[i] = k[i - 1] /\ t[i - 1] = q[i]
      BY <1>1, <1>6, <3>1
    <3> QED BY <1>3, <1>4, <3>1, <3>2
  <2> QED BY <2>1, <2>2
<1>9. g = l
  BY <1>1, <1>4, <1>6, <1>8, SeqEqual
<1> QED BY <1>1, <1>7, <1>9 DEF k, l, x, h, t

\* What drainLocked sends shows the text that was buffered.
OutputOf(t) == [kind |-> "output", name |-> t.name, body |-> t.chunks]

LEMMA BufferedShows ==
    ASSUME streamBuf \in Seq(Int), toolBuf \in Seq([name : ToolNames, chunks : Seq(Int)])
    PROVE  Buffered \in Seq(BridgeMessages) /\ FlattenSeq(MessageLists(Buffered)) = TextItems(streamBuf)
<1> DEFINE o == [i \in 1 .. Len(toolBuf) |-> OutputOf(toolBuf[i])]
           m == [kind |-> "text", body |-> streamBuf]
<1>1. /\ Len(toolBuf) \in Nat
      /\ \A i \in 1 .. Len(toolBuf) :
             OutputOf(toolBuf[i]) \in BridgeMessages /\ OutputOf(toolBuf[i]).kind = "output"
  <2>1. ASSUME NEW t \in [name : ToolNames, chunks : Seq(Int)]
        PROVE  OutputOf(t) \in BridgeMessages /\ OutputOf(t).kind = "output"
    BY DEF BridgeMessages, OutputOf
  <2>2. Len(toolBuf) \in Nat /\ \A i \in 1 .. Len(toolBuf) : toolBuf[i] \in [name : ToolNames, chunks : Seq(Int)]
    BY ElementOfSeq, LenProperties
  <2> QED BY <2>1, <2>2
<1>2. o \in Seq(BridgeMessages) /\ Len(o) = Len(toolBuf)
  BY <1>1
<1>3. \A i \in 1 .. Len(o) : MessageItems(o[i]) = <<>>
  BY <1>1, <1>2 DEF MessageItems
<1>4. m \in BridgeMessages /\ MessageItems(m) = TextItems(streamBuf)
  BY DEF BridgeMessages, MessageItems
<1>5. FlattenSeq(MessageLists(o)) = <<>>
  <2> HIDE DEF o
  <2> DEFINE k == MessageLists(o)
  <2>1. k \in Seq(Seq(ScreenItems)) /\ Len(k) = Len(o) /\ \A i \in 1 .. Len(o) : k[i] = MessageItems(o[i])
    BY <1>2, ListsOfMessages
  <2>2. \A i \in 1 .. Len(k) : k[i] = <<>>
    BY <1>3, <2>1
  <2> HIDE DEF k
  <2>3. FlattenSeq(k) = <<>>
    BY <2>1, <2>2, FlattenEmpties
  <2> QED BY <2>3 DEF k
<1>6. Buffered = (IF streamBuf = <<>> THEN <<>> ELSE <<m>>) \o o
  BY DEF Buffered, OutputOf
<1> HIDE DEF o, m
<1>7. CASE streamBuf = <<>>
  <2>1. Buffered = o
    BY <1>2, <1>6, <1>7, ConcatEmptySeq
  <2> QED BY <1>2, <1>5, <1>7, <2>1, NoItems
<1>8. CASE streamBuf # <<>>
  <2> DEFINE b == <<m>> \o o
  <2>1. b \in Seq(BridgeMessages) /\ b # <<>> /\ Head(b) = m /\ Tail(b) = o
    BY <1>2, <1>4
  <2> HIDE DEF b
  <2>2. FlattenSeq(MessageLists(b)) = MessageItems(m) \o FlattenSeq(MessageLists(o))
    BY <2>1, MessageTaken
  <2>3. FlattenSeq(MessageLists(b)) = TextItems(streamBuf)
    BY <1>4, <1>5, <2>2, ItemsOfText, ConcatEmptySeq
  <2>4. Buffered = b
    BY <1>6, <1>8 DEF b
  <2> QED BY <2>1, <2>3, <2>4
<1> QED BY <1>7, <1>8

\* A change of a row's state shows nothing; what its body grows by shows unless it is a tool's.
LEMMA StateShowsNothing ==
    ASSUME NEW r \in ScreenRows, NEW s \in {"ok", "cancelled"}
    PROVE  [r EXCEPT !.state = s] \in ScreenRows /\ RowItems([r EXCEPT !.state = s]) = RowItems(r)
<1> DEFINE x == [r EXCEPT !.state = s]
<1>1. x \in ScreenRows /\ x.kind = r.kind /\ x.body = r.body /\ x.name = r.name
      /\ (r.kind = "tool" => x.call = r.call)
  BY DEF ScreenRows, RowStates
<1> HIDE DEF x
<1>2. RowItems(x) = RowItems(r)
  <2>1. CASE r.kind = "tool"
    BY <1>1, <2>1 DEF RowItems
  <2>2. CASE r.kind = "user"
    BY <1>1, <2>2 DEF RowItems
  <2>3. CASE r.kind # "tool" /\ r.kind # "user"
    BY <1>1, <2>3 DEF RowItems
  <2> QED BY <2>1, <2>2, <2>3
<1> QED BY <1>1, <1>2 DEF x

LEMMA BodyShows ==
    ASSUME NEW r \in ScreenRows, NEW b \in Seq(Int)
    PROVE  /\ [r EXCEPT !.body = @ \o b] \in ScreenRows
           /\ r.kind = "tool" => RowItems([r EXCEPT !.body = @ \o b]) = RowItems(r)
           /\ r.kind = "assistant_draft" =>
                  RowItems([r EXCEPT !.body = @ \o b]) = RowItems(r) \o TextItems(b)
<1> DEFINE x == [r EXCEPT !.body = @ \o b]
<1>1. r.body \in Seq(Int) /\ r.body \o b \in Seq(Int)
  BY ConcatProperties DEF ScreenRows
<1>2. x = [r EXCEPT !.body = r.body \o b]
  OBVIOUS
<1> HIDE DEF x
<1>3. x \in ScreenRows /\ x.kind = r.kind /\ x.body = r.body \o b /\ x.name = r.name
      /\ (r.kind = "tool" => x.call = r.call)
  BY <1>1, <1>2 DEF ScreenRows
<1>4. ASSUME r.kind = "tool" PROVE RowItems(x) = RowItems(r)
  BY <1>3, <1>4 DEF RowItems
<1>5. ASSUME r.kind = "assistant_draft" PROVE RowItems(x) = RowItems(r) \o TextItems(b)
  <2>1. RowItems(x) = TextItems(r.body \o b) /\ RowItems(r) = TextItems(r.body)
    BY <1>3, <1>5 DEF RowItems
  <2> QED BY <1>1, <2>1, ItemsJoined
<1> QED BY <1>3, <1>4, <1>5 DEF x

-----------------------------------------------------------------------------
(* What the event loop does with the rows. *)

\* A row replaced by one that shows the same.
LEMMA RowReplaced ==
    ASSUME NEW r \in Seq(ScreenRows), NEW i \in 1 .. Len(r), NEW x \in ScreenRows, RowItems(x) = RowItems(r[i])
    PROVE  /\ [r EXCEPT ![i] = x] \in Seq(ScreenRows)
           /\ FlattenSeq(RowLists([r EXCEPT ![i] = x])) = FlattenSeq(RowLists(r))
<1> DEFINE s == [r EXCEPT ![i] = x]
<1>1. s \in Seq(ScreenRows) /\ Len(s) = Len(r)
      /\ \A j \in 1 .. Len(r) : s[j] = IF j = i THEN x ELSE r[j]
  BY ExceptSeq
<1> HIDE DEF s
<1>2. \A j \in 1 .. Len(r) : RowItems(s[j]) = RowItems(r[j])
  BY <1>1
<1>3. FlattenSeq(RowLists(s)) = FlattenSeq(RowLists(r))
  BY <1>1, <1>2, SameRows
<1> QED BY <1>1, <1>3 DEF s

\* The rows that run are rows of tools.
LEMMA RunningAreTools ==
    ASSUME NEW n, rows \in Seq(ScreenRows), NEW i \in Running(n)
    PROVE  i \in 1 .. Len(rows) /\ rows[i] \in ScreenRows /\ rows[i].kind = "tool"
<1>1. i \in DOMAIN rows /\ rows[i].kind = "tool"
  BY DEF Running
<1>2. i \in 1 .. Len(rows)
  BY <1>1, LenProperties
<1> QED BY <1>1, <1>2, ElementOfSeq

\* What each handler adds to what is shown.
LEMMA StreamShows ==
    ASSUME NEW b \in Seq(Int), rows \in Seq(ScreenRows), AppendStream(b)
    PROVE  /\ rows' \in Seq(ScreenRows)
           /\ FlattenSeq(RowLists(rows')) = FlattenSeq(RowLists(rows)) \o TextItems(b)
<1>1. CASE rows # <<>> /\ Last(rows).kind = "assistant_draft"
  <2> DEFINE m == Len(rows) - 1
             r == rows[m + 1]
             x == [r EXCEPT !.body = @ \o b]
             s == [rows EXCEPT ![m + 1] = x]
  <2>1. m \in Nat /\ Len(rows) = m + 1 /\ m + 1 \in 1 .. Len(rows)
    BY <1>1, EmptySeq, LenProperties
  <2>2. r \in ScreenRows /\ r.kind = "assistant_draft"
    BY <1>1, <2>1, ElementOfSeq DEF Last
  <2>3. rows' = s
    BY <1>1, <2>1 DEF AppendStream
  <2> HIDE DEF m
  <2> HIDE DEF r
  <2>4. x \in ScreenRows /\ RowItems(x) = RowItems(r) \o TextItems(b)
    BY <2>2, BodyShows
  <2> HIDE DEF x
  <2>5. s \in Seq(ScreenRows) /\ Len(s) = Len(rows)
        /\ \A j \in 1 .. Len(rows) : s[j] = IF j = m + 1 THEN x ELSE rows[j]
    BY <2>1, <2>4, ExceptSeq
  <2> HIDE DEF s
  <2>6. (\A j \in 1 .. m : s[j] = rows[j]) /\ s[m + 1] = x
    BY <2>1, <2>5
  <2>7. TextItems(b) \in Seq(ScreenItems) /\ RowItems(s[m + 1]) = RowItems(rows[m + 1]) \o TextItems(b)
    BY <2>4, <2>6, ItemsOfText DEF r
  <2>8. FlattenSeq(RowLists(s)) = FlattenSeq(RowLists(rows)) \o TextItems(b)
    BY <2>1, <2>5, <2>6, <2>7, LastRowGrows
  <2> QED BY <2>3, <2>5, <2>8
<1>2. CASE ~(rows # <<>> /\ Last(rows).kind = "assistant_draft")
  <2> DEFINE x == NewRow("assistant_draft", b)
  <2>1. rows' = Append(rows, x)
    BY <1>2 DEF AppendStream
  <2>2. x \in ScreenRows /\ x.kind = "assistant_draft" /\ x.body = b
    BY DEF NewRow, ScreenRows, RowStates
  <2> HIDE DEF x
  <2>3. RowItems(x) = TextItems(b)
    BY <2>2 DEF RowItems
  <2> QED BY <2>1, <2>2, <2>3, RowAppended, AppendProperties
<1> QED BY <1>1, <1>2

LEMMA OutputShowsNothing ==
    ASSUME NEW n, NEW b \in Seq(Int), rows \in Seq(ScreenRows), AppendToolOutput(n, b)
    PROVE  rows' \in Seq(ScreenRows) /\ FlattenSeq(RowLists(rows')) = FlattenSeq(RowLists(rows))
<1> DEFINE row == IF active[n] \in Running(n) THEN active[n]
                  ELSE CHOOSE i \in Running(n) : \A j \in Running(n) : j <= i
<1>1. CASE Running(n) = {}
  BY <1>1 DEF AppendToolOutput
<1>2. CASE Running(n) # {}
  <2>1. \E i \in Running(n) : \A j \in Running(n) : j <= i
    <3>1. Running(n) \in SUBSET Nat /\ Len(rows) \in Nat /\ \A i \in Running(n) : i <= Len(rows)
      BY RunningAreTools, LenProperties
    <3> HIDE DEF Running
    <3> QED BY <1>2, <3>1, GreatestNumber
  <2>2. row \in Running(n)
    BY <2>1
  <2>3. rows' = [rows EXCEPT ![row].body = @ \o b]
    BY <1>2 DEF AppendToolOutput
  <2> HIDE DEF row
  <2>4. row \in 1 .. Len(rows) /\ rows[row] \in ScreenRows /\ rows[row].kind = "tool"
    BY <2>2, RunningAreTools
  <2> DEFINE x == [rows[row] EXCEPT !.body = @ \o b]
  <2>5. x \in ScreenRows /\ RowItems(x) = RowItems(rows[row])
    BY <2>4, BodyShows
  <2>6. rows' = [rows EXCEPT ![row] = x]
    BY <2>3
  <2> HIDE DEF x
  <2> QED BY <2>4, <2>5, <2>6, RowReplaced
<1> QED BY <1>1, <1>2

LEMMA FinishShowsNothing ==
    ASSUME NEW n, rows \in Seq(ScreenRows), FinishTool(n)
    PROVE  rows' \in Seq(ScreenRows) /\ FlattenSeq(RowLists(rows')) = FlattenSeq(RowLists(rows))
<1> DEFINE row == CHOOSE i \in Running(n) : \A j \in Running(n) : i <= j
<1>1. CASE Running(n) = {}
  BY <1>1 DEF FinishTool
<1>2. CASE Running(n) # {}
  <2>1. \E i \in Running(n) : \A j \in Running(n) : i <= j
    <3>1. Running(n) \in SUBSET Nat
      BY RunningAreTools
    <3> QED BY <1>2, <3>1, LeastNumber
  <2>2. row \in Running(n)
    BY <2>1
  <2>3. rows' = [rows EXCEPT ![row].state = "ok"]
    BY <1>2 DEF FinishTool
  <2> HIDE DEF row
  <2>4. row \in 1 .. Len(rows) /\ rows[row] \in ScreenRows
    BY <2>2, RunningAreTools
  <2> DEFINE x == [rows[row] EXCEPT !.state = "ok"]
  <2>5. x \in ScreenRows /\ RowItems(x) = RowItems(rows[row])
    BY <2>4, StateShowsNothing
  <2>6. rows' = [rows EXCEPT ![row] = x]
    BY <2>3
  <2> HIDE DEF x
  <2> QED BY <2>4, <2>5, <2>6, RowReplaced
<1> QED BY <1>1, <1>2

LEMMA SweepShowsNothing ==
    ASSUME rows \in Seq(ScreenRows), Sweep
    PROVE  rows' \in Seq(ScreenRows) /\ FlattenSeq(RowLists(rows')) = FlattenSeq(RowLists(rows))
<1> DEFINE swept(i) == IF rows[i].state = "running" THEN [rows[i] EXCEPT !.state = "cancelled"] ELSE rows[i]
           s == [i \in 1 .. Len(rows) |-> swept(i)]
<1>1. Len(rows) \in Nat /\ DOMAIN rows = 1 .. Len(rows) /\ \A i \in 1 .. Len(rows) : rows[i] \in ScreenRows
  BY LenProperties, ElementOfSeq
<1>2. rows' = s
  BY <1>1 DEF Sweep
<1>3. \A i \in 1 .. Len(rows) : swept(i) \in ScreenRows /\ RowItems(swept(i)) = RowItems(rows[i])
  BY <1>1, StateShowsNothing
<1>4. s \in Seq(ScreenRows) /\ Len(s) = Len(rows) /\ \A i \in 1 .. Len(rows) : RowItems(s[i]) = RowItems(rows[i])
  BY <1>1, <1>3
<1> HIDE DEF s
<1>5. FlattenSeq(RowLists(s)) = FlattenSeq(RowLists(rows))
  BY <1>4, SameRows
<1> QED BY <1>2, <1>4, <1>5

-----------------------------------------------------------------------------
(* The bridge: nothing is lost and nothing overtakes. *)

OnTheWay == FlattenSeq(MessageLists(outbox))

LEMMA NothingToShow ==
    FlattenSeq(RowLists(<<>>)) = <<>> /\ FlattenSeq(MessageLists(<<>>)) = <<>>
<1>1. RowLists(<<>>) = <<>> /\ MessageLists(<<>>) = <<>>
  BY DEF RowLists, MessageLists
<1> DEFINE e == <<>>
<1>2. e \in Seq(Seq(ScreenItems)) /\ \A k \in 1 .. Len(e) : e[k] = <<>>
  OBVIOUS
<1> HIDE DEF e
<1>3. FlattenSeq(e) = <<>>
  BY <1>2, FlattenEmpties
<1> QED BY <1>1, <1>3 DEF e

LEMMA ListsTyped ==
    BridgeShape => /\ ShownOrder \in Seq(ScreenItems) /\ OnTheWay \in Seq(ScreenItems)
                   /\ TextItems(streamBuf) \in Seq(ScreenItems)
<1> SUFFICES ASSUME BridgeShape
             PROVE  /\ ShownOrder \in Seq(ScreenItems) /\ OnTheWay \in Seq(ScreenItems)
                    /\ TextItems(streamBuf) \in Seq(ScreenItems)
  OBVIOUS
<1>1. rows \in Seq(ScreenRows) /\ outbox \in Seq(BridgeMessages) /\ streamBuf \in Seq(Int)
  BY DEF BridgeShape
<1>2. RowLists(rows) \in Seq(Seq(ScreenItems)) /\ MessageLists(outbox) \in Seq(Seq(ScreenItems))
  BY <1>1, ListsOfRows, ListsOfMessages
<1>3. ShownOrder = FlattenSeq(RowLists(rows))
  BY DEF ShownOrder, RowLists
<1> QED BY <1>1, <1>2, <1>3, FlattenRun, ItemsOfText DEF OnTheWay

\* What is shown, sent and buffered, grouped in another way.
LEMMA Regrouped ==
    ASSUME NEW s \in Seq(ScreenItems), NEW t \in Seq(ScreenItems),
           NEW u \in Seq(ScreenItems), NEW v \in Seq(ScreenItems)
    PROVE  /\ (s \o (t \o u)) \o v = ((s \o t) \o u) \o v
           /\ (s \o t) \o (u \o v) = ((s \o t) \o u) \o v
           /\ (s \o <<>>) \o t = s \o t
           /\ (s \o t) \o <<>> = s \o t
           /\ s \o t \in Seq(ScreenItems)
<1> DEFINE x == s \o t
<1>1. x \in Seq(ScreenItems)
  BY ConcatProperties
<1>2. s \o (t \o u) = x \o u
  <2>1. (s \o t) \o u = s \o (t \o u)
    BY ConcatAssociative
  <2> QED BY <2>1, Zenon
<1>3. s \o <<>> = s
  BY ConcatEmptySeq
<1> HIDE DEF x
<1>4. x \o (u \o v) = (x \o u) \o v /\ x \o <<>> = x
  BY <1>1, ConcatAssociative, ConcatEmptySeq, SMTT(30)
<1> QED BY <1>1, <1>2, <1>3, <1>4 DEF x

\* What is buffered leaves in order, and what follows it comes after it.
LEMMA Drained ==
    ASSUME BridgeInv, NEW m \in BridgeMessages, outbox = <<>>, outbox' = Append(Buffered, m),
           streamBuf' = <<>>, rows' = rows, engine.at # "done",
           sentPieces' = sentPieces \o MessageItems(m)
    PROVE  NothingLost'
<1> DEFINE s == ShownOrder
           t == TextItems(streamBuf)
           i == MessageItems(m)
           p == OnTheWay'
<1>1. s \in Seq(ScreenItems) /\ t \in Seq(ScreenItems) /\ i \in Seq(ScreenItems)
  BY ListsTyped, ItemsOfMessage DEF BridgeInv
<1>2. (s \o <<>>) \o t = sentPieces
  BY NothingToShow DEF BridgeInv, NothingLost
<1>3. Buffered \in Seq(BridgeMessages) /\ FlattenSeq(MessageLists(Buffered)) = t
  BY BufferedShows DEF BridgeInv, BridgeShape
<1>4. p = t \o i
  BY <1>3, MessageAppended DEF OnTheWay
<1>5. ShownOrder' = s /\ TextItems(streamBuf)' = <<>>
  BY NoItems DEF ShownOrder
<1> HIDE DEF s, t, i, p
<1>6. (s \o p) \o <<>> = (s \o t) \o i
  <2>1. (s \o (t \o i)) \o <<>> = ((s \o t) \o i) \o <<>>
    BY <1>1, Regrouped, EmptySeq, SMTT(30)
  <2>2. s \o t \in Seq(ScreenItems)
    BY <1>1, Regrouped
  <2>3. ((s \o t) \o i) \o <<>> = (s \o t) \o i
    BY <1>1, <2>2, Regrouped
  <2> QED BY <1>4, <2>1, <2>3
<1>7. s \o t = sentPieces
  BY <1>1, <1>2, Regrouped
<1>8. (ShownOrder' \o OnTheWay') \o TextItems(streamBuf)' = sentPieces'
  BY <1>5, <1>6, <1>7 DEF p, i
<1> QED BY <1>8 DEF NothingLost, OnTheWay

LEMMA BridgeInitial == BridgeInit => BridgeInv
<1> SUFFICES ASSUME BridgeInit PROVE BridgeInv
  OBVIOUS
<1>1. rows = <<>> /\ outbox = <<>> /\ streamBuf = <<>> /\ toolBuf = <<>> /\ sentPieces = <<>>
      /\ answer = <<>> /\ pieces = 0
  BY DEF BridgeInit
<1>2. engine \in [at : EnginePlaces, tool : ToolNames \cup {""}, text : Seq(Int), calls : Int]
  <2>1. engine = [at |-> "idle", tool |-> "", text |-> <<>>, calls |-> 0]
    BY DEF BridgeInit
  <2>2. <<>> \in Seq(Int)
    BY EmptySeq
  <2>3. "idle" \in EnginePlaces /\ "" \in ToolNames \cup {""} /\ 0 \in Int
    BY DEF EnginePlaces
  <2> QED BY <2>1, <2>2, <2>3
<1>3. BridgeShape
  <2>1. rows \in Seq(ScreenRows) /\ outbox \in Seq(BridgeMessages) /\ streamBuf \in Seq(Int)
    BY <1>1
  <2>2. toolBuf \in Seq([name : ToolNames, chunks : Seq(Int)])
    BY <1>1
  <2>3. sentPieces \in Seq(ScreenItems) /\ pieces \in Int /\ answer \in Seq(Int)
    BY <1>1
  <2> QED BY <1>2, <2>1, <2>2, <2>3 DEF BridgeShape
<1>4. ShownOrder = <<>>
  BY <1>1, NothingToShow DEF ShownOrder, RowLists
<1>5. (<<>> \o <<>>) \o <<>> = <<>>
  OBVIOUS
<1>6. NothingLost
  BY <1>1, <1>4, <1>5, NothingToShow, NoItems DEF NothingLost
<1> QED BY <1>3, <1>6 DEF BridgeInv

\* A message of the user is a row that shows nothing of the engine's.
LEMMA UserRowShowsNothing ==
    ASSUME rows \in Seq(ScreenRows), rows' = Append(rows, NewRow("user", <<>>))
    PROVE  rows' \in Seq(ScreenRows) /\ ShownOrder' = ShownOrder
<1> DEFINE x == NewRow("user", <<>>)
<1>1. x \in ScreenRows /\ x.kind = "user"
  BY EmptySeq DEF NewRow, ScreenRows, RowStates
<1> HIDE DEF x
<1>2. RowItems(x) = <<>>
  BY <1>1 DEF RowItems
<1>3. rows' = Append(rows, x)
  BY DEF x
<1>4. FlattenSeq(RowLists(rows')) = FlattenSeq(RowLists(rows)) \o <<>>
  BY <1>1, <1>2, <1>3, RowAppended
<1>5. FlattenSeq(RowLists(rows)) \in Seq(ScreenItems)
  BY ListsOfRows, FlattenRun
<1>6. FlattenSeq(RowLists(rows')) = FlattenSeq(RowLists(rows))
  BY <1>4, <1>5, ConcatEmptySeq
<1> QED BY <1>1, <1>3, <1>6, AppendProperties DEF ShownOrder, RowLists

\* A message that is taken adds to the screen what it shows.
LEMMA AppliedShows ==
    ASSUME NEW m \in BridgeMessages, rows \in Seq(ScreenRows), Apply(m)
    PROVE  rows' \in Seq(ScreenRows) /\ ShownOrder' = ShownOrder \o MessageItems(m)
<1> DEFINE s == FlattenSeq(RowLists(rows))
<1>1. s \in Seq(ScreenItems) /\ s \o <<>> = s
  BY ListsOfRows, FlattenRun, ConcatEmptySeq
<1>2. rows' \in Seq(ScreenRows) /\ FlattenSeq(RowLists(rows')) = s \o MessageItems(m)
  <2>1. CASE m.kind = "text" /\ AppendStream(m.body)
    <3>1. m.body \in Seq(Int) /\ MessageItems(m) = TextItems(m.body)
      BY <2>1 DEF BridgeMessages, MessageItems
    <3> QED BY <2>1, <3>1, StreamShows
  <2>2. CASE m.kind = "output" /\ AppendToolOutput(m.name, m.body)
    <3>1. m.body \in Seq(Int) /\ MessageItems(m) = <<>>
      BY <2>2 DEF BridgeMessages, MessageItems
    <3> QED BY <1>1, <2>2, <3>1, OutputShowsNothing
  <2>3. CASE m.kind = "start" /\ rows' = Append(rows, ToolRow(m.name, m.call))
    <3> DEFINE x == ToolRow(m.name, m.call)
    <3>1. m.name \in ToolNames /\ m.call \in Int /\ MessageItems(m) = <<StartMark(m.name, m.call)>>
      BY <2>3 DEF BridgeMessages, MessageItems
    <3>2. x \in ScreenRows /\ x.kind = "tool" /\ x.name = m.name /\ x.call = m.call
      BY <3>1, EmptySeq DEF ToolRow, ScreenRows, RowStates
    <3>3. rows' = Append(rows, x)
      BY <2>3
    <3> HIDE DEF x
    <3>4. RowItems(x) = MessageItems(m)
      BY <3>1, <3>2 DEF RowItems
    <3> QED BY <3>2, <3>3, <3>4, RowAppended, AppendProperties
  <2>4. CASE m.kind = "end" /\ FinishTool(m.name)
    <3>1. MessageItems(m) = <<>>
      BY <2>4 DEF MessageItems
    <3> QED BY <1>1, <2>4, <3>1, FinishShowsNothing
  <2>5. CASE m.kind = "stats" /\ Sweep
    <3>1. MessageItems(m) = <<>>
      BY <2>5 DEF MessageItems
    <3> QED BY <1>1, <2>5, <3>1, SweepShowsNothing
  <2> QED BY <2>1, <2>2, <2>3, <2>4, <2>5 DEF Apply
<1> QED BY <1>2 DEF ShownOrder, RowLists

\* A message that is delivered is shown, and no longer on its way.
LEMMA DeliverPreserves ==
    ASSUME BridgeInv, Deliver
    PROVE  BridgeInv'
<1> DEFINE h == Head(outbox)
           q == Tail(outbox)
           s == ShownOrder
           i == MessageItems(h)
           p == FlattenSeq(MessageLists(q))
           t == TextItems(streamBuf)
<1>1. outbox \in Seq(BridgeMessages) /\ outbox # <<>> /\ Apply(h) /\ outbox' = q /\ rows \in Seq(ScreenRows)
      /\ UNCHANGED <<engineVars, bufferVars>>
  BY DEF Deliver, BridgeInv, BridgeShape
<1>2. h \in BridgeMessages /\ q \in Seq(BridgeMessages) /\ OnTheWay = i \o p
  BY <1>1, MessageTaken DEF OnTheWay
<1>3. rows' \in Seq(ScreenRows) /\ ShownOrder' = s \o i
  BY <1>1, <1>2, AppliedShows
<1>4. BridgeShape'
  BY <1>1, <1>2, <1>3 DEF BridgeInv, BridgeShape, engineVars, bufferVars
<1>5. s \in Seq(ScreenItems) /\ t \in Seq(ScreenItems) /\ i \in Seq(ScreenItems)
  BY <1>2, ListsTyped, ItemsOfMessage DEF BridgeInv
<1>6. p \in Seq(ScreenItems)
  BY <1>2, ListsOfMessages, FlattenRun
<1>7. TextItems(streamBuf)' = t /\ OnTheWay' = p /\ engine' = engine /\ sentPieces' = sentPieces
  BY <1>1 DEF engineVars, bufferVars, OnTheWay
<1>8. engine.at # "done" => (s \o OnTheWay) \o t = sentPieces
  BY DEF BridgeInv, NothingLost, OnTheWay
<1> HIDE DEF s, i, p, t, h, q
<1>9. (s \o (i \o p)) \o t = ((s \o i) \o p) \o t
  BY <1>5, <1>6, Regrouped, SMTT(30)
<1>10. engine'.at # "done" => (ShownOrder' \o OnTheWay') \o TextItems(streamBuf)' = sentPieces'
  BY <1>2, <1>3, <1>7, <1>8, <1>9
<1> QED BY <1>4, <1>10 DEF BridgeInv, NothingLost, OnTheWay

\* A step that touches neither the rows nor what is on its way to them.
LEMMA NothingMoves ==
    ASSUME NothingLost, UNCHANGED <<rows, outbox, streamBuf, sentPieces>>,
           engine.at = "done" => engine'.at = "done"
    PROVE  NothingLost'
BY DEF NothingLost, ShownOrder

LEMMA UserRowPreserves ==
    ASSUME BridgeInv, rows' = Append(rows, NewRow("user", <<>>)), engine.at # "done",
           UNCHANGED <<outbox, streamBuf, sentPieces>>
    PROVE  rows' \in Seq(ScreenRows) /\ NothingLost'
<1>1. rows' \in Seq(ScreenRows) /\ ShownOrder' = ShownOrder
  BY UserRowShowsNothing DEF BridgeInv, BridgeShape
<1> QED BY <1>1 DEF BridgeInv, NothingLost

\* The engine's record after a step that moves it.
LEMMA EngineMoves ==
    ASSUME engine \in [at : EnginePlaces, tool : ToolNames \cup {""}, text : Seq(Int), calls : Int],
           NEW p \in EnginePlaces
    PROVE  /\ [engine EXCEPT !.at = p] \in [at : EnginePlaces, tool : ToolNames \cup {""}, text : Seq(Int), calls : Int]
           /\ [engine EXCEPT !.at = p].at = p
OBVIOUS

LEMMA RegroupedPairs ==
    ASSUME NEW s \in Seq(ScreenItems), NEW t \in Seq(ScreenItems),
           NEW u \in Seq(ScreenItems), NEW v \in Seq(ScreenItems)
    PROVE  (s \o t) \o (u \o v) = ((s \o t) \o u) \o v
<1> DEFINE x == s \o t
<1>1. x \in Seq(ScreenItems)
  BY ConcatProperties
<1> HIDE DEF x
<1>2. (x \o u) \o v = x \o (u \o v)
  BY <1>1, ConcatAssociative, SMTT(30)
<1> QED BY <1>2 DEF x

\* A token is buffered behind all that was.
LEMMA TokenPreserves ==
    ASSUME BridgeInv, Token
    PROVE  BridgeInv'
<1> DEFINE n == pieces + 1
           s == ShownOrder
           p == OnTheWay
           t == TextItems(streamBuf)
           x == <<TextPiece(n)>>
<1>1. /\ engine.at = "turn" /\ pieces' = n /\ streamBuf' = Append(streamBuf, n)
      /\ sentPieces' = Append(sentPieces, TextPiece(n))
      /\ engine' = [engine EXCEPT !.text = Append(@, n)]
      /\ UNCHANGED <<toolBuf, outbox, rows, answer>>
  <2>1. engine.at = "turn" /\ pieces' = n /\ streamBuf' = Append(streamBuf, n)
    BY DEF Token, QueueStream
  <2>2. sentPieces' = Append(sentPieces, TextPiece(n))
    BY DEF Token
  <2>3. engine' = [engine EXCEPT !.text = Append(@, n)]
    BY DEF Token
  <2>4. UNCHANGED <<toolBuf, outbox, rows, answer>>
    BY DEF Token, QueueStream, screenVars
  <2> QED BY <2>1, <2>2, <2>3, <2>4
<1>2. n \in Int /\ streamBuf \in Seq(Int) /\ sentPieces \in Seq(ScreenItems)
  <2>1. pieces \in Int /\ streamBuf \in Seq(Int) /\ sentPieces \in Seq(ScreenItems)
    BY DEF BridgeInv, BridgeShape
  <2> QED BY <2>1
<1>3. TextPiece(n) \in ScreenItems
  BY <1>2 DEF TextPiece, ScreenItems
<1>4. engine' \in [at : EnginePlaces, tool : ToolNames \cup {""}, text : Seq(Int), calls : Int]
  <2>1. engine \in [at : EnginePlaces, tool : ToolNames \cup {""}, text : Seq(Int), calls : Int]
    BY DEF BridgeInv, BridgeShape
  <2>2. Append(engine.text, n) \in Seq(Int)
    BY <1>2, <2>1, AppendProperties
  <2> QED BY <1>1, <2>1, <2>2
<1>5. streamBuf' \in Seq(Int) /\ sentPieces' \in Seq(ScreenItems)
  BY <1>1, <1>2, <1>3, AppendProperties
<1>6. BridgeShape'
  BY <1>1, <1>2, <1>4, <1>5 DEF BridgeInv, BridgeShape
<1>7. s \in Seq(ScreenItems) /\ p \in Seq(ScreenItems) /\ t \in Seq(ScreenItems)
  BY ListsTyped DEF BridgeInv
<1>13. (s \o p) \o t = sentPieces
  BY <1>1 DEF BridgeInv, NothingLost, OnTheWay
<1>8. TextItems(streamBuf') = t \o x
  <2> DEFINE o == <<n>>
  <2>1. o \in Seq(Int) /\ streamBuf' = streamBuf \o o
    BY <1>1, <1>2
  <2>2. TextItems(o) = x
    BY <1>2, ItemsOfOne
  <2> HIDE DEF o
  <2> QED BY <1>2, <2>1, <2>2, ItemsJoined
<1>9. x \in Seq(ScreenItems)
  BY <1>3
<1>14. sentPieces' = sentPieces \o x
  BY <1>1, <1>2, <1>3
<1>10. ShownOrder' = s /\ OnTheWay' = p /\ TextItems(streamBuf)' = TextItems(streamBuf')
  BY <1>1 DEF ShownOrder, OnTheWay
<1> HIDE DEF s, p, t, x
<1>11. (s \o p) \o (t \o x) = ((s \o p) \o t) \o x
  BY <1>7, <1>9, RegroupedPairs, SMTT(30)
<1>12. (ShownOrder' \o OnTheWay') \o TextItems(streamBuf)' = sentPieces'
  BY <1>8, <1>10, <1>11, <1>13, <1>14
<1> QED BY <1>6, <1>12 DEF BridgeInv, NothingLost, OnTheWay

\* A marker is sent after what was buffered.
LEMMA MarkerPreserves ==
    ASSUME BridgeInv, NEW m \in BridgeMessages, SendAfterFlush(m), engine.at # "done",
           engine' \in [at : EnginePlaces, tool : ToolNames \cup {""}, text : Seq(Int), calls : Int],
           sentPieces' = sentPieces \o MessageItems(m), answer' \in Seq(Int),
           UNCHANGED <<pieces, rows>>
    PROVE  BridgeInv'
<1>1. outbox = <<>> /\ outbox' = Append(Buffered, m) /\ streamBuf' = <<>> /\ toolBuf' = <<>>
  BY DEF SendAfterFlush, Unlocked, DrainLocked
<1>2. Buffered \in Seq(BridgeMessages)
  BY BufferedShows DEF BridgeInv, BridgeShape
<1>3. outbox' \in Seq(BridgeMessages) /\ streamBuf' \in Seq(Int)
  BY <1>1, <1>2, AppendProperties, EmptySeq
<1>4. toolBuf' \in Seq([name : ToolNames, chunks : Seq(Int)])
  BY <1>1, EmptySeq
<1>5. sentPieces' \in Seq(ScreenItems)
  BY ItemsOfMessage, ConcatProperties DEF BridgeInv, BridgeShape
<1>6. BridgeShape'
  BY <1>3, <1>4, <1>5 DEF BridgeInv, BridgeShape
<1>7. NothingLost'
  BY <1>1, Drained
<1> QED BY <1>6, <1>7 DEF BridgeInv

\* A timer sends what was buffered.
LEMMA FlushPreserves ==
    ASSUME BridgeInv, Flush
    PROVE  BridgeInv'
<1>1. /\ outbox = <<>> /\ outbox' = Buffered /\ streamBuf' = <<>> /\ toolBuf' = <<>>
      /\ UNCHANGED <<engine, sentPieces, pieces, answer, rows>>
  BY DEF Flush, Unlocked, DrainLocked, engineVars, screenVars
<1> DEFINE s == ShownOrder
           t == TextItems(streamBuf)
           b == Buffered
<1>2. b \in Seq(BridgeMessages) /\ FlattenSeq(MessageLists(b)) = t
  BY BufferedShows DEF BridgeInv, BridgeShape
<1>3. toolBuf' \in Seq([name : ToolNames, chunks : Seq(Int)]) /\ streamBuf' \in Seq(Int)
  BY <1>1, EmptySeq
<1>4. BridgeShape'
  BY <1>1, <1>2, <1>3 DEF BridgeInv, BridgeShape
<1>5. s \in Seq(ScreenItems) /\ t \in Seq(ScreenItems)
  BY ListsTyped DEF BridgeInv
<1>6. ShownOrder' = s /\ FlattenSeq(MessageLists(outbox))' = t /\ TextItems(streamBuf)' = <<>>
  BY <1>1, <1>2, NoItems DEF ShownOrder
<1>7. engine.at # "done" => (s \o <<>>) \o t = sentPieces
  BY <1>1, NothingToShow DEF BridgeInv, NothingLost
<1> HIDE DEF s, t
<1>8. (s \o t) \o <<>> = (s \o <<>>) \o t
  BY <1>5, Regrouped
<1> QED BY <1>1, <1>4, <1>6, <1>7, <1>8 DEF BridgeInv, NothingLost

OutputBuffers == [name : ToolNames, chunks : Seq(Int)]

\* Output of a shell is buffered elsewhere and shows nothing of the engine's.
LEMMA OutputAdded ==
    ASSUME NEW t \in OutputBuffers, NEW n \in Int
    PROVE  [t EXCEPT !.chunks = Append(@, n)] \in OutputBuffers
<1>1. t.chunks \in Seq(Int) /\ Append(t.chunks, n) \in Seq(Int)
  BY AppendProperties DEF OutputBuffers
<1> QED BY <1>1 DEF OutputBuffers

LEMMA OutputPreserves ==
    ASSUME BridgeInv, ShellOutput
    PROVE  BridgeInv'
<1> DEFINE n == pieces + 1
           one == [name |-> "run_shell", chunks |-> <<n>>]
           grown(t) == IF t.name = "run_shell" THEN [t EXCEPT !.chunks = Append(@, n)] ELSE t
           g == [i \in 1 .. Len(toolBuf) |-> grown(toolBuf[i])]
<1>1. /\ pieces' = n
      /\ UNCHANGED <<engine, sentPieces, answer, rows, outbox, streamBuf>>
  BY DEF ShellOutput, QueueToolOutput, screenVars
<1>2. toolBuf \in Seq(OutputBuffers) /\ n \in Int
  <2>1. pieces \in Int /\ toolBuf \in Seq(OutputBuffers)
    BY DEF BridgeInv, BridgeShape, OutputBuffers
  <2> QED BY <2>1
<1>3. DOMAIN toolBuf = 1 .. Len(toolBuf) /\ Len(toolBuf) \in Nat
      /\ \A i \in 1 .. Len(toolBuf) : toolBuf[i] \in OutputBuffers
  BY <1>2, LenProperties, ElementOfSeq
<1>4. toolBuf' = [i \in DOMAIN toolBuf |-> grown(toolBuf[i])] \/ toolBuf' = Append(toolBuf, one)
  BY DEF ShellOutput, QueueToolOutput
<1>5. \A t \in OutputBuffers : grown(t) \in OutputBuffers
  BY <1>2, OutputAdded
<1>6. g \in Seq(OutputBuffers)
  <2> HIDE DEF grown
  <2>1. \A i \in 1 .. Len(toolBuf) : grown(toolBuf[i]) \in OutputBuffers
    BY <1>3, <1>5
  <2> QED BY <1>3, <2>1
<1>7. one \in OutputBuffers
  BY <1>2, BridgeAssumption DEF OutputBuffers
<1>8. Append(toolBuf, one) \in Seq(OutputBuffers)
  BY <1>2, <1>7, AppendProperties
<1>9. toolBuf' \in Seq(OutputBuffers)
  BY <1>3, <1>4, <1>6, <1>8
<1>10. BridgeShape'
  BY <1>1, <1>2, <1>9 DEF BridgeInv, BridgeShape, OutputBuffers
<1> QED BY <1>1, <1>10, NothingMoves DEF BridgeInv

\* The answer is the end of the task.
LEMMA ResultPreserves ==
    ASSUME BridgeInv, Result
    PROVE  BridgeInv'
<1>1. /\ engine' = [engine EXCEPT !.at = "done"]
      /\ UNCHANGED <<sentPieces, pieces, answer, outbox, streamBuf, toolBuf>>
      /\ UNCHANGED rows \/ FinishAssistant
  BY DEF Result, bufferVars
<1>2. engine' \in [at : EnginePlaces, tool : ToolNames \cup {""}, text : Seq(Int), calls : Int]
      /\ engine'.at = "done"
  BY <1>1, EngineMoves DEF BridgeInv, BridgeShape, EnginePlaces
<1>3. rows \in Seq(ScreenRows) /\ answer \in Seq(Int)
  BY DEF BridgeInv, BridgeShape
<1>4. rows' \in Seq(ScreenRows)
  <2>1. CASE UNCHANGED rows
    BY <1>3, <2>1
  <2>2. CASE FinishAssistant /\ Drafts = {}
    <3>1. NewRow("assistant", answer) \in ScreenRows
      BY <1>3 DEF NewRow, ScreenRows, RowStates
    <3> QED BY <1>3, <2>2, <3>1, AppendProperties DEF FinishAssistant
  <2>3. CASE FinishAssistant /\ Drafts # {}
    <3> DEFINE draft == CHOOSE i \in Drafts : \A j \in Drafts : j <= i
    <3>1. Len(rows) \in Nat /\ DOMAIN rows = 1 .. Len(rows)
      BY <1>3, LenProperties
    <3>2. Drafts \in SUBSET Nat /\ \A i \in Drafts : i <= Len(rows)
      BY <3>1 DEF Drafts
    <3>3. \E i \in Drafts : \A j \in Drafts : j <= i
      BY <2>3, <3>1, <3>2, GreatestNumber
    <3>4. draft \in Drafts
      BY <3>3
    <3>5. rows' = [rows EXCEPT ![draft].kind = "assistant"]
      BY <2>3 DEF FinishAssistant
    <3> HIDE DEF draft
    <3>6. draft \in 1 .. Len(rows) /\ rows[draft].kind = "assistant_draft"
      BY <3>1, <3>4 DEF Drafts
    <3> DEFINE x == [rows[draft] EXCEPT !.kind = "assistant"]
    <3>7. rows[draft] \in ScreenRows
      BY <1>3, <3>6, ElementOfSeq
    <3>8. x \in ScreenRows
      BY <3>6, <3>7 DEF ScreenRows
    <3>9. rows' = [rows EXCEPT ![draft] = x]
      BY <3>5
    <3> HIDE DEF x
    <3> QED BY <1>3, <3>6, <3>8, <3>9, ExceptSeq
  <2> QED BY <1>1, <2>1, <2>2, <2>3
<1>5. BridgeShape'
  BY <1>1, <1>2, <1>4 DEF BridgeInv, BridgeShape
<1> QED BY <1>2, <1>5 DEF BridgeInv, NothingLost

\* A marker that shows nothing leaves the history as it is.
LEMMA QuietMarkers ==
    ASSUME BridgeShape
    PROVE  /\ [kind |-> "stats"] \in BridgeMessages /\ MessageItems([kind |-> "stats"]) = <<>>
           /\ [kind |-> "end", name |-> engine.tool] \in BridgeMessages
           /\ MessageItems([kind |-> "end", name |-> engine.tool]) = <<>>
           /\ sentPieces \o <<>> = sentPieces
<1>1. engine.tool \in ToolNames \cup {""} /\ sentPieces \in Seq(ScreenItems)
  BY DEF BridgeShape
<1>2. [kind |-> "end", name |-> engine.tool] \in BridgeMessages
  BY <1>1 DEF BridgeMessages
<1>3. [kind |-> "stats"] \in BridgeMessages
  BY DEF BridgeMessages
<1>4. MessageItems([kind |-> "stats"]) = <<>>
      /\ MessageItems([kind |-> "end", name |-> engine.tool]) = <<>>
  BY DEF MessageItems
<1> QED BY <1>1, <1>2, <1>3, <1>4, ConcatEmptySeq

LEMMA StartPreserves ==
    ASSUME BridgeInv, NEW n \in ToolNames, ToolStart(n)
    PROVE  BridgeInv'
<1> DEFINE c == engine.calls + 1
           m == [kind |-> "start", name |-> n, call |-> c]
<1>1. engine.calls \in Int /\ sentPieces \in Seq(ScreenItems) /\ answer \in Seq(Int)
  BY DEF BridgeInv, BridgeShape
<1>2. c \in Int
  BY <1>1
<1>3. /\ engine.at = "turn" /\ SendAfterFlush(m)
      /\ engine' = [at |-> "starting", tool |-> n, text |-> <<>>, calls |-> c]
      /\ sentPieces' = Append(sentPieces, StartMark(n, c))
      /\ UNCHANGED <<pieces, answer, rows>>
  BY DEF ToolStart, screenVars
<1> HIDE DEF c
<1>4. m \in BridgeMessages /\ MessageItems(m) = <<StartMark(n, c)>>
  BY <1>2 DEF BridgeMessages, MessageItems
<1>5. StartMark(n, c) \in ScreenItems
  BY <1>2 DEF StartMark, ScreenItems
<1> HIDE DEF m
<1>6. sentPieces' = sentPieces \o MessageItems(m)
  <2>1. sentPieces' = sentPieces \o <<StartMark(n, c)>>
    BY <1>1, <1>3, <1>5
  <2> QED BY <1>4, <2>1
<1>7. engine' \in [at : EnginePlaces, tool : ToolNames \cup {""}, text : Seq(Int), calls : Int]
  BY <1>2, <1>3, EmptySeq DEF EnginePlaces
<1>8. answer' \in Seq(Int) /\ engine.at # "done"
  BY <1>1, <1>3
<1> QED BY <1>3, <1>4, <1>6, <1>7, <1>8, MarkerPreserves

LEMMA EndsPreserve ==
    ASSUME BridgeInv, ToolEnd \/ FinishTask \/ Interrupted
    PROVE  BridgeInv'
<1>1. /\ engine \in [at : EnginePlaces, tool : ToolNames \cup {""}, text : Seq(Int), calls : Int]
      /\ answer \in Seq(Int) /\ BridgeShape
  BY DEF BridgeInv, BridgeShape
<1>2. CASE ToolEnd
  <2> DEFINE m == [kind |-> "end", name |-> engine.tool]
  <2>1. /\ engine.at = "tool" /\ SendAfterFlush(m) /\ engine' = [engine EXCEPT !.at = "ending"]
        /\ UNCHANGED <<sentPieces, pieces, answer, rows>>
    BY <1>2 DEF ToolEnd, screenVars
  <2>2. m \in BridgeMessages /\ sentPieces' = sentPieces \o MessageItems(m)
    BY <1>1, <2>1, QuietMarkers
  <2> HIDE DEF m
  <2>3. engine' \in [at : EnginePlaces, tool : ToolNames \cup {""}, text : Seq(Int), calls : Int]
    BY <1>1, <2>1, EngineMoves DEF EnginePlaces
  <2> QED BY <1>1, <2>1, <2>2, <2>3, MarkerPreserves
<1>3. CASE FinishTask
  <2> DEFINE m == [kind |-> "stats"]
  <2>1. /\ engine.at = "turn" /\ SendAfterFlush(m) /\ engine' = [engine EXCEPT !.at = "completing"]
        /\ UNCHANGED <<sentPieces, pieces, rows>> /\ answer' = Answers(engine.text)
    BY <1>3 DEF FinishTask, screenVars
  <2>2. m \in BridgeMessages /\ sentPieces' = sentPieces \o MessageItems(m)
    BY <1>1, <2>1, QuietMarkers
  <2> HIDE DEF m
  <2>3. engine' \in [at : EnginePlaces, tool : ToolNames \cup {""}, text : Seq(Int), calls : Int]
    BY <1>1, <2>1, EngineMoves DEF EnginePlaces
  <2>4. answer' \in Seq(Int)
    <3>1. engine.text \in Seq(Int)
      BY <1>1
    <3>4. <<0>> \in Seq(Int) /\ -1 \in Int
      OBVIOUS
    <3> DEFINE u == IF engine.text = <<>> THEN <<0>> ELSE engine.text
    <3>2. u \in Seq(Int)
      BY <3>1, <3>4
    <3>3. answer' = u \/ answer' = Append(u, -1)
      BY <2>1 DEF Answers
    <3> HIDE DEF u
    <3> QED BY <3>2, <3>3, <3>4, AppendProperties
  <2> QED BY <2>1, <2>2, <2>3, <2>4, MarkerPreserves
<1>4. CASE Interrupted
  <2> DEFINE m == [kind |-> "stats"]
  <2>1. /\ engine.at # "done" /\ SendAfterFlush(m) /\ engine' = [engine EXCEPT !.at = "completing"]
        /\ UNCHANGED <<sentPieces, pieces, answer, rows>>
    BY <1>4 DEF Interrupted, screenVars
  <2>2. m \in BridgeMessages /\ sentPieces' = sentPieces \o MessageItems(m)
    BY <1>1, <2>1, QuietMarkers
  <2> HIDE DEF m
  <2>3. engine' \in [at : EnginePlaces, tool : ToolNames \cup {""}, text : Seq(Int), calls : Int]
    BY <1>1, <2>1, EngineMoves DEF EnginePlaces
  <2> QED BY <1>1, <2>1, <2>2, <2>3, MarkerPreserves
<1> QED BY <1>2, <1>3, <1>4

LEMMA BridgePreserved == BridgeInv /\ [BridgeNext]_bridgeVars => BridgeInv'
<1> SUFFICES ASSUME BridgeInv, [BridgeNext]_bridgeVars
             PROVE  BridgeInv'
  OBVIOUS
<1>1. /\ engine \in [at : EnginePlaces, tool : ToolNames \cup {""}, text : Seq(Int), calls : Int]
      /\ BridgeShape /\ NothingLost
  BY DEF BridgeInv, BridgeShape
<1>2. CASE Submit
  <2>1. /\ engine.at = "idle" /\ engine' = [engine EXCEPT !.at = "turn"]
        /\ rows' = Append(rows, NewRow("user", <<>>))
        /\ UNCHANGED <<sentPieces, pieces, answer, outbox, streamBuf, toolBuf>>
    BY <1>2 DEF Submit, bufferVars
  <2>2. engine' \in [at : EnginePlaces, tool : ToolNames \cup {""}, text : Seq(Int), calls : Int]
    BY <1>1, <2>1, EngineMoves DEF EnginePlaces
  <2>3. rows' \in Seq(ScreenRows) /\ NothingLost'
    BY <2>1, UserRowPreserves
  <2> QED BY <1>1, <2>1, <2>2, <2>3 DEF BridgeInv, BridgeShape
<1>3. CASE Steer
  <2>1. /\ engine.at # "done" /\ rows' = Append(rows, NewRow("user", <<>>))
        /\ UNCHANGED <<engine, sentPieces, pieces, answer, outbox, streamBuf, toolBuf>>
    BY <1>3 DEF Steer, bufferVars, engineVars
  <2>2. rows' \in Seq(ScreenRows) /\ NothingLost'
    BY <2>1, UserRowPreserves
  <2> QED BY <1>1, <2>1, <2>2 DEF BridgeInv, BridgeShape
<1>4. CASE ToolRuns \/ NextTurn
  <2>1. \E p \in EnginePlaces : engine' = [engine EXCEPT !.at = p]
    BY <1>4 DEF ToolRuns, NextTurn, EnginePlaces
  <2>2. engine.at # "done" /\ UNCHANGED <<rows, sentPieces, pieces, answer, outbox, streamBuf, toolBuf>>
    BY <1>4 DEF ToolRuns, NextTurn, bufferVars, screenVars
  <2>3. engine' \in [at : EnginePlaces, tool : ToolNames \cup {""}, text : Seq(Int), calls : Int]
    BY <1>1, <2>1, EngineMoves
  <2>4. NothingLost'
    BY <1>1, <2>2, NothingMoves
  <2> QED BY <1>1, <2>2, <2>3, <2>4 DEF BridgeInv, BridgeShape
<1>5. CASE ShellEnds \/ UNCHANGED bridgeVars
  <2>1. UNCHANGED <<engine, rows, sentPieces, pieces, answer, outbox, streamBuf, toolBuf>>
    BY <1>5 DEF ShellEnds, bridgeVars, bufferVars, screenVars
  <2>2. NothingLost'
    BY <1>1, <2>1, NothingMoves
  <2> QED BY <1>1, <2>1, <2>2 DEF BridgeInv, BridgeShape
<1> QED BY <1>2, <1>3, <1>4, <1>5, TokenPreserves, StartPreserves, OutputPreserves, EndsPreserve,
           FlushPreserves, DeliverPreserves, ResultPreserves DEF BridgeNext

LEMMA BridgeInvariant == BridgeSpec => []BridgeInv
BY BridgeInitial, BridgePreserved, PTL DEF BridgeSpec

\* A beginning is a prefix.
LEMMA BeginningIsPrefix ==
    ASSUME NEW s \in Seq(ScreenItems), NEW t \in Seq(ScreenItems)
    PROVE  IsPrefix(s, s \o t)
<1> DEFINE u == s \o t
<1>1. u \in Seq(ScreenItems) /\ Len(u) = Len(s) + Len(t) /\ Len(s) \in Nat /\ Len(t) \in Nat
      /\ \A i \in 1 .. Len(s) : u[i] = s[i]
  OBVIOUS
<1> HIDE DEF u
<1>2. SubSeq(s, 1, Len(s)) = SubSeq(u, 1, Len(s))
  BY <1>1
<1>3. IsPrefix(s, u)
  BY <1>1, <1>2 DEF IsPrefix
<1> QED BY <1>3 DEF u

\* Whatever the timers, the shell's writer and the user do in between, the screen shows a
\* beginning of what the engine sent, in its order: text stands above the call it came
\* before and beneath the one it followed (Bridge.sendAfterFlush, Bridge.flush).
THEOREM OrderAlwaysKept == BridgeSpec => []OrderKept
<1>1. BridgeInv => OrderKept
  <2> SUFFICES ASSUME BridgeInv, engine.at # "done"
               PROVE  IsPrefix(ShownOrder, sentPieces)
    BY DEF OrderKept
  <2> DEFINE s == ShownOrder
             p == OnTheWay
             t == TextItems(streamBuf)
  <2>1. s \in Seq(ScreenItems) /\ p \in Seq(ScreenItems) /\ t \in Seq(ScreenItems)
    BY ListsTyped DEF BridgeInv
  <2>2. (s \o p) \o t = sentPieces
    BY DEF BridgeInv, NothingLost, OnTheWay
  <2> HIDE DEF s, p, t
  <2>3. (s \o p) \o t = s \o (p \o t) /\ p \o t \in Seq(ScreenItems)
    BY <2>1, ConcatAssociative, ConcatProperties
  <2>4. IsPrefix(s, s \o (p \o t))
    BY <2>1, <2>3, BeginningIsPrefix
  <2>5. sentPieces = s \o (p \o t)
    BY <2>2, <2>3
  <2> QED BY <2>4, <2>5 DEF s
<1> QED BY <1>1, BridgeInvariant, PTL

=============================================================================
