------------------------------ MODULE Mcp_proofs ------------------------------
(***************************************************************************)
(* That the tools the manager offers and the connections it holds stay in  *)
(* step, and that the secrets file keeps the tokens that work: for any     *)
(* servers, managers, callers, versions, refreshes, calls and jobs.        *)
(***************************************************************************)
EXTENDS Mcp, McpSecrets, SequenceTheorems, TLAPS

Links == [server : Servers, session : Nat \ {0}]
Rounds == [only : SUBSET Servers, full : BOOLEAN, at : {"queued", "connecting", "done"},
           cancelled : BOOLEAN, todo : SUBSET Servers, ready : SUBSET Links]

LinkTypeOK ==
    /\ rounds \in Seq(Rounds) /\ refreshMu \in Nat
    /\ connections \subseteq Links /\ tools \in [Servers -> Nat]
    /\ opened \in Nat /\ sessions \subseteq 1 .. opened

\* Only the round that holds the lock connects, and what it connects is its own.
RoundInv ==
    \A r \in DOMAIN rounds :
        /\ rounds[r].at = "connecting" => refreshMu = r
        /\ rounds[r].at # "connecting" => rounds[r].todo = {} /\ rounds[r].ready = {}

\* The lock holder's servers have no connection, and its new sessions are open ones.
ReadyInv ==
    \A r \in DOMAIN rounds :
        /\ \A s \in rounds[r].todo : ~HasLiveServer(s)
        /\ \A c \in rounds[r].ready :
               /\ c.server \notin rounds[r].todo /\ ~HasLiveServer(c.server) /\ c.session \in sessions
               /\ \A d \in rounds[r].ready : d.server = c.server => d = c
               /\ \A d \in rounds[r].ready : d.session = c.session => d = c
               /\ \A d \in connections : d.session # c.session

\* Two connections are of two servers and of two sessions.
LinkInv ==
    \A c, d \in connections : c.session = d.session => c = d

Stages == {"idle", "ensuring", "waiting", "checking", "failing", "looking", "executing"}
CallRecords == [at : Stages, server : Servers \union {"none"}, round : Nat, session : Nat]

\* A call knows its server, and waits for a round there is.
CallInv ==
    /\ toolCalls \in [Callers -> CallRecords]
    /\ \A c \in Callers :
           /\ toolCalls[c].at # "idle" => toolCalls[c].server \in Servers
           /\ toolCalls[c].at = "waiting" => toolCalls[c].round \in DOMAIN rounds

McpInv == LinkTypeOK /\ RoundInv /\ ReadyInv /\ LinkInv /\ ToolsAreLive

\* Before the first round there is no connection.
LEMMA McpInitial == McpInit => McpInv
<1> SUFFICES ASSUME McpInit PROVE McpInv
  OBVIOUS
<1>1. rounds \in Seq(Rounds) /\ DOMAIN rounds = {}
  BY EmptySeq DEF McpInit
<1> QED BY <1>1 DEF McpInit, McpInv, LinkTypeOK, RoundInv, ReadyInv, LinkInv, ToolsAreLive

-----------------------------------------------------------------------------
(* Steps that leave the connections as they are.                           *)

\* Rounds that only lose or gain what no property depends on.
LEMMA RoundsPreserve ==
    ASSUME McpInv, UNCHANGED liveVars, refreshMu' \in Nat, rounds' \in Seq(Rounds),
           \A r \in DOMAIN rounds' :
               \/ /\ rounds'[r].at # "connecting"
                  /\ rounds'[r].todo = {} /\ rounds'[r].ready = {}
               \/ /\ r \in DOMAIN rounds /\ rounds'[r].at = rounds[r].at /\ refreshMu' = refreshMu
                  /\ rounds'[r].todo \subseteq rounds[r].todo /\ rounds'[r].ready = rounds[r].ready
    PROVE  McpInv'
<1>1. LinkTypeOK' /\ LinkInv' /\ ToolsAreLive'
  BY DEF McpInv, LinkTypeOK, LinkInv, ToolsAreLive, liveVars
<1>2. RoundInv'
  BY DEF McpInv, RoundInv
<1>3. ReadyInv'
  BY DEF McpInv, ReadyInv, liveVars, HasLiveServer
<1> QED BY <1>1, <1>2, <1>3 DEF McpInv

\* A step that touches neither rounds nor connections.
LEMMA AsidePreserves ==
    ASSUME McpInv, UNCHANGED <<liveVars, rounds, refreshMu>> PROVE McpInv'
BY DEF McpInv, LinkTypeOK, RoundInv, ReadyInv, LinkInv, ToolsAreLive, liveVars, HasLiveServer

\* What Append and a new record at one place make of the rounds.
LEMMA RoundTypes ==
    ASSUME McpInv
    PROVE  /\ Len(rounds) \in Nat /\ DOMAIN rounds = 1 .. Len(rounds)
           /\ \A r \in DOMAIN rounds : rounds[r] \in Rounds
BY LenProperties, ElementOfSeq DEF McpInv, LinkTypeOK

\* Rounds that are cancelled go on as they were.
LEMMA MarkPreserves ==
    ASSUME McpInv, NEW marked \in SUBSET DOMAIN rounds,
           rounds' = [r \in DOMAIN rounds |-> [rounds[r] EXCEPT !.cancelled = @ \/ r \in marked]],
           UNCHANGED <<liveVars, refreshMu>>
    PROVE  McpInv'
<1>1. Len(rounds) \in Nat /\ DOMAIN rounds = 1 .. Len(rounds) /\ \A r \in DOMAIN rounds : rounds[r] \in Rounds
  BY RoundTypes
<1>2. \A r \in DOMAIN rounds : /\ rounds'[r] \in Rounds /\ rounds'[r].at = rounds[r].at
                               /\ rounds'[r].todo = rounds[r].todo /\ rounds'[r].ready = rounds[r].ready
  BY <1>1 DEF Rounds
<1>3. rounds' \in [1 .. Len(rounds) -> Rounds]
  BY <1>1, <1>2
<1>4. rounds' \in Seq(Rounds)
  BY <1>1, <1>3, SeqDef
<1> QED BY <1>1, <1>2, <1>3, <1>4, RoundsPreserve DEF McpInv, LinkTypeOK

LEMMA NewRoundType ==
    ASSUME NEW only \in SUBSET Servers, NEW full \in BOOLEAN
    PROVE  /\ NewRound(only, full) \in Rounds /\ NewRound(only, full).at = "queued"
           /\ NewRound(only, full).todo = {} /\ NewRound(only, full).ready = {}
BY DEF NewRound, Rounds

\* A new round waits for the lock.
LEMMA AppendPreserves ==
    ASSUME McpInv, NEW only \in SUBSET Servers, NEW full \in BOOLEAN,
           rounds' = Append(rounds, NewRound(only, full)),
           UNCHANGED <<liveVars, refreshMu>>
    PROVE  McpInv'
<1>1. Len(rounds) \in Nat /\ DOMAIN rounds = 1 .. Len(rounds) /\ rounds \in Seq(Rounds)
  BY RoundTypes DEF McpInv, LinkTypeOK
<1>2. /\ NewRound(only, full) \in Rounds /\ NewRound(only, full).at # "connecting"
      /\ NewRound(only, full).todo = {} /\ NewRound(only, full).ready = {}
  BY NewRoundType
<1>3. /\ rounds' \in Seq(Rounds) /\ DOMAIN rounds' = 1 .. Len(rounds) + 1
      /\ \A r \in 1 .. Len(rounds) : rounds'[r] = rounds[r]
      /\ rounds'[Len(rounds) + 1] = NewRound(only, full)
  BY <1>1, <1>2, AppendProperties, LenProperties
<1>4. \A r \in DOMAIN rounds' :
          \/ rounds'[r].at # "connecting" /\ rounds'[r].todo = {} /\ rounds'[r].ready = {}
          \/ r \in DOMAIN rounds /\ rounds'[r] = rounds[r]
  <2> SUFFICES ASSUME NEW r \in 1 .. Len(rounds) + 1
               PROVE  \/ rounds'[r].at # "connecting" /\ rounds'[r].todo = {} /\ rounds'[r].ready = {}
                      \/ r \in DOMAIN rounds /\ rounds'[r] = rounds[r]
    BY <1>3
  <2>1. r \in 1 .. Len(rounds) \/ r = Len(rounds) + 1
    BY <1>1
  <2> QED BY <1>1, <1>2, <1>3, <2>1
<1> QED BY <1>3, <1>4, RoundsPreserve DEF McpInv, LinkTypeOK

\* One more round, after others.
LEMMA AppendedRound ==
    ASSUME NEW q \in Seq(Rounds), NEW new \in Rounds, Len(q) = Len(rounds), rounds' = Append(q, new)
    PROVE  /\ rounds' \in Seq(Rounds) /\ DOMAIN rounds' = 1 .. Len(rounds) + 1
           /\ \A i \in 1 .. Len(rounds) : rounds'[i] = q[i]
           /\ rounds'[Len(rounds) + 1] = new
<1> DEFINE longer == Append(q, new)
<1>1. /\ longer \in Seq(Rounds) /\ Len(longer) = Len(q) + 1
      /\ \A i \in 1 .. Len(q) : longer[i] = q[i]
      /\ longer[Len(q) + 1] = new
  BY AppendProperties
<1>2. DOMAIN longer = 1 .. Len(longer)
  BY <1>1, LenProperties
<1>3. rounds' = longer
  OBVIOUS
<1> HIDE DEF longer
<1> QED BY <1>1, <1>2, <1>3

\* A refresh cancels the round before and begins its own.
LEMMA BeginRefreshPreserves ==
    ASSUME McpInv, BeginRefresh, UNCHANGED liveVars PROVE McpInv'
<1> DEFINE marked == [r \in DOMAIN rounds |-> [rounds[r] EXCEPT !.cancelled = @ \/ r = refreshStop]]
<1>1. Len(rounds) \in Nat /\ DOMAIN rounds = 1 .. Len(rounds) /\ \A r \in DOMAIN rounds : rounds[r] \in Rounds
  BY RoundTypes
<1>2. \A r \in DOMAIN rounds : /\ marked[r] \in Rounds /\ marked[r].at = rounds[r].at
                               /\ marked[r].todo = rounds[r].todo /\ marked[r].ready = rounds[r].ready
  BY <1>1 DEF Rounds
<1>3. marked \in Seq(Rounds) /\ Len(marked) = Len(rounds)
  <2>1. marked \in [1 .. Len(rounds) -> Rounds]
    BY <1>1, <1>2
  <2> QED BY <1>1, <2>1, LenProperties
<1>4. /\ NewRound(Servers, TRUE) \in Rounds /\ NewRound(Servers, TRUE).at # "connecting"
      /\ NewRound(Servers, TRUE).todo = {} /\ NewRound(Servers, TRUE).ready = {}
  BY NewRoundType
<1>5. rounds' = Append(marked, NewRound(Servers, TRUE)) /\ refreshMu' = refreshMu
  BY DEF BeginRefresh
<1>6. /\ rounds' \in Seq(Rounds) /\ DOMAIN rounds' = 1 .. Len(rounds) + 1
      /\ \A r \in 1 .. Len(rounds) : rounds'[r] = marked[r]
      /\ rounds'[Len(rounds) + 1] = NewRound(Servers, TRUE)
  <2> HIDE DEF marked
  <2> QED BY <1>3, <1>4, <1>5, AppendedRound
<1>7. \A r \in DOMAIN rounds' :
          \/ rounds'[r].at # "connecting" /\ rounds'[r].todo = {} /\ rounds'[r].ready = {}
          \/ /\ r \in DOMAIN rounds /\ rounds'[r].at = rounds[r].at
             /\ rounds'[r].todo = rounds[r].todo /\ rounds'[r].ready = rounds[r].ready
  <2> HIDE DEF marked
  <2> SUFFICES ASSUME NEW r \in 1 .. Len(rounds) + 1
               PROVE  \/ rounds'[r].at # "connecting" /\ rounds'[r].todo = {} /\ rounds'[r].ready = {}
                      \/ /\ r \in DOMAIN rounds /\ rounds'[r].at = rounds[r].at
                         /\ rounds'[r].todo = rounds[r].todo /\ rounds'[r].ready = rounds[r].ready
    BY <1>6
  <2>1. r \in 1 .. Len(rounds) \/ r = Len(rounds) + 1
    BY <1>1
  <2> QED BY <1>1, <1>2, <1>4, <1>6, <2>1
<1> QED BY <1>5, <1>6, <1>7, RoundsPreserve DEF McpInv, LinkTypeOK

-----------------------------------------------------------------------------
(* The rounds that connect.                                                *)

\* A record put in the place of a round.
LEMMA ReplaceRound ==
    ASSUME McpInv, NEW r \in DOMAIN rounds, NEW new \in Rounds
    PROVE  /\ [rounds EXCEPT ![r] = new] \in Seq(Rounds)
           /\ DOMAIN [rounds EXCEPT ![r] = new] = DOMAIN rounds
           /\ \A q \in DOMAIN rounds : [rounds EXCEPT ![r] = new][q] = IF q = r THEN new ELSE rounds[q]
<1>1. rounds \in Seq(Rounds) /\ DOMAIN rounds = 1 .. Len(rounds)
  BY RoundTypes DEF McpInv, LinkTypeOK
<1> QED BY <1>1, ExceptSeq

\* The lock is free, so no other round has anything; the servers of the round are cleared.
LEMMA DropPreserves ==
    ASSUME McpInv, NEW r \in DOMAIN rounds, Drop(r) PROVE McpInv'
<1> DEFINE only == rounds[r].only
           dropped == {c \in connections : c.server \in only}
<1>1. /\ rounds[r].at = "queued" /\ refreshMu = 0 /\ refreshMu' = r /\ opened' = opened
      /\ connections' = connections \ dropped
      /\ tools' = [s \in Servers |-> IF s \in only THEN 0 ELSE tools[s]]
      /\ sessions' \subseteq sessions
      /\ \A n \in sessions : (\A c \in dropped : c.session # n) => n \in sessions'
  BY DEF Drop
<1>2. PICK todo \in SUBSET Servers : /\ todo \subseteq only
                                     /\ rounds' = [rounds EXCEPT ![r].at = "connecting", ![r].todo = todo]
  <2>1. rounds[r] \in Rounds
    BY RoundTypes
  <2>2. rounds[r].todo = {}
    BY <1>1 DEF McpInv, RoundInv
  <2>3. CASE rounds' = [rounds EXCEPT ![r].at = "connecting", ![r].todo = only \intersect enabled]
    BY <2>1, <2>3 DEF Rounds
  <2>4. CASE rounds' = [rounds EXCEPT ![r].at = "connecting"]
    <3>1. [rounds EXCEPT ![r].at = "connecting"] = [rounds EXCEPT ![r].at = "connecting", ![r].todo = {}]
      <4>1. rounds \in Seq(Rounds) /\ rounds = [q \in DOMAIN rounds |-> rounds[q]]
        BY SeqDef DEF McpInv, LinkTypeOK
      <4> QED BY <2>1, <2>2, <4>1 DEF Rounds
    <3> QED BY <2>4, <3>1
  <2> QED BY <2>3, <2>4 DEF Drop
<1> DEFINE new == [rounds[r] EXCEPT !.at = "connecting", !.todo = todo]
<1>3. new \in Rounds /\ new.at = "connecting" /\ new.todo = todo /\ new.ready = {}
  <2>1. rounds[r] \in Rounds /\ rounds[r].ready = {}
    BY <1>1, RoundTypes DEF McpInv, RoundInv
  <2> QED BY <2>1 DEF Rounds
<1>4. /\ rounds' \in Seq(Rounds) /\ DOMAIN rounds' = DOMAIN rounds
      /\ \A q \in DOMAIN rounds : rounds'[q] = IF q = r THEN new ELSE rounds[q]
  <2>1. rounds' = [rounds EXCEPT ![r] = new]
    BY <1>2
  <2> HIDE DEF new
  <2> QED BY <1>3, <2>1, ReplaceRound
<1> HIDE DEF new
<1>5. LinkTypeOK'
  <2>1. r \in Nat /\ only \in SUBSET Servers
    BY RoundTypes DEF Rounds
  <2> QED BY <1>1, <1>4, <2>1 DEF McpInv, LinkTypeOK
<1>6. \A q \in DOMAIN rounds : q # r => rounds[q].at # "connecting" /\ rounds[q].todo = {} /\ rounds[q].ready = {}
  <2>1. \A q \in DOMAIN rounds : q # 0
    BY RoundTypes
  <2> QED BY <1>1, <2>1 DEF McpInv, RoundInv
<1>7. RoundInv'
  BY <1>1, <1>3, <1>4, <1>6 DEF RoundInv
<1>8. ReadyInv'
  <2>1. \A s \in todo : ~HasLiveServer(s)'
    BY <1>1, <1>2 DEF HasLiveServer
  <2> QED BY <1>3, <1>4, <1>6, <2>1 DEF ReadyInv
<1>9. LinkInv'
  BY <1>1 DEF McpInv, LinkInv
<1>10. ToolsAreLive'
  <2>1. \A c \in connections' : c.server \notin only /\ c \in connections /\ c.server \in Servers
    BY <1>1 DEF McpInv, LinkTypeOK, Links
  <2>2. \A c \in connections' : tools'[c.server] = c.session
    BY <1>1, <2>1 DEF McpInv, ToolsAreLive
  <2>3. \A c \in connections' : c.session \in sessions'
    BY <1>1, <2>1 DEF McpInv, ToolsAreLive, LinkInv
  <2>4. \A s \in Servers : tools'[s] # 0 => [server |-> s, session |-> tools'[s]] \in connections'
    <3> SUFFICES ASSUME NEW s \in Servers, tools'[s] # 0
                 PROVE  [server |-> s, session |-> tools'[s]] \in connections'
      OBVIOUS
    <3>1. s \notin only /\ tools'[s] = tools[s]
      BY <1>1
    <3>2. [server |-> s, session |-> tools[s]] \in connections
      BY <3>1 DEF McpInv, ToolsAreLive
    <3> QED BY <1>1, <3>1, <3>2
  <2> QED BY <2>2, <2>3, <2>4 DEF ToolsAreLive
<1> QED BY <1>5, <1>7, <1>8, <1>9, <1>10 DEF McpInv
\* What RoundInv says of the round that connects: no other does.
LEMMA OnlyOneConnects ==
    ASSUME McpInv, NEW r \in DOMAIN rounds, rounds[r].at = "connecting"
    PROVE  \A q \in DOMAIN rounds :
               q # r => rounds[q].at # "connecting" /\ rounds[q].todo = {} /\ rounds[q].ready = {}
BY DEF McpInv, RoundInv

\* The session of a handshake is a new one, and its server leaves the list.
LEMMA HandshakePreserves ==
    ASSUME McpInv, NEW r \in DOMAIN rounds, NEW s \in Servers, NEW v \in Versions, Handshake(r, s, v)
    PROVE  McpInv'
<1> DEFINE c == [server |-> s, session |-> opened + 1]
           new == [rounds[r] EXCEPT !.todo = @ \ {s}, !.ready = @ \union {c}]
<1>1. /\ rounds[r].at = "connecting" /\ s \in rounds[r].todo /\ opened' = opened + 1
      /\ sessions' = sessions \union {opened + 1} /\ rounds' = [rounds EXCEPT ![r] = new]
      /\ connections' = connections /\ tools' = tools /\ refreshMu' = refreshMu
  BY DEF Handshake
<1>2. rounds[r] \in Rounds /\ opened \in Nat /\ c \in Links
  BY RoundTypes DEF McpInv, LinkTypeOK, Links
<1>3. /\ new \in Rounds /\ new.at = "connecting" /\ new.todo = rounds[r].todo \ {s}
      /\ new.ready = rounds[r].ready \union {c}
  BY <1>1, <1>2 DEF Rounds
<1>4. /\ rounds' \in Seq(Rounds) /\ DOMAIN rounds' = DOMAIN rounds
      /\ \A q \in DOMAIN rounds : rounds'[q] = IF q = r THEN new ELSE rounds[q]
  <2> HIDE DEF new
  <2> QED BY <1>1, <1>3, ReplaceRound
<1>5. \A q \in DOMAIN rounds : q # r => rounds[q].at # "connecting" /\ rounds[q].todo = {} /\ rounds[q].ready = {}
  BY <1>1, OnlyOneConnects
<1>6. c.server = s /\ c.session = opened + 1 /\ c.session \notin sessions
  BY <1>2 DEF McpInv, LinkTypeOK
<1>7. \A d \in connections : d.session # c.session
  BY <1>6 DEF McpInv, ToolsAreLive
<1>8. \A d \in rounds[r].ready : d.session # c.session /\ d.server # s
  BY <1>1, <1>6 DEF McpInv, ReadyInv
<1>9. ~HasLiveServer(s)
  BY <1>1 DEF McpInv, ReadyInv
<1> HIDE DEF new, c
<1>10. LinkTypeOK'
  <2>1. sessions' \subseteq 1 .. opened'
    BY <1>1, <1>2 DEF McpInv, LinkTypeOK
  <2> QED BY <1>1, <1>2, <1>4, <2>1 DEF McpInv, LinkTypeOK
<1>11. RoundInv'
  BY <1>1, <1>3, <1>4, <1>5 DEF McpInv, RoundInv
<1>12. ReadyInv'
  <2>1. \A t : HasLiveServer(t)' <=> HasLiveServer(t)
    BY <1>1 DEF HasLiveServer
  <2>2. /\ \A t \in new.todo : ~HasLiveServer(t)
        /\ \A d \in new.ready :
              /\ d.server \notin new.todo /\ ~HasLiveServer(d.server) /\ d.session \in sessions'
              /\ \A e \in connections : e.session # d.session
    <3>1. \A d \in rounds[r].ready : /\ d.server \notin rounds[r].todo /\ ~HasLiveServer(d.server)
                                     /\ d.session \in sessions
                                     /\ \A e \in connections : e.session # d.session
      BY DEF McpInv, ReadyInv
    <3>2. \A t \in rounds[r].todo : ~HasLiveServer(t)
      BY DEF McpInv, ReadyInv
    <3> QED BY <1>1, <1>3, <1>6, <1>7, <1>9, <3>1, <3>2
  <2>3. \A d, e \in new.ready : (e.server = d.server \/ e.session = d.session) => e = d
    <3>1. \A d, e \in rounds[r].ready : (e.server = d.server \/ e.session = d.session) => e = d
      BY DEF McpInv, ReadyInv
    <3> QED BY <1>3, <1>6, <1>8, <3>1
  <2> QED BY <1>1, <1>4, <1>5, <2>1, <2>2, <2>3 DEF ReadyInv
<1>13. LinkInv' /\ ToolsAreLive'
  BY <1>1 DEF McpInv, LinkInv, ToolsAreLive
<1> QED BY <1>10, <1>11, <1>12, <1>13 DEF McpInv

\* An adopted connection is the only one of its server.
LEMMA AdoptPreserves ==
    ASSUME McpInv, NEW r \in DOMAIN rounds, NEW c \in rounds[r].ready, Adopt(r, c) PROVE McpInv'
<1> DEFINE new == [rounds[r] EXCEPT !.ready = @ \ {c}]
<1>1. /\ connections' = connections \union {c} /\ tools' = [tools EXCEPT ![c.server] = c.session]
      /\ rounds' = [rounds EXCEPT ![r] = new] /\ sessions' = sessions /\ opened' = opened
      /\ refreshMu' = refreshMu
  BY DEF Adopt
<1>2. rounds[r] \in Rounds /\ c \in Links /\ rounds[r].at = "connecting"
  <2>1. rounds[r] \in Rounds
    BY RoundTypes
  <2>2. rounds[r].at = "connecting"
    BY DEF McpInv, RoundInv
  <2> QED BY <2>1, <2>2 DEF Rounds
<1>3. /\ new \in Rounds /\ new.at = rounds[r].at /\ new.todo = rounds[r].todo
      /\ new.ready = rounds[r].ready \ {c}
  BY <1>2 DEF Rounds
<1>4. /\ rounds' \in Seq(Rounds) /\ DOMAIN rounds' = DOMAIN rounds
      /\ \A q \in DOMAIN rounds : rounds'[q] = IF q = r THEN new ELSE rounds[q]
  <2> HIDE DEF new
  <2> QED BY <1>1, <1>3, ReplaceRound
<1>5. \A q \in DOMAIN rounds : q # r => rounds[q].at # "connecting" /\ rounds[q].todo = {} /\ rounds[q].ready = {}
  BY <1>2, OnlyOneConnects
<1>6. c.server \in Servers /\ c.session \in Nat \ {0} /\ c = [server |-> c.server, session |-> c.session]
  BY <1>2 DEF Links
<1>7. /\ ~HasLiveServer(c.server) /\ c.session \in sessions /\ c.server \notin rounds[r].todo
      /\ \A d \in connections : d.session # c.session
      /\ \A d \in rounds[r].ready : d # c => d.server # c.server /\ d.session # c.session
  BY DEF McpInv, ReadyInv
<1> HIDE DEF new
<1>8. LinkTypeOK'
  <2>1. tools' \in [Servers -> Nat]
    BY <1>1, <1>6 DEF McpInv, LinkTypeOK
  <2> QED BY <1>1, <1>2, <1>4, <2>1 DEF McpInv, LinkTypeOK
<1>9. RoundInv'
  BY <1>1, <1>2, <1>3, <1>4, <1>5 DEF McpInv, RoundInv
<1>10. ReadyInv'
  <2>1. \A t : HasLiveServer(t)' => HasLiveServer(t) \/ t = c.server
    BY <1>1 DEF HasLiveServer
  <2>2. \A t \in new.todo : ~HasLiveServer(t)'
    BY <1>3, <1>7, <2>1 DEF McpInv, ReadyInv
  <2>3. \A d \in new.ready :
            /\ d.server \notin new.todo /\ ~HasLiveServer(d.server)' /\ d.session \in sessions'
            /\ \A e \in new.ready : e.server = d.server => e = d
            /\ \A e \in new.ready : e.session = d.session => e = d
            /\ \A e \in connections' : e.session # d.session
    <3> SUFFICES ASSUME NEW d \in rounds[r].ready, d # c
                 PROVE  /\ d.server \notin new.todo /\ ~HasLiveServer(d.server)' /\ d.session \in sessions'
                        /\ \A e \in new.ready : e.server = d.server => e = d
                        /\ \A e \in new.ready : e.session = d.session => e = d
                        /\ \A e \in connections' : e.session # d.session
      BY <1>3
    <3>1. /\ d.server \notin rounds[r].todo /\ ~HasLiveServer(d.server) /\ d.session \in sessions
          /\ \A e \in rounds[r].ready : e.server = d.server => e = d
          /\ \A e \in rounds[r].ready : e.session = d.session => e = d
          /\ \A e \in connections : e.session # d.session
      BY DEF McpInv, ReadyInv
    <3> QED BY <1>1, <1>3, <1>7, <2>1, <3>1
  <2> QED BY <1>4, <1>5, <2>2, <2>3 DEF ReadyInv
<1>11. LinkInv'
  BY <1>1, <1>7 DEF McpInv, LinkInv
<1>12. ToolsAreLive'
  <2>1. \A d \in connections : d.server # c.server /\ tools[d.server] = d.session /\ d.session \in sessions
    BY <1>7 DEF McpInv, ToolsAreLive, HasLiveServer
  <2>2. \A d \in connections : d.server \in Servers
    BY DEF McpInv, LinkTypeOK, Links
  <2>3. tools \in [Servers -> Nat]
    BY DEF McpInv, LinkTypeOK
  <2>4. \A d \in connections' : tools'[d.server] = d.session /\ d.session \in sessions'
    BY <1>1, <1>6, <1>7, <2>1, <2>2, <2>3
  <2>5. \A s \in Servers : tools'[s] # 0 => [server |-> s, session |-> tools'[s]] \in connections'
    <3> SUFFICES ASSUME NEW s \in Servers, tools'[s] # 0
                 PROVE  [server |-> s, session |-> tools'[s]] \in connections'
      OBVIOUS
    <3>1. CASE s = c.server
      BY <1>1, <1>6, <2>3, <3>1
    <3>2. CASE s # c.server
      <4>1. tools'[s] = tools[s]
        BY <1>1, <2>3, <3>2
      <4>2. [server |-> s, session |-> tools[s]] \in connections
        BY <4>1 DEF McpInv, ToolsAreLive
      <4> QED BY <1>1, <4>1, <4>2
    <3> QED BY <3>1, <3>2
  <2> QED BY <2>4, <2>5 DEF ToolsAreLive
<1> QED BY <1>8, <1>9, <1>10, <1>11, <1>12 DEF McpInv

\* A server that could not be connected leaves the list.
LEMMA ConnectFailsPreserves ==
    ASSUME McpInv, NEW r \in DOMAIN rounds, NEW s \in Servers, ConnectFails(r, s) PROVE McpInv'
<1> DEFINE new == [rounds[r] EXCEPT !.todo = @ \ {s}]
<1>1. rounds' = [rounds EXCEPT ![r] = new] /\ refreshMu' = refreshMu /\ UNCHANGED liveVars
  BY DEF ConnectFails
<1>2. rounds[r] \in Rounds
  BY RoundTypes
<1>3. /\ new \in Rounds /\ new.at = rounds[r].at /\ new.todo \subseteq rounds[r].todo
      /\ new.ready = rounds[r].ready
  BY <1>2 DEF Rounds
<1>4. /\ rounds' \in Seq(Rounds) /\ DOMAIN rounds' = DOMAIN rounds
      /\ \A q \in DOMAIN rounds : rounds'[q] = IF q = r THEN new ELSE rounds[q]
  <2> HIDE DEF new
  <2> QED BY <1>1, <1>3, ReplaceRound
<1> HIDE DEF new
<1>5. \A q \in DOMAIN rounds' : /\ q \in DOMAIN rounds /\ rounds'[q].at = rounds[q].at
                                /\ rounds'[q].todo \subseteq rounds[q].todo /\ rounds'[q].ready = rounds[q].ready
  BY <1>3, <1>4
<1> QED BY <1>1, <1>4, <1>5, RoundsPreserve DEF McpInv, LinkTypeOK

\* A round that ends has nothing left and gives the lock up.
LEMMA EndRoundPreserves ==
    ASSUME McpInv, NEW r \in DOMAIN rounds, EndRound(r) PROVE McpInv'
<1> DEFINE new == [rounds[r] EXCEPT !.at = "done"]
<1>1. /\ rounds' = [rounds EXCEPT ![r] = new] /\ refreshMu' = 0 /\ UNCHANGED liveVars
      /\ rounds[r].at = "connecting" /\ rounds[r].todo = {} /\ rounds[r].ready = {}
  BY DEF EndRound
<1>2. rounds[r] \in Rounds
  BY RoundTypes
<1>3. new \in Rounds /\ new.at # "connecting" /\ new.todo = {} /\ new.ready = {}
  BY <1>1, <1>2 DEF Rounds
<1>4. /\ rounds' \in Seq(Rounds) /\ DOMAIN rounds' = DOMAIN rounds
      /\ \A q \in DOMAIN rounds : rounds'[q] = IF q = r THEN new ELSE rounds[q]
  <2> HIDE DEF new
  <2> QED BY <1>1, <1>3, ReplaceRound
<1> HIDE DEF new
<1>5. \A q \in DOMAIN rounds' : /\ rounds'[q].at # "connecting"
                                /\ rounds'[q].todo = {} /\ rounds'[q].ready = {}
  BY <1>1, <1>3, <1>4, OnlyOneConnects
<1> QED BY <1>1, <1>4, <1>5, RoundsPreserve

-----------------------------------------------------------------------------
(* The calls, and the end.                                                 *)

\* markServerError closes the one connection of the server together with its tool.
LEMMA BrokenPreserves ==
    ASSUME McpInv, NEW c \in Callers, Broken(c) PROVE McpInv'
<1> DEFINE s == toolCalls[c].server
           gone == {d \in connections : d.server = s}
<1>1. /\ connections' = connections \ gone /\ rounds' = rounds /\ refreshMu' = refreshMu
      /\ sessions' = sessions \ {d.session : d \in gone} /\ opened' = opened
      /\ tools' = IF HasLiveServer(s) THEN [tools EXCEPT ![s] = 0] ELSE tools
  BY DEF Broken, MarkServerError, roundVars
<1> HIDE DEF s
<1>2. LinkTypeOK'
  BY <1>1 DEF McpInv, LinkTypeOK
<1>3. RoundInv' /\ LinkInv'
  BY <1>1 DEF McpInv, RoundInv, LinkInv
<1>4. ReadyInv'
  <2>1. \A t : HasLiveServer(t)' => HasLiveServer(t)
    BY <1>1 DEF HasLiveServer
  <2>2. \A r \in DOMAIN rounds : \A d \in rounds[r].ready : d.session \in sessions'
    BY <1>1 DEF McpInv, ReadyInv
  <2> QED BY <1>1, <2>1, <2>2 DEF McpInv, ReadyInv
<1>5. ToolsAreLive'
  <2>1. \A d \in connections' : d \in connections /\ d.server # s /\ d.server \in Servers
    BY <1>1 DEF McpInv, LinkTypeOK, Links
  <2>2. \A d \in connections' : d.session \in sessions'
    BY <1>1, <2>1 DEF McpInv, ToolsAreLive, LinkInv
  <2>3. \A t \in Servers : t # s => tools'[t] = tools[t]
    BY <1>1 DEF McpInv, LinkTypeOK
  <2>4. s \in Servers => tools'[s] = 0
    <3>1. CASE HasLiveServer(s)
      BY <1>1, <3>1 DEF McpInv, LinkTypeOK
    <3>2. CASE ~HasLiveServer(s)
      BY <1>1, <3>2 DEF McpInv, ToolsAreLive, HasLiveServer
    <3> QED BY <3>1, <3>2
  <2>5. \A d \in connections' : tools'[d.server] = d.session
    BY <2>1, <2>3 DEF McpInv, ToolsAreLive
  <2>6. \A t \in Servers : tools'[t] # 0 => [server |-> t, session |-> tools'[t]] \in connections'
    <3> SUFFICES ASSUME NEW t \in Servers, tools'[t] # 0
                 PROVE  [server |-> t, session |-> tools'[t]] \in connections'
      OBVIOUS
    <3>1. t # s /\ tools'[t] = tools[t]
      BY <2>3, <2>4
    <3>2. [server |-> t, session |-> tools[t]] \in connections
      BY <3>1 DEF McpInv, ToolsAreLive
    <3> QED BY <1>1, <3>1, <3>2
  <2> QED BY <2>2, <2>5, <2>6 DEF ToolsAreLive
<1> QED BY <1>2, <1>3, <1>4, <1>5 DEF McpInv

\* The connections are closed when no round connects.
LEMMA CloseConnectionsPreserves ==
    ASSUME McpInv, CloseConnections PROVE McpInv'
<1>1. /\ refreshMu = 0 /\ refreshMu' = 0 /\ rounds' = rounds /\ opened' = opened
      /\ connections' = {} /\ tools' = [s \in Servers |-> 0] /\ sessions' \subseteq sessions
  BY DEF CloseConnections, roundVars
<1>2. \A r \in DOMAIN rounds : rounds[r].todo = {} /\ rounds[r].ready = {}
  <2>1. \A r \in DOMAIN rounds : r # 0
    BY RoundTypes
  <2> QED BY <1>1, <2>1 DEF McpInv, RoundInv
<1>3. LinkTypeOK'
  BY <1>1 DEF McpInv, LinkTypeOK
<1>4. RoundInv'
  BY <1>1 DEF McpInv, RoundInv
<1>5. ReadyInv'
  BY <1>1, <1>2 DEF ReadyInv
<1>6. LinkInv' /\ ToolsAreLive'
  BY <1>1 DEF LinkInv, ToolsAreLive
<1> QED BY <1>3, <1>4, <1>5, <1>6 DEF McpInv

\* Close cancels the last refresh.
LEMMA ClosePreserves ==
    ASSUME McpInv, Close PROVE McpInv'
<1> DEFINE marked == {refreshStop} \intersect DOMAIN rounds
<1>1. rounds' = [r \in DOMAIN rounds |-> [rounds[r] EXCEPT !.cancelled = @ \/ r \in marked]]
  BY DEF Close
<1>2. UNCHANGED <<liveVars, refreshMu>>
  BY DEF Close
<1> HIDE DEF marked
<1>3. marked \in SUBSET DOMAIN rounds
  BY DEF marked
<1> QED BY <1>1, <1>2, <1>3, MarkPreserves

-----------------------------------------------------------------------------
(* The theorem.                                                            *)

\* A step of a call breaks a connection or leaves rounds and connections to others; the
\* one that gives a round up only cancels it, the one that begins a round appends it.
LEMMA CallStepPreserves ==
    ASSUME McpInv, CallInv, NEW c \in Callers, CallStep(c) PROVE McpInv'
<1>1. CASE EnsureLive(c)
  <2>1. toolCalls[c].server \in Servers
    BY <1>1 DEF EnsureLive, CallInv
  <2>2. CASE HasLiveServer(toolCalls[c].server)
    BY <1>1, <2>2, AsidePreserves DEF EnsureLive
  <2>3. CASE ~HasLiveServer(toolCalls[c].server)
    <3>1. /\ rounds' = Append(rounds, NewRound({toolCalls[c].server}, FALSE))
          /\ UNCHANGED <<liveVars, refreshMu>>
      BY <1>1, <2>3 DEF EnsureLive
    <3>2. {toolCalls[c].server} \in SUBSET Servers /\ FALSE \in BOOLEAN
      BY <2>1
    <3> QED BY <3>1, <3>2, AppendPreserves
  <2> QED BY <2>2, <2>3
<1>2. CASE WaitOver(c)
  <2> DEFINE marked == {toolCalls[c].round}
  <2>1. toolCalls[c].round \in DOMAIN rounds
    BY <1>2 DEF WaitOver, CallInv
  <2>2. rounds' = [rounds EXCEPT ![toolCalls[c].round].cancelled = TRUE] /\ UNCHANGED <<liveVars, refreshMu>>
    BY <1>2 DEF WaitOver
  <2>3. \A r \in DOMAIN rounds : rounds[r] \in Rounds
    BY RoundTypes
  <2>4. rounds' = [r \in DOMAIN rounds |-> [rounds[r] EXCEPT !.cancelled = @ \/ r \in marked]]
    BY <2>1, <2>2, <2>3 DEF Rounds
  <2> QED BY <2>1, <2>2, <2>4, MarkPreserves
<1>3. CASE Check(c) \/ ReportUnavailable(c) \/ LookAgain(c) \/ Answered(c)
  BY <1>3, AsidePreserves DEF Check, ReportUnavailable, LookAgain, Answered, roundVars
<1>4. CASE Broken(c)
  BY <1>4, BrokenPreserves
<1> QED BY <1>1, <1>2, <1>3, <1>4 DEF CallStep
\* The calls, and that no step forgets a round.
LEMMA CallsPreserve ==
    ASSUME McpInv, CallInv, McpNext PROVE CallInv'
<1>1. rounds \in Seq(Rounds) /\ Len(rounds) \in Nat /\ DOMAIN rounds = 1 .. Len(rounds)
  BY RoundTypes DEF McpInv, LinkTypeOK
<1>2. ASSUME toolCalls' = toolCalls, DOMAIN rounds \subseteq DOMAIN rounds' PROVE CallInv'
  BY <1>2 DEF CallInv
<1>3. ASSUME BeginRefresh, toolCalls' = toolCalls PROVE CallInv'
  <2> DEFINE marked == [r \in DOMAIN rounds |-> [rounds[r] EXCEPT !.cancelled = @ \/ r = refreshStop]]
  <2>1. marked \in [1 .. Len(rounds) -> Rounds]
    <3>1. \A r \in DOMAIN rounds : marked[r] \in Rounds
      BY RoundTypes DEF Rounds
    <3> QED BY <1>1, <3>1
  <2>2. marked \in Seq(Rounds) /\ Len(marked) = Len(rounds)
    BY <1>1, <2>1, LenProperties
  <2>3. rounds' = Append(marked, NewRound(Servers, TRUE)) /\ NewRound(Servers, TRUE) \in Rounds
    BY <1>3, NewRoundType DEF BeginRefresh
  <2> HIDE DEF marked
  <2>4. DOMAIN rounds' = 1 .. Len(rounds) + 1
    BY <2>2, <2>3, AppendedRound
  <2> QED BY <1>1, <1>2, <1>3, <2>4
<1>4. CASE Refresh \/ RefreshAfterEdit
  BY <1>3, <1>4 DEF Refresh, RefreshAfterEdit, callVars
<1>5. ASSUME NEW r \in DOMAIN rounds,
             \/ Drop(r) \/ EndRound(r)
             \/ \E s \in Servers : ConnectFails(r, s) \/ \E v \in Versions : Handshake(r, s, v)
             \/ \E c \in rounds[r].ready : Adopt(r, c)
      PROVE  CallInv'
  <2>1. DOMAIN rounds' = DOMAIN rounds /\ toolCalls' = toolCalls
    BY <1>1, <1>5 DEF Drop, EndRound, ConnectFails, Handshake, Adopt, callVars
  <2> QED BY <1>2, <2>1
<1>6. CASE RequestSurfaceRefresh \/ BoundaryReads \/ BoundaryTakes \/ CloseConnections \/ Close
           \/ \E s \in Servers : SetEnabled(s)
  <2>1. DOMAIN rounds' = DOMAIN rounds /\ toolCalls' = toolCalls
    BY <1>6 DEF RequestSurfaceRefresh, BoundaryReads, BoundaryTakes, CloseConnections, Close,
                SetEnabled, callVars, roundVars
  <2> QED BY <1>2, <2>1
<1>7. ASSUME NEW c \in Callers, NEW value \in CallRecords, SetCall(c, value),
             DOMAIN rounds \subseteq DOMAIN rounds',
             value.at # "idle" => value.server \in Servers,
             value.at = "waiting" => value.round \in DOMAIN rounds'
      PROVE  CallInv'
  <2>1. /\ toolCalls' \in [Callers -> CallRecords]
        /\ \A d \in Callers : toolCalls'[d] = IF d = c THEN value ELSE toolCalls[d]
    BY <1>7 DEF CallInv, SetCall
  <2> QED BY <1>7, <2>1 DEF CallInv
<1>8. NoToolCall \in CallRecords /\ NoToolCall.at = "idle"
  BY DEF NoToolCall, CallRecords, Stages
<1>9. ASSUME NEW c \in Callers, NEW s \in Servers, Call(c, s) PROVE CallInv'
  <2> DEFINE value == [NoToolCall EXCEPT !.at = IF tools[s] # 0 THEN "executing" ELSE "ensuring",
                                         !.server = s, !.session = tools[s]]
  <2>1. tools[s] \in Nat
    BY DEF McpInv, LinkTypeOK
  <2>2. value \in CallRecords /\ value.server = s /\ value.at # "waiting"
    BY <2>1 DEF NoToolCall, CallRecords, Stages
  <2>3. SetCall(c, value) /\ rounds' = rounds
    BY <1>9 DEF Call, roundVars
  <2> HIDE DEF value
  <2> QED BY <1>7, <2>2, <2>3
<1>10. ASSUME NEW c \in Callers, CallStep(c) PROVE CallInv'
  <2>1. /\ toolCalls[c] \in CallRecords /\ (toolCalls[c].at # "idle" => toolCalls[c].server \in Servers)
    BY DEF CallInv
  <2>2. CASE EnsureLive(c)
    <3>1. toolCalls[c].server \in Servers
      BY <2>1, <2>2 DEF EnsureLive
    <3>2. CASE HasLiveServer(toolCalls[c].server)
      <4> DEFINE value == [toolCalls[c] EXCEPT !.at = "looking"]
      <4>1. value \in CallRecords /\ value.server = toolCalls[c].server /\ value.at # "waiting"
        BY <2>1 DEF CallRecords, Stages
      <4>2. SetCall(c, value) /\ rounds' = rounds
        BY <2>2, <3>2 DEF EnsureLive
      <4> HIDE DEF value
      <4> QED BY <1>7, <3>1, <4>1, <4>2
    <3>3. CASE ~HasLiveServer(toolCalls[c].server)
      <4> DEFINE value == [toolCalls[c] EXCEPT !.at = "waiting", !.round = Len(rounds) + 1]
      <4>1. /\ value \in CallRecords /\ value.server = toolCalls[c].server
            /\ value.round = Len(rounds) + 1
        <5>1. Len(rounds) + 1 \in Nat
          BY <1>1
        <5>2. \A n \in Nat : LET w == [toolCalls[c] EXCEPT !.at = "waiting", !.round = n] IN
                  w \in CallRecords /\ w.server = toolCalls[c].server /\ w.round = n
          BY <2>1 DEF CallRecords, Stages
        <5> QED BY <5>1, <5>2, Zenon
      <4>2. SetCall(c, value) /\ rounds' = Append(rounds, NewRound({toolCalls[c].server}, FALSE))
        BY <2>2, <3>3 DEF EnsureLive
      <4>3. NewRound({toolCalls[c].server}, FALSE) \in Rounds
        BY <3>1, NewRoundType
      <4> HIDE DEF value
      <4>4. DOMAIN rounds' = 1 .. Len(rounds) + 1
        BY <1>1, <4>2, <4>3, AppendedRound
      <4>5. DOMAIN rounds \subseteq DOMAIN rounds' /\ value.round \in DOMAIN rounds'
        BY <1>1, <4>1, <4>4
      <4> QED BY <1>7, <3>1, <4>1, <4>2, <4>5
    <3> QED BY <3>2, <3>3
  <2>3. CASE WaitOver(c) \/ Check(c) \/ LookAgain(c)
    <3>1. DOMAIN rounds' = DOMAIN rounds
      BY <1>1, <2>3 DEF WaitOver, Check, LookAgain, roundVars
    <3>2. toolCalls[c].server \in Servers
      BY <2>1, <2>3 DEF WaitOver, Check, LookAgain
    <3>3. tools[toolCalls[c].server] \in Nat
      BY <3>2 DEF McpInv, LinkTypeOK
    <3>4. PICK value \in CallRecords : /\ SetCall(c, value) /\ value.at # "waiting"
                                       /\ value.at # "idle" => value.server \in Servers
      <4>1. ASSUME NEW at \in Stages, NEW session \in Nat
            PROVE  /\ [toolCalls[c] EXCEPT !.at = at, !.session = session] \in CallRecords
                   /\ [toolCalls[c] EXCEPT !.at = at] \in CallRecords
                   /\ [toolCalls[c] EXCEPT !.at = at, !.session = session].server = toolCalls[c].server
                   /\ [toolCalls[c] EXCEPT !.at = at].server = toolCalls[c].server
                   /\ [toolCalls[c] EXCEPT !.at = at, !.session = session].at = at
                   /\ [toolCalls[c] EXCEPT !.at = at].at = at
        BY <2>1 DEF CallRecords, Stages
      <4>2. CASE WaitOver(c)
        BY <3>2, <4>1, <4>2 DEF WaitOver, Stages
      <4>3. CASE Check(c)
        <5> DEFINE at == IF HasLiveServer(toolCalls[c].server) THEN "looking" ELSE "failing"
        <5>1. SetCall(c, [toolCalls[c] EXCEPT !.at = at])
          BY <4>3 DEF Check
        <5>2. at \in Stages /\ at # "waiting"
          BY DEF Stages
        <5> HIDE DEF at
        <5> QED BY <3>2, <3>3, <4>1, <5>1, <5>2
      <4>4. CASE LookAgain(c)
        <5>1. CASE tools[toolCalls[c].server] = 0
          BY <1>8, <4>4, <5>1 DEF LookAgain
        <5>2. CASE tools[toolCalls[c].server] # 0
          <6>1. SetCall(c, [toolCalls[c] EXCEPT !.at = "executing", !.session = tools[toolCalls[c].server]])
            BY <4>4, <5>2 DEF LookAgain
          <6>2. "executing" \in Stages
            BY DEF Stages
          <6> DEFINE value == [toolCalls[c] EXCEPT !.at = "executing", !.session = tools[toolCalls[c].server]]
          <6>3. value \in CallRecords /\ value.server = toolCalls[c].server /\ value.at = "executing"
            BY <3>3, <4>1, <6>2
          <6> HIDE DEF value
          <6>4. SetCall(c, value) /\ value.at # "waiting"
            BY <6>1, <6>3 DEF value
          <6> QED BY <3>2, <6>3, <6>4
        <5> QED BY <5>1, <5>2
      <4> QED BY <2>3, <4>2, <4>3, <4>4
    <3> QED BY <1>7, <3>1, <3>4
  <2>4. CASE ReportUnavailable(c) \/ Answered(c) \/ Broken(c)
    <3>1. SetCall(c, NoToolCall) /\ rounds' = rounds
      BY <2>4 DEF ReportUnavailable, Answered, Broken, roundVars
    <3> QED BY <1>7, <1>8, <3>1
  <2> QED BY <1>10, <2>2, <2>3, <2>4 DEF CallStep
<1> QED
  BY <1>4, <1>5, <1>6, <1>9, <1>10 DEF McpNext

\* Every step preserves the invariant.
LEMMA McpStep ==
    ASSUME McpInv, CallInv, [McpNext]_mcpVars PROVE McpInv' /\ CallInv'
<1>1. CASE UNCHANGED mcpVars
  <2>1. UNCHANGED <<liveVars, rounds, refreshMu, toolCalls>>
    BY <1>1 DEF mcpVars, liveVars
  <2>2. McpInv'
    BY <2>1, AsidePreserves
  <2> QED BY <2>1, <2>2 DEF CallInv
<1>2. CASE McpNext
  <2>1. CallInv'
    BY <1>2, CallsPreserve
  <2> SUFFICES McpInv'
    BY <2>1
  <2>2. CASE Refresh \/ RefreshAfterEdit
    BY <2>2, BeginRefreshPreserves DEF Refresh, RefreshAfterEdit
  <2>3. ASSUME NEW r \in DOMAIN rounds,
               \/ Drop(r) \/ EndRound(r)
               \/ \E s \in Servers : ConnectFails(r, s) \/ \E v \in Versions : Handshake(r, s, v)
               \/ \E c \in rounds[r].ready : Adopt(r, c)
        PROVE  McpInv'
    BY <2>3, DropPreserves, EndRoundPreserves, ConnectFailsPreserves, HandshakePreserves, AdoptPreserves
  <2>4. CASE RequestSurfaceRefresh \/ BoundaryReads \/ BoundaryTakes
             \/ (\E s \in Servers : SetEnabled(s)) \/ \E c \in Callers : \E s \in Servers : Call(c, s)
    BY <2>4, AsidePreserves DEF RequestSurfaceRefresh, BoundaryReads, BoundaryTakes, SetEnabled, Call, roundVars
  <2>5. CASE Close \/ CloseConnections
    BY <2>5, ClosePreserves, CloseConnectionsPreserves
  <2>6. ASSUME NEW c \in Callers, CallStep(c) PROVE McpInv'
    BY <2>6, CallStepPreserves
  <2> QED BY <1>2, <2>1, <2>2, <2>3, <2>4, <2>5, <2>6 DEF McpNext
<1> QED BY <1>1, <1>2

\* Whatever rounds overlap, and whichever are cancelled, break or outlive their calls,
\* the tools found live are those of the open connections (manager.go:418-424).
THEOREM ToolsAlwaysLive == McpSpec => []ToolsAreLive
<1>1. McpInit => McpInv /\ CallInv
  <2>1. McpInit => CallInv
    BY DEF McpInit, CallInv, CallRecords, Stages, NoToolCall
  <2> QED BY <2>1, McpInitial
<1>2. McpInv /\ CallInv /\ [McpNext]_mcpVars => (McpInv /\ CallInv)'
  BY McpStep
<1>3. McpInv => ToolsAreLive
  BY DEF McpInv
<1> QED BY <1>1, <1>2, <1>3, PTL DEF McpSpec

-----------------------------------------------------------------------------
(* The secrets file.                                                        *)
SecretsSpec == SecretsInit /\ [][SecretsNext]_secretVars

Tokens == [grant : Nat, n : Nat]
Files == [oauth : [McpServers -> Tokens], env : SUBSET McpServers]
Jobs == [kind : {"connect", "authorize", "remove", "env"}, manager : Managers, server : McpServers,
         at : {"asking", "saving", "loaded", "done"}, token : Tokens, file : Files \union {NoFile},
         overtaken : BOOLEAN]

SecretTypeOK ==
    /\ servers \subseteq McpServers /\ spoiled \subseteq McpServers /\ secrets \in Files
    /\ newest \in Seq(Nat) /\ jobs \in Seq(Jobs)
    /\ \A j \in DOMAIN jobs : /\ jobs[j].at = "loaded" => jobs[j].file \in Files
                              /\ jobs[j].at = "asking" => IsLocked(jobs[j])
                              /\ (jobs[j].kind = "connect" /\ jobs[j].at = "asking"
                                      => jobs[j].token # NoToken)

\* A token of a server that can come to be refreshed: it is stored, in a file that
\* was loaded, or a round has read it.
Known(s, x) ==
    /\ x # NoToken
    /\ \/ secrets.oauth[s] = x
       \/ \E j \in DOMAIN jobs :
              \/ jobs[j].at = "loaded" /\ jobs[j].file.oauth[s] = x
              \/ /\ jobs[j].kind = "connect" /\ jobs[j].at = "asking"
                 /\ jobs[j].server = s /\ jobs[j].token = x

\* A job that has a new token and has not saved it.
Pending(j) == j \in DOMAIN jobs /\ IsLocked(jobs[j]) /\ jobs[j].at \in {"saving", "loaded"}

\* Every token that can be refreshed was issued, and a grant is of one server.
KnownInv ==
    /\ \A s \in McpServers, x \in Tokens :
           Known(s, x) => x.grant \in 1 .. Len(newest) /\ x.n <= newest[x.grant]
    /\ \A s, t \in McpServers, x, y \in Tokens :
           Known(s, x) /\ Known(t, y) /\ x.grant = y.grant => s = t

\* A token that waits to be saved is the newest of its grant, newer than every copy that
\* can be refreshed, and waits in one job: whoever refreshes a copy invalidates it.
PendingInv ==
    /\ \A j \in DOMAIN jobs : Pending(j) =>
           /\ jobs[j].token.grant \in 1 .. Len(newest)
           /\ jobs[j].token.n = newest[jobs[j].token.grant]
           /\ \A s \in McpServers, x \in Tokens :
                  Known(s, x) /\ x.grant = jobs[j].token.grant =>
                      s = jobs[j].server /\ x.n < jobs[j].token.n
    /\ \A i, j \in DOMAIN jobs :
           Pending(i) /\ Pending(j) /\ jobs[i].token.grant = jobs[j].token.grant => i = j

\* The lock of a manager has one holder; a file that was loaded and not overtaken is
\* the file as it is.
LockInv ==
    /\ \A i, j \in DOMAIN jobs : HoldsLock(i) /\ HoldsLock(j) /\ SharesLock(i, j) => i = j
    /\ \A j \in DOMAIN jobs : jobs[j].at = "loaded" /\ ~jobs[j].overtaken => jobs[j].file = secrets

\* What is stored is the newest of its grant, or a job has the newer one and will save
\* it, or no one has it.
StoredInv ==
    \A s \in McpServers \ spoiled :
        LET x == secrets.oauth[s] IN
        x # NoToken /\ x.grant \notin stranded /\ x.n # newest[x.grant] =>
            \E j \in DOMAIN jobs : /\ Pending(j) /\ jobs[j].server = s
                                   /\ jobs[j].token.grant = x.grant

\* A removed server is let alone: what is left of it, its removal deletes.
GoneInv ==
    \A s \in McpServers \ (servers \union spoiled) :
        /\ \A j \in DOMAIN jobs :
               jobs[j].server = s /\ jobs[j].at # "done" => jobs[j].kind = "remove"
        /\ \/ secrets.oauth[s] = NoToken /\ s \notin secrets.env
           \/ \E j \in DOMAIN jobs : jobs[j].server = s /\ jobs[j].at # "done"

SecretsInv == SecretTypeOK /\ KnownInv /\ PendingInv /\ LockInv /\ StoredInv /\ GoneInv

\* The token that is none, and the types a job is read with.
LEMMA NoTokenIs == NoToken \in Tokens /\ NoToken.grant = 0 /\ NoToken.n = 0
  BY DEF NoToken, Tokens

LEMMA JobTypes ==
    ASSUME SecretTypeOK
    PROVE  /\ Len(jobs) \in Nat /\ DOMAIN jobs = 1 .. Len(jobs)
           /\ \A j \in DOMAIN jobs : jobs[j] \in Jobs
           /\ Len(newest) \in Nat /\ DOMAIN newest = 1 .. Len(newest)
           /\ \A g \in 1 .. Len(newest) : newest[g] \in Nat
  BY LenProperties, ElementOfSeq DEF SecretTypeOK

\* A new job, behind the others.
LEMMA AddedJob ==
    ASSUME SecretTypeOK, NEW w \in Jobs, jobs' = Append(jobs, w)
    PROVE  /\ jobs' \in Seq(Jobs) /\ DOMAIN jobs' = DOMAIN jobs \union {Len(jobs) + 1}
           /\ Len(jobs) + 1 \notin DOMAIN jobs /\ jobs'[Len(jobs) + 1] = w
           /\ \A i \in DOMAIN jobs : jobs'[i] = jobs[i]
<1>1. jobs \in Seq(Jobs) /\ Len(jobs) \in Nat /\ DOMAIN jobs = 1 .. Len(jobs)
  BY JobTypes DEF SecretTypeOK
<1>2. /\ jobs' \in Seq(Jobs) /\ Len(jobs') = Len(jobs) + 1
      /\ \A i \in 1 .. Len(jobs) : jobs'[i] = jobs[i]
      /\ jobs'[Len(jobs) + 1] = w
  BY <1>1, AppendProperties
<1>3. DOMAIN jobs' = 1 .. Len(jobs) + 1
  BY <1>2, LenProperties
<1>4. 1 .. Len(jobs) + 1 = 1 .. Len(jobs) \union {Len(jobs) + 1} /\ Len(jobs) + 1 \notin 1 .. Len(jobs)
  BY <1>1
<1> QED BY <1>1, <1>2, <1>3, <1>4

\* Several new jobs.
LEMMA AddedJobs ==
    ASSUME SecretTypeOK, NEW more \in Seq(Jobs), jobs' = jobs \o more
    PROVE  /\ jobs' \in Seq(Jobs) /\ DOMAIN jobs \subseteq DOMAIN jobs'
           /\ \A i \in DOMAIN jobs : jobs'[i] = jobs[i]
           /\ \A i \in DOMAIN jobs' \ DOMAIN jobs : \E k \in 1 .. Len(more) : jobs'[i] = more[k]
<1>1. jobs \in Seq(Jobs) /\ Len(jobs) \in Nat /\ DOMAIN jobs = 1 .. Len(jobs)
  BY JobTypes DEF SecretTypeOK
<1>2. Len(more) \in Nat
  BY LenProperties
<1>3. /\ jobs' \in Seq(Jobs) /\ Len(jobs') = Len(jobs) + Len(more)
      /\ \A i \in 1 .. Len(jobs) + Len(more) :
             jobs'[i] = IF i <= Len(jobs) THEN jobs[i] ELSE more[i - Len(jobs)]
  BY <1>1, ConcatProperties
<1>4. DOMAIN jobs' = 1 .. Len(jobs) + Len(more)
  BY <1>3, LenProperties
<1>5. \A i \in 1 .. Len(jobs) : i \in 1 .. Len(jobs) + Len(more) /\ i <= Len(jobs)
  BY <1>1, <1>2
<1>6. \A i \in 1 .. Len(jobs) + Len(more) : i \notin 1 .. Len(jobs) =>
          ~(i <= Len(jobs)) /\ i - Len(jobs) \in 1 .. Len(more)
  BY <1>1, <1>2
<1>7. \A i \in DOMAIN jobs : i \in DOMAIN jobs' /\ jobs'[i] = jobs[i]
  BY <1>1, <1>3, <1>4, <1>5
<1>8. \A i \in DOMAIN jobs' \ DOMAIN jobs : \E k \in 1 .. Len(more) : jobs'[i] = more[k]
  BY <1>1, <1>3, <1>4, <1>6
<1> QED BY <1>3, <1>7, <1>8

\* A job that goes on.
LEMMA ReplacedJob ==
    ASSUME SecretTypeOK, NEW j \in DOMAIN jobs, NEW w \in Jobs, jobs' = [jobs EXCEPT ![j] = w]
    PROVE  /\ jobs' \in Seq(Jobs) /\ DOMAIN jobs' = DOMAIN jobs /\ jobs'[j] = w
           /\ \A i \in DOMAIN jobs : i # j => jobs'[i] = jobs[i]
  BY ExceptSeq, LenProperties DEF SecretTypeOK

\* What holds of the tokens holds of fewer of them.
LEMMA NoNewToken ==
    ASSUME KnownInv, PendingInv, newest' = newest,
           \A s \in McpServers, x \in Tokens : Known(s, x)' => Known(s, x),
           \A j \in DOMAIN jobs' : Pending(j)' =>
               /\ j \in DOMAIN jobs /\ Pending(j)
               /\ jobs'[j].token = jobs[j].token /\ jobs'[j].server = jobs[j].server
    PROVE  KnownInv' /\ PendingInv'
<1>1. KnownInv'
  BY DEF KnownInv
<1>2. PendingInv'
  BY DEF PendingInv
<1> QED BY <1>1, <1>2

LEMMA SecretsInitial == SecretsInit => SecretsInv
<1> SUFFICES ASSUME SecretsInit
             PROVE  SecretsInv
  OBVIOUS
<1>0. PICK n \in 0 .. MaxGrants :
          \E order \in [McpServers -> 0 .. n] :
             /\ \A s, t \in McpServers : order[s] = order[t] => s = t \/ order[s] = 0
             /\ newest = [g \in 1 .. n |-> 1]
             /\ secrets = [oauth |-> [s \in McpServers |->
                                         IF order[s] = 0 THEN NoToken ELSE [grant |-> order[s], n |-> 1]],
                           env |-> {}]
  BY DEF SecretsInit
<1>1. PICK order \in [McpServers -> 0 .. n] :
          /\ \A s, t \in McpServers : order[s] = order[t] => s = t \/ order[s] = 0
          /\ newest = [g \in 1 .. n |-> 1]
          /\ secrets = [oauth |-> [s \in McpServers |->
                                      IF order[s] = 0 THEN NoToken ELSE [grant |-> order[s], n |-> 1]],
                        env |-> {}]
  BY <1>0
<1>2. n \in Nat /\ newest \in Seq(Nat) /\ Len(newest) = n /\ \A g \in 1 .. n : newest[g] = 1
  <2>1. MaxGrants \in Nat
    BY McpSecretsAssumption
  <2>2. n \in Nat
    BY <1>1, <2>1
  <2> QED BY <1>1, <2>2, SeqDef, LenProperties
<1>3. jobs \in Seq(Jobs) /\ DOMAIN jobs = {}
  BY DEF SecretsInit
<1>4. ASSUME NEW s \in McpServers
      PROVE  /\ secrets.oauth[s] \in Tokens
             /\ secrets.oauth[s] # NoToken => /\ secrets.oauth[s].grant = order[s] /\ order[s] \in 1 .. n
                                              /\ secrets.oauth[s].n = 1
  <2>1. CASE order[s] = 0
    BY <1>1, <2>1, NoTokenIs
  <2>2. CASE order[s] # 0
    <3>1. order[s] \in 1 .. n
      BY <1>1, <1>2, <2>2
    <3>2. secrets.oauth[s] = [grant |-> order[s], n |-> 1]
      BY <1>1, <2>2
    <3> QED BY <1>2, <3>1, <3>2 DEF Tokens
  <2> QED BY <2>1, <2>2
<1>5. secrets \in Files
  <2>1. secrets.oauth \in [McpServers -> Tokens]
    BY <1>1, <1>4
  <2> QED BY <1>1, <2>1 DEF Files
<1>6. SecretTypeOK
  BY <1>2, <1>3, <1>5 DEF SecretsInit, SecretTypeOK
<1>7. \A s \in McpServers, x \in Tokens : Known(s, x) =>
          x # NoToken /\ x = secrets.oauth[s]
  BY <1>3 DEF Known
<1>8. KnownInv
  <2>1. \A s \in McpServers, x \in Tokens : Known(s, x) =>
            x.grant \in 1 .. Len(newest) /\ x.n <= newest[x.grant]
    BY <1>2, <1>4, <1>7
  <2>2. \A s, t \in McpServers, x, y \in Tokens :
            Known(s, x) /\ Known(t, y) /\ x.grant = y.grant => s = t
    <3> SUFFICES ASSUME NEW s \in McpServers, NEW t \in McpServers, NEW x \in Tokens, NEW y \in Tokens,
                        Known(s, x), Known(t, y), x.grant = y.grant
                 PROVE  s = t
      OBVIOUS
    <3>1. order[s] = order[t] /\ order[s] \in 1 .. n
      BY <1>4, <1>7
    <3>2. order[s] # 0
      BY <1>2, <3>1
    <3> QED BY <1>1, <3>1, <3>2
  <2> QED BY <2>1, <2>2 DEF KnownInv
<1>9. PendingInv /\ LockInv
  BY <1>3 DEF PendingInv, LockInv
<1>10. StoredInv /\ GoneInv
  BY <1>2, <1>4 DEF SecretsInit, StoredInv, GoneInv
<1> QED BY <1>6, <1>8, <1>9, <1>10 DEF SecretsInv

\* Jobs are begun: they have nothing new, their servers are known, and whoever removes
\* a server finds no job at it that is not listed.
Begun ==
    /\ jobs' \in Seq(Jobs) /\ DOMAIN jobs \subseteq DOMAIN jobs'
    /\ \A i \in DOMAIN jobs : jobs'[i] = jobs[i]
    /\ \A i \in DOMAIN jobs' \ DOMAIN jobs :
           /\ jobs'[i].at \in {"asking", "saving"} /\ (jobs'[i].at = "asking" <=> IsLocked(jobs'[i]))
           /\ jobs'[i].kind = "connect" =>
                  jobs'[i].token = secrets.oauth[jobs'[i].server] /\ jobs'[i].token # NoToken
           /\ jobs'[i].server \in servers
    /\ servers' \subseteq servers
    /\ \A s \in servers \ (servers' \union spoiled') :
           /\ ~InFlight(s) /\ \E i \in DOMAIN jobs' \ DOMAIN jobs : jobs'[i].server = s
           /\ \A i \in DOMAIN jobs' \ DOMAIN jobs : jobs'[i].server = s => jobs'[i].kind = "remove"

LEMMA BegunKeeps ==
    ASSUME SecretsInv, Begun, UNCHANGED <<secrets, newest, stranded>>,
           spoiled \subseteq spoiled', spoiled' \subseteq McpServers
    PROVE  SecretsInv'
<1>1. /\ jobs' \in Seq(Jobs) /\ DOMAIN jobs \subseteq DOMAIN jobs'
      /\ \A i \in DOMAIN jobs : jobs'[i] = jobs[i]
  BY DEF Begun
<1>2. \A i \in DOMAIN jobs' : i \notin DOMAIN jobs =>
          /\ jobs'[i].at \in {"asking", "saving"} /\ (jobs'[i].at = "asking" <=> IsLocked(jobs'[i]))
          /\ jobs'[i].kind = "connect" =>
                 jobs'[i].token = secrets.oauth[jobs'[i].server] /\ jobs'[i].token # NoToken
          /\ jobs'[i].server \in servers
  BY DEF Begun
<1>3. SecretTypeOK'
  <2>1. servers' \subseteq McpServers
    BY DEF SecretsInv, SecretTypeOK, Begun
  <2>2. \A j \in DOMAIN jobs' : /\ jobs'[j].at = "loaded" => jobs'[j].file \in Files
                                /\ jobs'[j].at = "asking" => IsLocked(jobs'[j])
                                /\ (jobs'[j].kind = "connect" /\ jobs'[j].at = "asking"
                                        => jobs'[j].token # NoToken)
    BY <1>1, <1>2 DEF SecretsInv, SecretTypeOK
  <2> QED BY <1>1, <2>1, <2>2 DEF SecretsInv, SecretTypeOK
<1>4. \A i \in DOMAIN jobs' : Pending(i)' => i \in DOMAIN jobs /\ Pending(i) /\ jobs'[i] = jobs[i]
  BY <1>1, <1>2 DEF Pending
<1>5. \A i \in DOMAIN jobs : Pending(i) => i \in DOMAIN jobs' /\ Pending(i)' /\ jobs'[i] = jobs[i]
  BY <1>1 DEF Pending
<1>6. KnownInv' /\ PendingInv'
  <2>1. ASSUME NEW s \in McpServers, NEW x \in Tokens, Known(s, x)'
        PROVE  Known(s, x)
    <3>1. CASE secrets'.oauth[s] = x
      BY <2>1, <3>1 DEF Known
    <3>2. CASE \E i \in DOMAIN jobs' :
                  \/ jobs'[i].at = "loaded" /\ jobs'[i].file.oauth[s] = x
                  \/ /\ jobs'[i].kind = "connect" /\ jobs'[i].at = "asking"
                     /\ jobs'[i].server = s /\ jobs'[i].token = x
      <4>1. PICK i \in DOMAIN jobs' :
                  \/ jobs'[i].at = "loaded" /\ jobs'[i].file.oauth[s] = x
                  \/ /\ jobs'[i].kind = "connect" /\ jobs'[i].at = "asking"
                     /\ jobs'[i].server = s /\ jobs'[i].token = x
        BY <3>2
      <4>2. CASE i \in DOMAIN jobs
        BY <1>1, <2>1, <4>1, <4>2 DEF Known
      <4>3. CASE i \notin DOMAIN jobs
        BY <1>2, <2>1, <4>1, <4>3 DEF Known
      <4> QED BY <4>2, <4>3
    <3> QED BY <2>1, <3>1, <3>2 DEF Known
  <2> QED BY <1>4, <2>1, NoNewToken DEF SecretsInv
<1>7. LockInv'
  <2>1. /\ \A i \in DOMAIN jobs' : jobs'[i].at = "loaded" => i \in DOMAIN jobs /\ jobs'[i] = jobs[i]
        /\ \A i \in DOMAIN jobs' : HoldsLock(i)' => i \in DOMAIN jobs /\ HoldsLock(i)
        /\ \A i, j \in DOMAIN jobs : SharesLock(i, j)' => SharesLock(i, j)
    BY <1>1, <1>2 DEF HoldsLock, SharesLock
  <2> QED BY <1>1, <2>1 DEF SecretsInv, LockInv
<1>8. StoredInv'
  BY <1>1, <1>5 DEF SecretsInv, StoredInv
<1>9. GoneInv'
  <2> SUFFICES ASSUME NEW s \in McpServers \ (servers' \union spoiled')
               PROVE  /\ \A j \in DOMAIN jobs' :
                             jobs'[j].server = s /\ jobs'[j].at # "done" => jobs'[j].kind = "remove"
                      /\ \/ secrets'.oauth[s] = NoToken /\ s \notin secrets'.env
                         \/ \E j \in DOMAIN jobs' : jobs'[j].server = s /\ jobs'[j].at # "done"
    BY DEF GoneInv
  <2>1. CASE s \notin servers
    <3>1. \A j \in DOMAIN jobs' : jobs'[j].server = s => j \in DOMAIN jobs /\ jobs'[j] = jobs[j]
      BY <1>1, <1>2, <2>1
    <3> QED BY <1>1, <2>1, <3>1 DEF SecretsInv, GoneInv
  <2>2. CASE s \in servers
    <3>1. /\ ~InFlight(s) /\ \E i \in DOMAIN jobs' \ DOMAIN jobs : jobs'[i].server = s
          /\ \A i \in DOMAIN jobs' \ DOMAIN jobs : jobs'[i].server = s => jobs'[i].kind = "remove"
      BY <2>2 DEF Begun
    <3>2. \A j \in DOMAIN jobs' :
              jobs'[j].server = s /\ jobs'[j].at # "done" => jobs'[j].kind = "remove"
      BY <1>1, <3>1 DEF InFlight
    <3>3. \E j \in DOMAIN jobs' : jobs'[j].server = s /\ jobs'[j].at # "done"
      BY <1>2, <3>1
    <3> QED BY <3>2, <3>3
  <2> QED BY <2>1, <2>2
<1> QED BY <1>3, <1>6, <1>7, <1>8, <1>9 DEF SecretsInv

\* One job is begun.
LEMMA OneBegun ==
    ASSUME SecretsInv, NEW w \in Jobs, w.at \in {"asking", "saving"},
           w.at = "asking" <=> IsLocked(w), w.kind # "connect",
           jobs' = Append(jobs, w), w.server \in servers,
           \/ servers' = servers
           \/ /\ servers' = servers \ {w.server} /\ w.kind = "remove"
              /\ InFlight(w.server) => w.server \in spoiled'
    PROVE  Begun
<1>1. /\ jobs' \in Seq(Jobs) /\ DOMAIN jobs' = DOMAIN jobs \union {Len(jobs) + 1}
      /\ Len(jobs) + 1 \notin DOMAIN jobs /\ jobs'[Len(jobs) + 1] = w
      /\ \A i \in DOMAIN jobs : jobs'[i] = jobs[i]
  BY AddedJob DEF SecretsInv
<1>2. \A i \in DOMAIN jobs' \ DOMAIN jobs : jobs'[i] = w
  BY <1>1
<1>3. \E i \in DOMAIN jobs' \ DOMAIN jobs : jobs'[i] = w
  BY <1>1
<1> QED BY <1>1, <1>2, <1>3 DEF Begun

\* A job ends without a change of the file: it had only asked, or its server is listed.
LEMMA EndedKeeps ==
    ASSUME SecretsInv, NEW j \in DOMAIN jobs, NEW w \in Jobs, w.at = "done",
           w.kind = jobs[j].kind, w.server = jobs[j].server, w.manager = jobs[j].manager,
           jobs' = [jobs EXCEPT ![j] = w], UNCHANGED <<servers, secrets, newest, stranded>>,
           spoiled \subseteq spoiled', spoiled' \subseteq McpServers,
           jobs[j].at = "asking" \/ w.server \in spoiled'
    PROVE  SecretsInv'
<1>1. /\ jobs' \in Seq(Jobs) /\ DOMAIN jobs' = DOMAIN jobs /\ jobs'[j] = w
      /\ \A i \in DOMAIN jobs : i # j => jobs'[i] = jobs[i]
  BY ReplacedJob DEF SecretsInv
<1>2. SecretTypeOK'
  BY <1>1 DEF SecretsInv, SecretTypeOK
<1>3. \A i \in DOMAIN jobs' : Pending(i)' => Pending(i) /\ jobs'[i] = jobs[i]
  BY <1>1 DEF Pending
<1>4. KnownInv' /\ PendingInv'
  <2>1. ASSUME NEW s \in McpServers, NEW x \in Tokens, Known(s, x)'
        PROVE  Known(s, x)
    BY <1>1, <2>1 DEF Known
  <2> QED BY <1>1, <1>3, <2>1, NoNewToken DEF SecretsInv
<1>5. LockInv'
  <2>1. /\ ~HoldsLock(j)' /\ jobs'[j].at # "loaded"
        /\ \A i \in DOMAIN jobs : HoldsLock(i)' => HoldsLock(i)
        /\ \A i, k \in DOMAIN jobs : SharesLock(i, k)' => SharesLock(i, k)
    <3>1. \A i \in DOMAIN jobs : IsLocked(jobs'[i]) = IsLocked(jobs[i]) /\ jobs'[i].manager = jobs[i].manager
      BY <1>1 DEF IsLocked
    <3> QED BY <1>1, <3>1 DEF HoldsLock, SharesLock
  <2> QED BY <1>1, <2>1 DEF SecretsInv, LockInv
<1>6. StoredInv'
  <2> SUFFICES ASSUME NEW s \in McpServers \ spoiled', secrets.oauth[s] # NoToken,
                      secrets.oauth[s].grant \notin stranded,
                      secrets.oauth[s].n # newest[secrets.oauth[s].grant]
               PROVE  \E i \in DOMAIN jobs' : /\ Pending(i)' /\ jobs'[i].server = s
                                              /\ jobs'[i].token.grant = secrets.oauth[s].grant
    BY DEF StoredInv
  <2>1. PICK i \in DOMAIN jobs : /\ Pending(i) /\ jobs[i].server = s
                                 /\ jobs[i].token.grant = secrets.oauth[s].grant
    BY DEF SecretsInv, StoredInv
  <2>2. i # j
    BY <2>1 DEF Pending
  <2> QED BY <1>1, <2>1, <2>2 DEF Pending
<1>7. GoneInv'
  <2> SUFFICES ASSUME NEW s \in McpServers \ (servers' \union spoiled')
               PROVE  /\ \A i \in DOMAIN jobs' :
                             jobs'[i].server = s /\ jobs'[i].at # "done" => jobs'[i].kind = "remove"
                      /\ \/ secrets'.oauth[s] = NoToken /\ s \notin secrets'.env
                         \/ \E i \in DOMAIN jobs' : jobs'[i].server = s /\ jobs'[i].at # "done"
    BY DEF GoneInv
  <2>1. s # jobs[j].server
    BY DEF SecretsInv, GoneInv, SecretTypeOK, IsLocked
  <2> QED BY <1>1, <2>1 DEF SecretsInv, GoneInv
<1> QED BY <1>2, <1>4, <1>5, <1>6, <1>7 DEF SecretsInv

\* The jobs of a round: one for each server, with the token the file has for it.
LEMMA RoundJobs ==
    ASSUME SecretsInv, NEW m \in Managers, NEW n \in Nat, NEW expired \in [1 .. n -> McpServers],
           BeginRound(m, expired)
    PROVE  \E more \in Seq(Jobs) :
               /\ jobs' = jobs \o more
               /\ \A k \in 1 .. Len(more) :
                      /\ more[k].kind = "connect" /\ more[k].at = "asking" /\ more[k].server \in servers
                      /\ more[k].token = secrets.oauth[more[k].server] /\ more[k].token # NoToken
<1> DEFINE new(k) == NewJob("connect", m, expired[k], "asking", secrets.oauth[expired[k]])
           more == [k \in 1 .. n |-> new(k)]
<1>1. expired \in Seq(McpServers) /\ Len(expired) = n /\ DOMAIN expired = 1 .. n
  BY SeqDef, LenProperties
<1>2. jobs' = jobs \o more
  BY <1>1 DEF BeginRound
<1>3. ASSUME NEW k \in 1 .. n
      PROVE  /\ new(k) \in Jobs /\ new(k).kind = "connect" /\ new(k).at = "asking"
             /\ new(k).server \in servers /\ new(k).token = secrets.oauth[new(k).server]
             /\ new(k).token # NoToken
  <2>1. expired[k] \in McpServers /\ expired[k] \in servers /\ secrets.oauth[expired[k]] # NoToken
    BY <1>1 DEF BeginRound
  <2>2. secrets.oauth[expired[k]] \in Tokens
    BY <2>1 DEF SecretsInv, SecretTypeOK, Files
  <2> QED BY <2>1, <2>2 DEF NewJob, Jobs
<1> HIDE DEF new
<1>4. more \in [1 .. n -> Jobs] /\ \A k \in 1 .. n : more[k] = new(k)
  BY <1>3
<1> HIDE DEF more
<1>5. more \in Seq(Jobs) /\ Len(more) = n
  BY <1>4, SeqDef, LenProperties
<1> QED BY <1>2, <1>3, <1>4, <1>5

LEMMA BeginRoundKeeps ==
    ASSUME SecretsInv, NEW m \in Managers, NEW n \in Nat, NEW expired \in [1 .. n -> McpServers],
           BeginRound(m, expired)
    PROVE  SecretsInv'
<1>1. PICK more \in Seq(Jobs) :
          /\ jobs' = jobs \o more
          /\ \A k \in 1 .. Len(more) :
                 /\ more[k].kind = "connect" /\ more[k].at = "asking" /\ more[k].server \in servers
                 /\ more[k].token = secrets.oauth[more[k].server] /\ more[k].token # NoToken
  BY RoundJobs
<1>2. SecretTypeOK /\ spoiled \subseteq McpServers
  BY DEF SecretsInv, SecretTypeOK
<1>3. /\ jobs' \in Seq(Jobs) /\ DOMAIN jobs \subseteq DOMAIN jobs'
      /\ \A i \in DOMAIN jobs : jobs'[i] = jobs[i]
      /\ \A i \in DOMAIN jobs' \ DOMAIN jobs : \E k \in 1 .. Len(more) : jobs'[i] = more[k]
  BY <1>1, <1>2, AddedJobs
<1>4. UNCHANGED <<servers, secrets, newest, spoiled, stranded>>
  BY DEF BeginRound
<1>5. \A i \in DOMAIN jobs' \ DOMAIN jobs :
          /\ jobs'[i].at = "asking" /\ IsLocked(jobs'[i]) /\ jobs'[i].server \in servers
          /\ jobs'[i].token = secrets.oauth[jobs'[i].server] /\ jobs'[i].token # NoToken
  BY <1>1, <1>3 DEF IsLocked
<1>6. Begun
  BY <1>3, <1>4, <1>5 DEF Begun
<1> QED BY <1>2, <1>4, <1>6, BegunKeeps

LEMMA BeginAuthorizeKeeps ==
    ASSUME SecretsInv, NEW m \in Managers, NEW s \in McpServers, BeginAuthorize(m, s)
    PROVE  SecretsInv'
<1> DEFINE w == NewJob("authorize", m, s, "asking", NoToken)
<1>1. spoiled \subseteq McpServers
  BY DEF SecretsInv, SecretTypeOK
<1>2. /\ w \in Jobs /\ w.at = "asking" /\ IsLocked(w) /\ w.server = s /\ w.kind # "connect"
  BY NoTokenIs DEF NewJob, Jobs, IsLocked
<1>3. /\ jobs' = Append(jobs, w) /\ s \in servers
      /\ UNCHANGED <<servers, secrets, newest, spoiled, stranded>>
  BY DEF BeginAuthorize, BeginJob
<1> HIDE DEF w
<1>4. Begun
  BY <1>2, <1>3, OneBegun
<1> QED BY <1>1, <1>3, <1>4, BegunKeeps

LEMMA SetMCPEnvKeeps ==
    ASSUME SecretsInv, NEW m \in Managers, NEW s \in McpServers, SetMCPEnv(m, s)
    PROVE  SecretsInv'
<1> DEFINE w == NewJob("env", m, s, "saving", NoToken)
<1>1. spoiled \subseteq McpServers
  BY DEF SecretsInv, SecretTypeOK
<1>2. /\ w \in Jobs /\ w.at = "saving" /\ ~IsLocked(w) /\ w.server = s /\ w.kind # "connect"
  BY NoTokenIs DEF NewJob, Jobs, IsLocked
<1>3. /\ jobs' = Append(jobs, w) /\ s \in servers
      /\ UNCHANGED <<servers, secrets, newest, spoiled, stranded>>
  BY DEF SetMCPEnv, BeginJob
<1> HIDE DEF w
<1>4. Begun
  BY <1>2, <1>3, OneBegun
<1> QED BY <1>1, <1>3, <1>4, BegunKeeps

LEMMA RemoveMCPServerKeeps ==
    ASSUME SecretsInv, NEW m \in Managers, NEW s \in McpServers, RemoveMCPServer(m, s)
    PROVE  SecretsInv'
<1> DEFINE w == NewJob("remove", m, s, "saving", NoToken)
<1>1. /\ spoiled \subseteq spoiled' /\ spoiled' \subseteq McpServers
      /\ InFlight(s) => s \in spoiled'
  BY DEF SecretsInv, SecretTypeOK, RemoveMCPServer
<1>2. /\ w \in Jobs /\ w.at = "saving" /\ ~IsLocked(w) /\ w.server = s /\ w.kind = "remove"
  BY NoTokenIs DEF NewJob, Jobs, IsLocked
<1>3. /\ jobs' = Append(jobs, w) /\ s \in servers /\ servers' = servers \ {s}
      /\ UNCHANGED <<secrets, newest, stranded>>
  BY DEF RemoveMCPServer, BeginJob
<1> HIDE DEF w
<1>4. Begun
  BY <1>1, <1>2, <1>3, OneBegun
<1> QED BY <1>1, <1>3, <1>4, BegunKeeps

LEMMA UpsertKeeps ==
    ASSUME SecretsInv, NEW s \in McpServers, UpsertMCPServer(s)
    PROVE  SecretsInv'
<1>1. UNCHANGED <<secrets, newest, jobs, spoiled, stranded>> /\ servers' = servers \union {s}
  BY DEF UpsertMCPServer
<1>2. SecretTypeOK' /\ StoredInv' /\ GoneInv'
  BY <1>1 DEF SecretsInv, SecretTypeOK, StoredInv, GoneInv, Pending
<1>3. LockInv'
  BY <1>1 DEF SecretsInv, LockInv, HoldsLock, SharesLock
<1>4. KnownInv' /\ PendingInv'
  BY <1>1 DEF SecretsInv, KnownInv, PendingInv, Known, Pending
<1> QED BY <1>2, <1>3, <1>4 DEF SecretsInv

LEMMA AskFailsKeeps ==
    ASSUME SecretsInv, NEW j \in DOMAIN jobs, AskFails(j)
    PROVE  SecretsInv'
<1> DEFINE w == [jobs[j] EXCEPT !.at = "done"]
<1>1. jobs[j] \in Jobs /\ spoiled \subseteq McpServers
  BY JobTypes DEF SecretsInv, SecretTypeOK
<1>2. /\ w \in Jobs /\ w.at = "done" /\ w.kind = jobs[j].kind /\ w.server = jobs[j].server
      /\ w.manager = jobs[j].manager
  BY <1>1 DEF Jobs
<1>3. jobs' = [jobs EXCEPT ![j] = w] /\ jobs[j].at = "asking"
  BY DEF AskFails
<1>4. UNCHANGED <<servers, secrets, newest, spoiled, stranded>>
  BY DEF AskFails
<1> HIDE DEF w
<1> QED BY <1>1, <1>2, <1>3, <1>4, EndedKeeps

LEMMA SaveFailsKeeps ==
    ASSUME SecretsInv, NEW j \in DOMAIN jobs, SaveFails(j)
    PROVE  SecretsInv'
<1> DEFINE w == [jobs[j] EXCEPT !.at = "done", !.file = NoFile]
<1>1. jobs[j] \in Jobs /\ spoiled \subseteq McpServers
  BY JobTypes DEF SecretsInv, SecretTypeOK
<1>2. /\ w \in Jobs /\ w.at = "done" /\ w.kind = jobs[j].kind /\ w.server = jobs[j].server
      /\ w.manager = jobs[j].manager /\ w.server \in McpServers
  BY <1>1 DEF Jobs
<1>3. jobs' = [jobs EXCEPT ![j] = w]
  BY DEF SaveFails
<1>4. UNCHANGED <<servers, secrets, newest, stranded>> /\ spoiled' = spoiled \union {w.server}
  BY <1>2 DEF SaveFails
<1> HIDE DEF w
<1> QED BY <1>1, <1>2, <1>3, <1>4, EndedKeeps

\* A job that was asking has got a token now: the newest of its grant, and nobody
\* else holds one of that grant as new.
LEMMA TokenGotKeeps ==
    ASSUME SecretsInv, NEW j \in DOMAIN jobs, NEW token \in Tokens, jobs[j].at = "asking",
           NEW w \in Jobs, w.at = "saving", w.token = token, w.kind = jobs[j].kind,
           w.server = jobs[j].server, w.manager = jobs[j].manager,
           jobs' = [jobs EXCEPT ![j] = w], UNCHANGED <<servers, secrets, spoiled, stranded>>,
           newest' \in Seq(Nat), Len(newest) <= Len(newest'),
           token.grant \in 1 .. Len(newest'), newest'[token.grant] = token.n,
           \A g \in 1 .. Len(newest) : IF g = token.grant THEN newest[g] < newest'[g] ELSE newest'[g] = newest[g],
           \A s \in McpServers, x \in Tokens : Known(s, x) /\ x.grant = token.grant => s = w.server,
           \A i \in DOMAIN jobs : Pending(i) => jobs[i].token.grant # token.grant
    PROVE  SecretsInv'
<1>1. /\ jobs' \in Seq(Jobs) /\ DOMAIN jobs' = DOMAIN jobs /\ jobs'[j] = w
      /\ \A i \in DOMAIN jobs : i # j => jobs'[i] = jobs[i]
  BY ReplacedJob DEF SecretsInv
<1>2. /\ Len(newest) \in Nat /\ Len(newest') \in Nat /\ token.n \in Nat
      /\ \A g \in 1 .. Len(newest) : newest[g] \in Nat
      /\ \A g \in 1 .. Len(newest') : newest'[g] \in Nat
  BY JobTypes, LenProperties, ElementOfSeq DEF SecretsInv, Tokens
<1>3. IsLocked(w) /\ IsLocked(jobs[j])
  BY DEF SecretsInv, SecretTypeOK, IsLocked
<1>4. SecretTypeOK'
  BY <1>1 DEF SecretsInv, SecretTypeOK
<1>5. \A s \in McpServers, x \in Tokens : Known(s, x)' => Known(s, x)
  BY <1>1 DEF Known
<1>6. \A i \in DOMAIN jobs' : Pending(i)' <=> i = j \/ Pending(i)
  BY <1>1, <1>3 DEF Pending
<1>7. KnownInv'
  <2>1. ASSUME NEW s \in McpServers, NEW x \in Tokens, Known(s, x)'
        PROVE  x.grant \in 1 .. Len(newest)' /\ x.n <= newest'[x.grant]
    <3>1. x.grant \in 1 .. Len(newest) /\ x.n <= newest[x.grant] /\ x.n \in Nat
      BY <1>5, <2>1 DEF SecretsInv, KnownInv, Tokens
    <3>2. x.grant \in 1 .. Len(newest')
      BY <1>2, <3>1
    <3>3. newest[x.grant] <= newest'[x.grant]
      BY <1>2, <3>1, <3>2, SMTT(30)
    <3> QED BY <1>2, <3>1, <3>2, <3>3
  <2> QED BY <1>5, <2>1 DEF SecretsInv, KnownInv
<1>8. ASSUME NEW s \in McpServers, NEW x \in Tokens, Known(s, x), x.grant = token.grant
      PROVE  s = w.server /\ x.n < token.n
  <2>1. x.grant \in 1 .. Len(newest) /\ x.n <= newest[x.grant] /\ x.n \in Nat
    BY <1>8 DEF SecretsInv, KnownInv, Tokens
  <2>2. newest[x.grant] < token.n /\ newest[x.grant] \in Nat
    BY <1>2, <1>8, <2>1
  <2>3. x.n < token.n
    BY <1>2, <2>1, <2>2
  <2> QED BY <1>8, <2>3
<1>9. PendingInv'
  <2>1. ASSUME NEW i \in DOMAIN jobs', Pending(i)'
        PROVE  /\ jobs'[i].token.grant \in 1 .. Len(newest)'
               /\ jobs'[i].token.n = newest'[jobs'[i].token.grant]
               /\ \A s \in McpServers, x \in Tokens :
                      Known(s, x)' /\ x.grant = jobs'[i].token.grant =>
                          s = jobs'[i].server /\ x.n < jobs'[i].token.n
    <3>1. CASE i = j
      BY <1>1, <1>5, <1>8, <3>1
    <3>2. CASE i # j
      <4>1. i \in DOMAIN jobs /\ Pending(i) /\ jobs'[i] = jobs[i]
        BY <1>1, <1>6, <2>1, <3>2
      <4>2. jobs[i].token.grant \in 1 .. Len(newest) /\ jobs[i].token.n = newest[jobs[i].token.grant]
        BY <4>1 DEF SecretsInv, PendingInv
      <4>3. jobs[i].token.grant # token.grant
        BY <4>1
      <4>4. /\ jobs[i].token.grant \in 1 .. Len(newest')
            /\ newest'[jobs[i].token.grant] = newest[jobs[i].token.grant]
        BY <1>2, <4>2, <4>3
      <4> QED BY <1>5, <4>1, <4>2, <4>4 DEF SecretsInv, PendingInv
    <3> QED BY <3>1, <3>2
  <2>2. ASSUME NEW i \in DOMAIN jobs', NEW k \in DOMAIN jobs', Pending(i)', Pending(k)',
               jobs'[i].token.grant = jobs'[k].token.grant
        PROVE  i = k
    <3>1. CASE i # j /\ k # j
      BY <1>1, <1>6, <2>2, <3>1 DEF SecretsInv, PendingInv
    <3>2. CASE i = j /\ k # j
      BY <1>1, <1>6, <2>2, <3>2
    <3>3. CASE i # j /\ k = j
      BY <1>1, <1>6, <2>2, <3>3
    <3> QED BY <3>1, <3>2, <3>3
  <2> QED BY <2>1, <2>2 DEF PendingInv
<1>10. LockInv'
  <2>1. /\ \A i \in DOMAIN jobs : jobs'[i].at = "loaded" => jobs'[i] = jobs[i]
        /\ \A i \in DOMAIN jobs : HoldsLock(i)' => HoldsLock(i) /\ i # j
        /\ \A i, k \in DOMAIN jobs : i # j /\ k # j /\ SharesLock(i, k)' => SharesLock(i, k)
    BY <1>1 DEF HoldsLock, SharesLock
  <2> QED BY <1>1, <2>1 DEF SecretsInv, LockInv
<1>11. StoredInv'
  <2> SUFFICES ASSUME NEW s \in McpServers \ spoiled', secrets.oauth[s] # NoToken,
                      secrets.oauth[s].grant \notin stranded,
                      secrets.oauth[s].n # newest'[secrets.oauth[s].grant]
               PROVE  \E i \in DOMAIN jobs' : /\ Pending(i)' /\ jobs'[i].server = s
                                              /\ jobs'[i].token.grant = secrets.oauth[s].grant
    BY DEF StoredInv
  <2>1. secrets.oauth[s] \in Tokens /\ Known(s, secrets.oauth[s])
    BY DEF SecretsInv, SecretTypeOK, Files, Known
  <2>2. CASE secrets.oauth[s].grant = token.grant
    <3>1. s = w.server
      BY <1>8, <2>1, <2>2
    <3> QED BY <1>1, <1>6, <2>2, <3>1
  <2>3. CASE secrets.oauth[s].grant # token.grant
    <3>1. secrets.oauth[s].grant \in 1 .. Len(newest)
      BY <2>1 DEF SecretsInv, KnownInv
    <3>2. secrets.oauth[s].n # newest[secrets.oauth[s].grant]
      BY <2>3, <3>1
    <3>3. PICK i \in DOMAIN jobs : /\ Pending(i) /\ jobs[i].server = s
                                   /\ jobs[i].token.grant = secrets.oauth[s].grant
      BY <3>2 DEF SecretsInv, StoredInv
    <3>4. i # j
      BY <3>3 DEF Pending
    <3> QED BY <1>1, <1>6, <3>3, <3>4
  <2> QED BY <2>2, <2>3
<1>12. GoneInv'
  BY <1>1, <1>3 DEF SecretsInv, GoneInv
<1> QED BY <1>4, <1>7, <1>9, <1>10, <1>11, <1>12 DEF SecretsInv

LEMMA RefreshTokenKeeps ==
    ASSUME SecretsInv, NEW j \in DOMAIN jobs, RefreshToken(j)
    PROVE  SecretsInv'
<1> DEFINE old == jobs[j].token
           g == old.grant
           token == [grant |-> g, n |-> old.n + 1]
<1>1. /\ jobs[j] \in Jobs /\ old \in Tokens /\ jobs[j].server \in McpServers
      /\ jobs[j].kind = "connect" /\ jobs[j].at = "asking"
  BY JobTypes DEF SecretsInv, Jobs, RefreshToken
<1>2. Known(jobs[j].server, old)
  BY <1>1 DEF Known, SecretsInv, SecretTypeOK
<1>3. g \in 1 .. Len(newest) /\ newest \in Seq(Nat)
  BY <1>1, <1>2 DEF SecretsInv, KnownInv, SecretTypeOK
<1>4. CASE old.n = newest[g]
  <2> DEFINE w == [jobs[j] EXCEPT !.at = "saving", !.token.n = @ + 1]
  <2>1. token \in Tokens /\ token.grant = g /\ token.n = old.n + 1 /\ old.n \in Nat
    BY <1>1 DEF Tokens
  <2>2. w = [jobs[j] EXCEPT !.at = "saving", !.token = token]
    <3>1. [old EXCEPT !.n = @ + 1] = token
      BY <1>1 DEF Tokens
    <3> QED BY <3>1
  <2>3. /\ w \in Jobs /\ w.at = "saving" /\ w.token = token /\ w.kind = jobs[j].kind
        /\ w.server = jobs[j].server /\ w.manager = jobs[j].manager
    <3> HIDE DEF token, w
    <3> QED BY <1>1, <2>1, <2>2 DEF Jobs
  <2>4. jobs' = [jobs EXCEPT ![j] = w] /\ UNCHANGED <<servers, secrets, spoiled, stranded>>
    BY <1>4 DEF RefreshToken
  <2>5. /\ newest' \in Seq(Nat) /\ Len(newest') = Len(newest) /\ newest'[g] = token.n
        /\ \A h \in 1 .. Len(newest) : IF h = g THEN newest[h] < newest'[h] ELSE newest'[h] = newest[h]
    <3>1. newest' = [newest EXCEPT ![g] = token.n]
      BY <1>4, <2>1 DEF RefreshToken
    <3>2. token.n \in Nat /\ newest[g] < token.n
      BY <1>4, <2>1
    <3> HIDE DEF token, g
    <3> QED BY <1>3, <3>1, <3>2, ExceptSeq
  <2>6. \A s \in McpServers, x \in Tokens : Known(s, x) /\ x.grant = g => s = w.server
    BY <1>1, <1>2, <2>3 DEF SecretsInv, KnownInv
  <2>7. \A i \in DOMAIN jobs : Pending(i) => jobs[i].token.grant # g
    <3> SUFFICES ASSUME NEW i \in DOMAIN jobs, Pending(i), jobs[i].token.grant = g
                 PROVE  FALSE
      OBVIOUS
    <3>1. jobs[i].token.n = newest[g] /\ old.n < jobs[i].token.n
      BY <1>1, <1>2 DEF SecretsInv, PendingInv
    <3> QED BY <1>4, <2>1, <3>1
  <2>8. Len(newest) <= Len(newest') /\ token.grant \in 1 .. Len(newest') /\ newest'[token.grant] = token.n
    BY <1>3, <2>1, <2>5, LenProperties
  <2>9. \A h \in 1 .. Len(newest) : IF h = token.grant THEN newest[h] < newest'[h] ELSE newest'[h] = newest[h]
    BY <2>1, <2>5
  <2> HIDE DEF token, w, g, old
  <2> QED BY <1>1, <2>1, <2>3, <2>4, <2>5, <2>6, <2>7, <2>8, <2>9, TokenGotKeeps
<1>5. CASE old.n # newest[g]
  <2> DEFINE w == [jobs[j] EXCEPT !.at = "done"]
  <2>1. /\ w \in Jobs /\ w.at = "done" /\ w.kind = jobs[j].kind /\ w.server = jobs[j].server
        /\ w.manager = jobs[j].manager
    BY <1>1 DEF Jobs
  <2>2. jobs' = [jobs EXCEPT ![j] = w] /\ UNCHANGED <<servers, secrets, newest, spoiled, stranded>>
    BY <1>5 DEF RefreshToken
  <2>3. spoiled \subseteq McpServers
    BY DEF SecretsInv, SecretTypeOK
  <2> HIDE DEF w
  <2> QED BY <1>1, <2>1, <2>2, <2>3, EndedKeeps
<1> QED BY <1>4, <1>5

\* The token of a grant is rotated and no one has the new one.
LEMMA ReplyIsLostKeeps ==
    ASSUME SecretsInv, NEW j \in DOMAIN jobs, ReplyIsLost(j)
    PROVE  SecretsInv'
<1> DEFINE old == jobs[j].token
           g == old.grant
           w == [jobs[j] EXCEPT !.at = "done"]
<1>1. /\ jobs[j] \in Jobs /\ old \in Tokens /\ old.n \in Nat /\ jobs[j].server \in McpServers
      /\ jobs[j].kind = "connect" /\ jobs[j].at = "asking" /\ old.n = newest[g]
  BY JobTypes DEF SecretsInv, Jobs, ReplyIsLost, Tokens
<1>2. Known(jobs[j].server, old)
  BY <1>1 DEF Known, SecretsInv, SecretTypeOK
<1>3. g \in 1 .. Len(newest) /\ newest \in Seq(Nat)
  BY <1>1, <1>2 DEF SecretsInv, KnownInv, SecretTypeOK
<1>4. /\ w \in Jobs /\ w.at = "done" /\ w.kind = jobs[j].kind /\ w.server = jobs[j].server
      /\ w.manager = jobs[j].manager
  BY <1>1 DEF Jobs
<1>5. /\ jobs' = [jobs EXCEPT ![j] = w] /\ stranded' = stranded \union {g}
      /\ UNCHANGED <<servers, secrets, spoiled>>
  BY DEF ReplyIsLost
<1>6. /\ newest' \in Seq(Nat) /\ Len(newest') = Len(newest)
      /\ \A h \in 1 .. Len(newest) :
             /\ newest[h] <= newest'[h]
             /\ h # g => newest'[h] = newest[h]
  <2>1. newest' = [newest EXCEPT ![g] = newest[g] + 1]
    BY DEF ReplyIsLost
  <2>2. newest[g] + 1 \in Nat /\ \A h \in 1 .. Len(newest) : newest[h] \in Nat
    BY <1>1, JobTypes DEF SecretsInv
  <2> HIDE DEF g
  <2>3. newest' \in Seq(Nat) /\ Len(newest') = Len(newest) /\ newest'[g] = newest[g] + 1
        /\ \A h \in 1 .. Len(newest) : h # g => newest'[h] = newest[h]
    BY <1>3, <2>1, <2>2, ExceptSeq
  <2> QED BY <2>2, <2>3
\* No job waits to save a token of this grant: it would be newer than the one rotated.
<1>7. \A i \in DOMAIN jobs : Pending(i) => jobs[i].token.grant # g
  <2> SUFFICES ASSUME NEW i \in DOMAIN jobs, Pending(i), jobs[i].token.grant = g
               PROVE  FALSE
    OBVIOUS
  <2>1. jobs[i].token.n = newest[g] /\ old.n < jobs[i].token.n
    BY <1>1, <1>2 DEF SecretsInv, PendingInv
  <2> QED BY <1>1, <2>1
<1> HIDE DEF w, g, old
<1>8. /\ jobs' \in Seq(Jobs) /\ DOMAIN jobs' = DOMAIN jobs /\ jobs'[j] = w
      /\ \A i \in DOMAIN jobs : i # j => jobs'[i] = jobs[i]
  BY <1>4, <1>5, ReplacedJob DEF SecretsInv
<1>9. SecretTypeOK'
  BY <1>4, <1>5, <1>6, <1>8 DEF SecretsInv, SecretTypeOK
<1>10. \A i \in DOMAIN jobs' : Pending(i)' <=> Pending(i)
  BY <1>1, <1>4, <1>8 DEF Pending
<1>11. \A i \in DOMAIN jobs' : Pending(i)' => i # j /\ jobs'[i] = jobs[i]
  BY <1>4, <1>8 DEF Pending
<1>12. \A s \in McpServers, x \in Tokens : Known(s, x)' => Known(s, x)
  BY <1>1, <1>4, <1>5, <1>8 DEF Known
<1>13. KnownInv'
  <2>1. ASSUME NEW s \in McpServers, NEW x \in Tokens, Known(s, x)'
        PROVE  x.grant \in 1 .. Len(newest)' /\ x.n <= newest'[x.grant]
    <3>1. x.grant \in 1 .. Len(newest) /\ x.n <= newest[x.grant] /\ x.n \in Nat
      BY <1>12, <2>1 DEF SecretsInv, KnownInv, Tokens
    <3>2. newest[x.grant] \in Nat /\ newest'[x.grant] \in Nat /\ newest[x.grant] <= newest'[x.grant]
      BY <1>6, <3>1, JobTypes, LenProperties, ElementOfSeq DEF SecretsInv
    <3>3. x.n <= newest'[x.grant]
      BY <3>1, <3>2
    <3> QED BY <1>6, <3>1, <3>3
  <2> QED BY <1>12, <2>1 DEF SecretsInv, KnownInv
<1>14. PendingInv'
  <2>1. ASSUME NEW i \in DOMAIN jobs', Pending(i)'
        PROVE  /\ jobs'[i].token.grant \in 1 .. Len(newest)'
               /\ jobs'[i].token.n = newest'[jobs'[i].token.grant]
               /\ \A s \in McpServers, x \in Tokens :
                      Known(s, x)' /\ x.grant = jobs'[i].token.grant =>
                          s = jobs'[i].server /\ x.n < jobs'[i].token.n
    <3>1. i \in DOMAIN jobs /\ Pending(i) /\ jobs'[i] = jobs[i] /\ jobs[i].token.grant # g
      BY <1>7, <1>8, <1>10, <1>11, <2>1
    <3>2. jobs[i].token.grant \in 1 .. Len(newest) /\ jobs[i].token.n = newest[jobs[i].token.grant]
      BY <3>1 DEF SecretsInv, PendingInv
    <3>3. newest'[jobs[i].token.grant] = newest[jobs[i].token.grant]
      BY <1>6, <3>1, <3>2
    <3> QED BY <1>6, <1>12, <3>1, <3>2, <3>3 DEF SecretsInv, PendingInv
  <2>2. ASSUME NEW i \in DOMAIN jobs', NEW k \in DOMAIN jobs', Pending(i)', Pending(k)',
               jobs'[i].token.grant = jobs'[k].token.grant
        PROVE  i = k
    BY <1>8, <1>10, <1>11, <2>2 DEF SecretsInv, PendingInv
  <2> QED BY <2>1, <2>2 DEF PendingInv
<1>15. LockInv'
  <2>1. /\ \A i \in DOMAIN jobs : jobs'[i].at = "loaded" => jobs'[i] = jobs[i]
        /\ \A i \in DOMAIN jobs : HoldsLock(i)' => HoldsLock(i) /\ i # j
        /\ \A i, k \in DOMAIN jobs : i # j /\ k # j /\ SharesLock(i, k)' => SharesLock(i, k)
    BY <1>4, <1>8 DEF HoldsLock, SharesLock
  <2> QED BY <1>5, <1>8, <2>1 DEF SecretsInv, LockInv
<1>16. StoredInv'
  <2> SUFFICES ASSUME NEW s \in McpServers \ spoiled', secrets.oauth[s] # NoToken,
                      secrets.oauth[s].grant \notin stranded',
                      secrets.oauth[s].n # newest'[secrets.oauth[s].grant]
               PROVE  \E i \in DOMAIN jobs' : /\ Pending(i)' /\ jobs'[i].server = s
                                              /\ jobs'[i].token.grant = secrets.oauth[s].grant
    BY <1>5 DEF StoredInv
  <2>1. secrets.oauth[s] \in Tokens /\ Known(s, secrets.oauth[s])
    BY DEF SecretsInv, SecretTypeOK, Files, Known
  <2>2. secrets.oauth[s].grant \in 1 .. Len(newest)
    BY <2>1 DEF SecretsInv, KnownInv
  <2>3. secrets.oauth[s].grant # g /\ secrets.oauth[s].grant \notin stranded
    BY <1>5
  <2>4. secrets.oauth[s].n # newest[secrets.oauth[s].grant]
    BY <1>6, <2>2, <2>3
  <2>5. PICK i \in DOMAIN jobs : /\ Pending(i) /\ jobs[i].server = s
                                 /\ jobs[i].token.grant = secrets.oauth[s].grant
    BY <1>5, <2>3, <2>4 DEF SecretsInv, StoredInv
  <2>6. i \in DOMAIN jobs' /\ Pending(i)' /\ jobs'[i] = jobs[i]
    BY <1>8, <1>10, <1>11, <2>5
  <2> QED BY <2>5, <2>6
<1>17. GoneInv'
  <2> SUFFICES ASSUME NEW s \in McpServers \ (servers' \union spoiled')
               PROVE  /\ \A i \in DOMAIN jobs' :
                             jobs'[i].server = s /\ jobs'[i].at # "done" => jobs'[i].kind = "remove"
                      /\ \/ secrets'.oauth[s] = NoToken /\ s \notin secrets'.env
                         \/ \E i \in DOMAIN jobs' : jobs'[i].server = s /\ jobs'[i].at # "done"
    BY DEF GoneInv
  <2>1. s # jobs[j].server
    BY <1>1, <1>5 DEF SecretsInv, GoneInv
  <2> QED BY <1>4, <1>5, <1>8, <2>1 DEF SecretsInv, GoneInv
<1> QED BY <1>9, <1>13, <1>14, <1>15, <1>16, <1>17 DEF SecretsInv

LEMMA CallbackKeeps ==
    ASSUME SecretsInv, NEW j \in DOMAIN jobs, CallbackArrives(j)
    PROVE  SecretsInv'
<1> DEFINE token == [grant |-> Len(newest) + 1, n |-> 1]
           w == [jobs[j] EXCEPT !.at = "saving", !.token = token]
<1>1. jobs[j] \in Jobs /\ jobs[j].at = "asking" /\ newest \in Seq(Nat) /\ Len(newest) \in Nat
  BY JobTypes DEF SecretsInv, SecretTypeOK, CallbackArrives
<1>2. token \in Tokens /\ token.grant = Len(newest) + 1 /\ token.n = 1
  BY <1>1 DEF Tokens
<1>3. jobs' = [jobs EXCEPT ![j] = w] /\ UNCHANGED <<servers, secrets, spoiled, stranded>>
  BY DEF CallbackArrives
<1>4. newest' = Append(newest, 1)
  BY DEF CallbackArrives
<1>5. /\ newest' \in Seq(Nat) /\ Len(newest') = Len(newest) + 1 /\ newest'[Len(newest) + 1] = 1
      /\ \A g \in 1 .. Len(newest) : newest'[g] = newest[g]
  BY <1>1, <1>4, AppendProperties
<1> HIDE DEF token
<1>6. /\ w \in Jobs /\ w.at = "saving" /\ w.token = token /\ w.kind = jobs[j].kind
      /\ w.server = jobs[j].server /\ w.manager = jobs[j].manager
  BY <1>1, <1>2 DEF Jobs
<1> HIDE DEF w
<1>7. \A s \in McpServers, x \in Tokens : Known(s, x) /\ x.grant = token.grant => s = w.server
  BY <1>1, <1>2 DEF SecretsInv, KnownInv
<1>8. \A i \in DOMAIN jobs : Pending(i) => jobs[i].token.grant # token.grant
  BY <1>1, <1>2 DEF SecretsInv, PendingInv
<1>9. /\ Len(newest) <= Len(newest') /\ token.grant \in 1 .. Len(newest') /\ newest'[token.grant] = token.n
      /\ \A g \in 1 .. Len(newest) : IF g = token.grant THEN newest[g] < newest'[g] ELSE newest'[g] = newest[g]
  BY <1>1, <1>2, <1>5
<1> QED BY <1>1, <1>2, <1>3, <1>5, <1>6, <1>7, <1>8, <1>9, TokenGotKeeps

LEMMA LoadKeeps ==
    ASSUME SecretsInv, NEW j \in DOMAIN jobs, LoadMCPSecrets(j)
    PROVE  SecretsInv'
<1> DEFINE w == [jobs[j] EXCEPT !.at = "loaded", !.file = secrets, !.overtaken = FALSE]
<1>1. jobs[j] \in Jobs /\ jobs[j].at = "saving" /\ secrets \in Files
  BY JobTypes DEF SecretsInv, SecretTypeOK, LoadMCPSecrets
<1>2. /\ w \in Jobs /\ w.at = "loaded" /\ w.file = secrets /\ w.token = jobs[j].token
      /\ w.kind = jobs[j].kind /\ w.server = jobs[j].server /\ w.manager = jobs[j].manager
  BY <1>1 DEF Jobs
<1>3. jobs' = [jobs EXCEPT ![j] = w] /\ UNCHANGED <<servers, secrets, newest, spoiled, stranded>>
  BY DEF LoadMCPSecrets
<1> HIDE DEF w
<1>4. /\ jobs' \in Seq(Jobs) /\ DOMAIN jobs' = DOMAIN jobs /\ jobs'[j] = w
      /\ \A i \in DOMAIN jobs : i # j => jobs'[i] = jobs[i]
  BY <1>2, <1>3, ReplacedJob DEF SecretsInv
<1>5. IsLocked(w) <=> IsLocked(jobs[j])
  BY <1>2 DEF IsLocked
<1>6. SecretTypeOK'
  BY <1>1, <1>2, <1>3, <1>4 DEF SecretsInv, SecretTypeOK
<1>7. \A i \in DOMAIN jobs' : /\ Pending(i)' <=> Pending(i)
                              /\ jobs'[i].token = jobs[i].token /\ jobs'[i].server = jobs[i].server
  BY <1>1, <1>2, <1>4, <1>5 DEF Pending
<1>8. KnownInv' /\ PendingInv'
  <2>1. ASSUME NEW s \in McpServers, NEW x \in Tokens, Known(s, x)'
        PROVE  Known(s, x)
    BY <1>1, <1>2, <1>3, <1>4, <2>1 DEF Known
  <2> QED BY <1>3, <1>4, <1>7, <2>1, NoNewToken DEF SecretsInv
<1>9. LockInv'
  <2>1. \A i, k \in DOMAIN jobs : SharesLock(i, k)' <=> SharesLock(i, k)
    <3>1. \A i \in DOMAIN jobs : jobs'[i].manager = jobs[i].manager /\ (IsLocked(jobs'[i]) <=> IsLocked(jobs[i]))
      BY <1>2, <1>4, <1>5
    <3> QED BY <3>1 DEF SharesLock
  <2>2. \A i \in DOMAIN jobs : i # j => (HoldsLock(i)' <=> HoldsLock(i))
    BY <1>4 DEF HoldsLock
  <2>3. \A i \in DOMAIN jobs : HoldsLock(i) => ~SharesLock(i, j) /\ ~SharesLock(j, i)
    BY DEF LoadMCPSecrets, SharesLock
  <2>4. \A i, k \in DOMAIN jobs : HoldsLock(i)' /\ HoldsLock(k)' /\ SharesLock(i, k)' => i = k
    BY <2>1, <2>2, <2>3 DEF SecretsInv, LockInv
  <2>5. \A i \in DOMAIN jobs : jobs'[i].at = "loaded" /\ ~jobs'[i].overtaken => jobs'[i].file = secrets
    BY <1>2, <1>4 DEF SecretsInv, LockInv
  <2> QED BY <1>3, <1>4, <2>4, <2>5 DEF LockInv
<1>10. StoredInv'
  BY <1>3, <1>4, <1>7 DEF SecretsInv, StoredInv
<1>11. GoneInv'
  BY <1>1, <1>2, <1>3, <1>4 DEF SecretsInv, GoneInv
<1> QED BY <1>6, <1>8, <1>9, <1>10, <1>11 DEF SecretsInv

\* What a job writes: its own server's secrets, and the others' as it had read them.
LEMMA ChangedIs ==
    ASSUME SecretTypeOK, NEW j \in DOMAIN jobs, jobs[j].at = "loaded"
    PROVE  LET job == jobs[j]  file == Changed(job)
           IN  /\ file \in Files
               /\ \A s \in McpServers : s # job.server => /\ file.oauth[s] = job.file.oauth[s]
                                                          /\ s \in file.env <=> s \in job.file.env
               /\ IsLocked(job) => file.oauth[job.server] = job.token
               /\ job.kind = "remove" => file.oauth[job.server] = NoToken /\ job.server \notin file.env
               /\ job.kind = "env" => file.oauth[job.server] = job.file.oauth[job.server]
<1> DEFINE job == jobs[j]
<1>1. job \in Jobs /\ job.file \in Files /\ job.server \in McpServers /\ job.token \in Tokens
  BY JobTypes DEF SecretTypeOK, Jobs
<1>2. job.file.oauth \in [McpServers -> Tokens] /\ job.file.env \subseteq McpServers
  BY <1>1 DEF Files
<1>3. CASE IsLocked(job)
  <2>1. job.kind # "remove" /\ job.kind # "env"
    BY <1>3 DEF IsLocked
  <2>2. Changed(job) = [job.file EXCEPT !.oauth[job.server] = job.token]
    BY <1>3 DEF Changed, IsLocked
  <2> HIDE DEF job
  <2> QED BY <1>1, <1>2, <1>3, <2>1, <2>2 DEF Files, job
<1>4. CASE job.kind = "remove"
  <2>1. ~IsLocked(job)
    BY <1>4 DEF IsLocked
  <2>2. Changed(job) = [oauth |-> [job.file.oauth EXCEPT ![job.server] = NoToken],
                        env |-> job.file.env \ {job.server}]
    BY <1>4, <2>1 DEF Changed
  <2> QED BY <1>1, <1>2, <1>4, <2>1, <2>2, NoTokenIs DEF Files
<1>5. CASE job.kind = "env"
  <2>1. ~IsLocked(job)
    BY <1>5 DEF IsLocked
  <2>2. Changed(job) = [job.file EXCEPT !.env = @ \union {job.server}]
    BY <1>5, <2>1 DEF Changed
  <2> QED BY <1>1, <1>2, <1>5, <2>1, <2>2 DEF Files
<1>6. IsLocked(job) \/ job.kind = "remove" \/ job.kind = "env"
  BY <1>1 DEF IsLocked, Jobs
<1> QED BY <1>3, <1>4, <1>5, <1>6

\* The jobs after a save: the one is done, and who had read the old file without the
\* lock has been overtaken.
LEMMA SavedJobs ==
    ASSUME SecretsInv, NEW j \in DOMAIN jobs, SaveMCPSecrets(j)
    PROVE  /\ jobs' \in Seq(Jobs) /\ DOMAIN jobs' = DOMAIN jobs /\ jobs'[j].at = "done"
           /\ \A i \in DOMAIN jobs :
                  /\ jobs'[i].kind = jobs[i].kind /\ jobs'[i].manager = jobs[i].manager
                  /\ jobs'[i].server = jobs[i].server /\ jobs'[i].token = jobs[i].token
                  /\ i # j => jobs'[i].at = jobs[i].at /\ jobs'[i].file = jobs[i].file
                  /\ i # j /\ jobs[i].at = "loaded" => jobs'[i].overtaken \/ SharesLock(i, j)
<1>1. jobs \in Seq(Jobs) /\ Len(jobs) \in Nat /\ DOMAIN jobs = 1 .. Len(jobs) /\ \A i \in DOMAIN jobs : jobs[i] \in Jobs
  BY JobTypes DEF SecretsInv, SecretTypeOK
<1>2. jobs' = [i \in DOMAIN jobs |->
                  IF i = j THEN [jobs[i] EXCEPT !.at = "done", !.file = NoFile]
                  ELSE IF jobs[i].at = "loaded" /\ ~SharesLock(i, j) THEN [jobs[i] EXCEPT !.overtaken = TRUE]
                  ELSE jobs[i]]
  BY DEF SaveMCPSecrets
<1>3. \A i \in DOMAIN jobs :
          /\ [jobs[i] EXCEPT !.at = "done", !.file = NoFile] \in Jobs
          /\ [jobs[i] EXCEPT !.overtaken = TRUE] \in Jobs
  BY <1>1 DEF Jobs
<1>4. \A i \in DOMAIN jobs : jobs'[i] \in Jobs
  BY <1>1, <1>2, <1>3
<1>5. jobs' \in [1 .. Len(jobs) -> Jobs]
  BY <1>1, <1>2, <1>4
<1>6. jobs' \in Seq(Jobs)
  BY <1>1, <1>5, SeqDef
<1> QED BY <1>1, <1>2, <1>6 DEF Jobs

LEMMA SaveKeeps ==
    ASSUME SecretsInv, NEW j \in DOMAIN jobs, SaveMCPSecrets(j)
    PROVE  SecretsInv'
<1> DEFINE own == jobs[j].server
           token == jobs[j].token
<1>1. /\ jobs' \in Seq(Jobs) /\ DOMAIN jobs' = DOMAIN jobs /\ jobs'[j].at = "done"
      /\ \A i \in DOMAIN jobs :
             /\ jobs'[i].kind = jobs[i].kind /\ jobs'[i].manager = jobs[i].manager
             /\ jobs'[i].server = jobs[i].server /\ jobs'[i].token = jobs[i].token
             /\ i # j => jobs'[i].at = jobs[i].at /\ jobs'[i].file = jobs[i].file
             /\ i # j /\ jobs[i].at = "loaded" => jobs'[i].overtaken \/ SharesLock(i, j)
  BY SavedJobs
<1>2. /\ jobs[j] \in Jobs /\ own \in McpServers /\ token \in Tokens
      /\ jobs[j].at = "loaded" /\ jobs[j].file \in Files
  BY JobTypes DEF SecretsInv, SecretTypeOK, SaveMCPSecrets, Jobs
<1>3. /\ secrets' = Changed(jobs[j]) /\ UNCHANGED <<servers, newest, stranded>>
      /\ spoiled' = IF jobs[j].overtaken THEN spoiled \union Undone(jobs[j]) \union {own} ELSE spoiled
  BY DEF SaveMCPSecrets
<1>4. /\ secrets' \in Files
      /\ \A s \in McpServers : s # own => /\ secrets'.oauth[s] = jobs[j].file.oauth[s]
                                          /\ s \in secrets'.env <=> s \in jobs[j].file.env
      /\ IsLocked(jobs[j]) => secrets'.oauth[own] = token
      /\ jobs[j].kind = "remove" => secrets'.oauth[own] = NoToken /\ own \notin secrets'.env
      /\ jobs[j].kind = "env" => secrets'.oauth[own] = jobs[j].file.oauth[own]
  BY <1>2, <1>3, ChangedIs DEF SecretsInv
<1>5. IsLocked(jobs[j]) \/ jobs[j].kind = "remove" \/ jobs[j].kind = "env"
  BY <1>2 DEF IsLocked, Jobs
\* What is not listed now is as it was, but for the job's own server.
<1>6. spoiled \subseteq spoiled' /\ spoiled' \subseteq McpServers
  BY <1>2, <1>3 DEF SecretsInv, SecretTypeOK, Undone
<1>7. \A s \in McpServers \ spoiled' : s # own =>
          secrets'.oauth[s] = secrets.oauth[s] /\ (s \in secrets'.env <=> s \in secrets.env)
  <2>1. CASE jobs[j].overtaken
    BY <1>3, <2>1 DEF Undone
  <2>2. CASE ~jobs[j].overtaken
    BY <1>2, <1>4, <2>2 DEF SecretsInv, LockInv
  <2> QED BY <2>1, <2>2
<1>8. \A i \in DOMAIN jobs : IsLocked(jobs'[i]) <=> IsLocked(jobs[i])
  BY <1>1 DEF IsLocked
<1>9. \A i \in DOMAIN jobs' : Pending(i)' <=> Pending(i) /\ i # j
  BY <1>1, <1>8 DEF Pending
<1> HIDE DEF own, token
<1>10. SecretTypeOK'
  <2>1. \A i \in DOMAIN jobs' : /\ jobs'[i].at = "loaded" => jobs'[i].file \in Files
                                /\ jobs'[i].at = "asking" => IsLocked(jobs'[i])
                                /\ (jobs'[i].kind = "connect" /\ jobs'[i].at = "asking"
                                        => jobs'[i].token # NoToken)
    BY <1>1, <1>8 DEF SecretsInv, SecretTypeOK
  <2> QED BY <1>1, <1>3, <1>4, <1>6, <2>1 DEF SecretsInv, SecretTypeOK
\* The saved token is known from now on, and no other.
<1>11. ASSUME NEW s \in McpServers, NEW x \in Tokens, Known(s, x)'
       PROVE  Known(s, x) \/ (IsLocked(jobs[j]) /\ s = own /\ x = token)
  <2>1. CASE secrets'.oauth[s] = x
    <3>1. CASE s = own /\ IsLocked(jobs[j])
      BY <1>4, <2>1, <3>1
    <3>2. CASE s # own \/ jobs[j].kind = "env"
      BY <1>2, <1>4, <1>11, <2>1, <3>2 DEF Known
    <3>3. CASE s = own /\ jobs[j].kind = "remove"
      BY <1>4, <1>11, <2>1, <3>3 DEF Known
    <3> QED BY <1>5, <3>1, <3>2, <3>3
  <2>2. CASE \E i \in DOMAIN jobs' :
                 \/ jobs'[i].at = "loaded" /\ jobs'[i].file.oauth[s] = x
                 \/ /\ jobs'[i].kind = "connect" /\ jobs'[i].at = "asking"
                    /\ jobs'[i].server = s /\ jobs'[i].token = x
    BY <1>1, <1>11, <2>2 DEF Known
  <2> QED BY <1>11, <2>1, <2>2 DEF Known
<1>12. IsLocked(jobs[j]) => /\ token.grant \in 1 .. Len(newest) /\ token.n = newest[token.grant]
                            /\ token.n \in Nat /\ Pending(j)
                            /\ \A s \in McpServers, x \in Tokens :
                                   Known(s, x) /\ x.grant = token.grant => s = own /\ x.n < token.n
  BY <1>2 DEF SecretsInv, PendingInv, Pending, Tokens, own, token
<1>13. KnownInv'
  <2>1. ASSUME NEW s \in McpServers, NEW x \in Tokens, Known(s, x)'
        PROVE  x.grant \in 1 .. Len(newest) /\ x.n <= newest[x.grant]
    BY <1>11, <1>12, <2>1 DEF SecretsInv, KnownInv
  <2>2. ASSUME NEW s \in McpServers, NEW t \in McpServers, NEW x \in Tokens, NEW y \in Tokens,
               Known(s, x)', Known(t, y)', x.grant = y.grant
        PROVE  s = t
    BY <1>11, <1>12, <2>2 DEF SecretsInv, KnownInv
  <2> QED BY <1>3, <2>1, <2>2 DEF KnownInv
<1>14. PendingInv'
  <2>1. ASSUME NEW i \in DOMAIN jobs', Pending(i)'
        PROVE  /\ Pending(i) /\ i # j /\ jobs'[i].token = jobs[i].token /\ jobs'[i].server = jobs[i].server
               /\ IsLocked(jobs[j]) => jobs[i].token.grant # token.grant
    BY <1>1, <1>9, <1>12, <2>1 DEF SecretsInv, PendingInv, token
  <2>2. ASSUME NEW i \in DOMAIN jobs', Pending(i)', NEW s \in McpServers, NEW x \in Tokens,
               Known(s, x)', x.grant = jobs'[i].token.grant
        PROVE  s = jobs'[i].server /\ x.n < jobs'[i].token.n
    <3>1. Known(s, x)
      BY <1>11, <2>1, <2>2
    <3> QED BY <1>1, <2>1, <2>2, <3>1 DEF SecretsInv, PendingInv
  <2>3. ASSUME NEW i \in DOMAIN jobs', Pending(i)'
        PROVE  /\ jobs'[i].token.grant \in 1 .. Len(newest)
               /\ jobs'[i].token.n = newest[jobs'[i].token.grant]
    BY <1>1, <2>1, <2>3 DEF SecretsInv, PendingInv
  <2>4. ASSUME NEW i \in DOMAIN jobs', NEW k \in DOMAIN jobs', Pending(i)', Pending(k)',
               jobs'[i].token.grant = jobs'[k].token.grant
        PROVE  i = k
    BY <1>1, <2>1, <2>4 DEF SecretsInv, PendingInv
  <2> QED BY <1>3, <2>2, <2>3, <2>4 DEF PendingInv
<1>15. LockInv'
  <2>1. \A i, k \in DOMAIN jobs : SharesLock(i, k)' <=> SharesLock(i, k)
    BY <1>1, <1>8 DEF SharesLock
  <2>2. \A i \in DOMAIN jobs : HoldsLock(i)' => HoldsLock(i) /\ i # j
    BY <1>1, <1>8 DEF HoldsLock
  <2>3. \A i, k \in DOMAIN jobs : HoldsLock(i)' /\ HoldsLock(k)' /\ SharesLock(i, k)' => i = k
    BY <2>1, <2>2 DEF SecretsInv, LockInv
\* Who shares the lock with the job that wrote has not read yet.
  <2>4. ASSUME NEW i \in DOMAIN jobs, jobs'[i].at = "loaded"
        PROVE  jobs'[i].overtaken
    <3>1. i # j /\ jobs[i].at = "loaded"
      BY <1>1, <2>4
    <3>2. ~SharesLock(i, j)
      BY <1>2, <3>1 DEF SecretsInv, LockInv, SharesLock, HoldsLock
    <3> QED BY <1>1, <3>1, <3>2
  <2> QED BY <1>1, <2>3, <2>4 DEF LockInv
<1>16. StoredInv'
  <2> SUFFICES ASSUME NEW s \in McpServers \ spoiled', secrets'.oauth[s] # NoToken,
                      secrets'.oauth[s].grant \notin stranded,
                      secrets'.oauth[s].n # newest[secrets'.oauth[s].grant]
               PROVE  \E i \in DOMAIN jobs' : /\ Pending(i)' /\ jobs'[i].server = s
                                              /\ jobs'[i].token.grant = secrets'.oauth[s].grant
    BY <1>3 DEF StoredInv
  <2>1. s # own \/ jobs[j].kind = "env"
    BY <1>4, <1>5, <1>12
  <2>2. secrets'.oauth[s] = secrets.oauth[s]
    <3>1. CASE s # own
      BY <1>7, <3>1
    <3>2. CASE s = own
      <4>1. ~jobs[j].overtaken
        BY <1>3, <3>2
      <4> QED BY <1>2, <1>4, <2>1, <3>2, <4>1 DEF SecretsInv, LockInv
    <3> QED BY <3>1, <3>2
  <2>3. PICK i \in DOMAIN jobs : /\ Pending(i) /\ jobs[i].server = s
                                 /\ jobs[i].token.grant = secrets.oauth[s].grant
    BY <1>6, <2>2 DEF SecretsInv, StoredInv
  <2>4. i # j
    BY <2>1, <2>3 DEF own, Pending, IsLocked
  <2> QED BY <1>1, <1>9, <2>2, <2>3, <2>4
<1>17. GoneInv'
  <2> SUFFICES ASSUME NEW s \in McpServers \ (servers \union spoiled')
               PROVE  /\ \A i \in DOMAIN jobs' :
                             jobs'[i].server = s /\ jobs'[i].at # "done" => jobs'[i].kind = "remove"
                      /\ \/ secrets'.oauth[s] = NoToken /\ s \notin secrets'.env
                         \/ \E i \in DOMAIN jobs' : jobs'[i].server = s /\ jobs'[i].at # "done"
    BY <1>3 DEF GoneInv
  <2>1. /\ \A i \in DOMAIN jobs :
               jobs[i].server = s /\ jobs[i].at # "done" => jobs[i].kind = "remove"
        /\ \/ secrets.oauth[s] = NoToken /\ s \notin secrets.env
           \/ \E i \in DOMAIN jobs : jobs[i].server = s /\ jobs[i].at # "done"
    BY <1>6 DEF SecretsInv, GoneInv
  <2>2. \A i \in DOMAIN jobs' : jobs'[i].server = s /\ jobs'[i].at # "done" => jobs'[i].kind = "remove"
    BY <1>1, <2>1
  <2>3. CASE s = own
    <3>1. jobs[j].kind = "remove"
      BY <1>2, <2>1, <2>3 DEF own
    <3> QED BY <1>4, <2>2, <2>3, <3>1
  <2>4. CASE s # own
    <3>1. secrets'.oauth[s] = secrets.oauth[s] /\ (s \in secrets'.env <=> s \in secrets.env)
      BY <1>7, <2>4
    <3>2. \A i \in DOMAIN jobs : jobs[i].server = s => i # j
      BY <2>4 DEF own
    <3> QED BY <1>1, <2>1, <2>2, <3>1, <3>2
  <2> QED BY <2>3, <2>4
<1> QED BY <1>10, <1>13, <1>14, <1>15, <1>16, <1>17 DEF SecretsInv

\* The stored token of a server nothing is under way for is one the provider takes,
\* unless the answer to a rotation of its grant was lost or one of the listed saves
\* spoiled it, and a removed server leaves none: whatever any number of managers do in
\* any order, with all the servers of a round refreshed side by side.
THEOREM SecretsAlwaysCurrent == SecretsSpec => []SecretsAreCurrent
<1>1. SecretsInv /\ [SecretsNext]_secretVars => SecretsInv'
  <2> SUFFICES ASSUME SecretsInv, [SecretsNext]_secretVars
               PROVE  SecretsInv'
    OBVIOUS
  <2>1. CASE \E m \in Managers, s \in McpServers :
                BeginAuthorize(m, s) \/ RemoveMCPServer(m, s) \/ SetMCPEnv(m, s)
    BY <2>1, BeginAuthorizeKeeps, RemoveMCPServerKeeps, SetMCPEnvKeeps
  <2>2. CASE \E s \in McpServers : UpsertMCPServer(s)
    BY <2>2, UpsertKeeps
  <2>3. CASE \E j \in DOMAIN jobs :
                RefreshToken(j) \/ ReplyIsLost(j) \/ CallbackArrives(j) \/ AskFails(j)
                \/ LoadMCPSecrets(j) \/ SaveMCPSecrets(j) \/ SaveFails(j)
    BY <2>3, RefreshTokenKeeps, ReplyIsLostKeeps, CallbackKeeps, AskFailsKeeps, LoadKeeps, SaveKeeps, SaveFailsKeeps
  <2>4. CASE UNCHANGED secretVars
    <3>1. SecretTypeOK' /\ StoredInv' /\ GoneInv'
      BY <2>4 DEF SecretsInv, SecretTypeOK, StoredInv, GoneInv, Pending, secretVars
    <3>2. LockInv'
      BY <2>4 DEF SecretsInv, LockInv, HoldsLock, SharesLock, secretVars
    <3>3. KnownInv' /\ PendingInv'
      BY <2>4 DEF SecretsInv, KnownInv, PendingInv, Known, Pending, secretVars
    <3> QED BY <3>1, <3>2, <3>3 DEF SecretsInv
  <2>5. CASE \E m \in Managers, n \in 1 .. MaxJobs : \E expired \in [1 .. n -> McpServers] :
                 BeginRound(m, expired)
    <3>1. PICK m \in Managers, n \in 1 .. MaxJobs :
              \E expired \in [1 .. n -> McpServers] : BeginRound(m, expired)
      BY <2>5
    <3>2. PICK expired \in [1 .. n -> McpServers] : BeginRound(m, expired)
      BY <3>1
    <3>3. n \in Nat
      BY McpSecretsAssumption
    <3> QED BY <3>2, <3>3, BeginRoundKeeps
  <2> QED BY <2>1, <2>2, <2>3, <2>4, <2>5 DEF SecretsNext
<1>2. SecretsInv => SecretsAreCurrent
  <2> SUFFICES ASSUME SecretsInv
               PROVE  SecretsAreCurrent
    OBVIOUS
  <2>1. TokenIsUsable
    BY DEF TokenIsUsable, SecretsInv, StoredInv, InFlight, Pending
  <2>2. RemovedIsForgotten
    BY DEF RemovedIsForgotten, SecretsInv, GoneInv, InFlight
  <2> QED BY <2>1, <2>2 DEF SecretsAreCurrent
<1> QED BY <1>1, <1>2, SecretsInitial, PTL DEF SecretsSpec

=============================================================================
