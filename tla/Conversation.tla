----------------------------- MODULE Conversation -----------------------------
(***************************************************************************)
(* The conversation a session keeps and what a request shows of it         *)
(* (orchestrator/history.go): messages are only appended, but old tool     *)
(* results are trimmed, finished tasks folded and old messages replaced by *)
(* a summary when space runs out, and a request starts at the first unit   *)
(* that still fits.  rewriteVersion counts what the prefix guard must      *)
(* know of.                                                                *)
(*                                                                         *)
(* A message is its weight: 1 is below what folding touches, 4 is above    *)
(* what trimming touches, 2 between the two, and 2 is what trimming        *)
(* leaves of a 4.  A unit begins with a user message.                      *)
(***************************************************************************)
EXTENDS Naturals, Sequences, FiniteSets, SequencesExt

CONSTANTS
    Kinds,         \* what is appended: roles, weights 1, 2 or 4, and whether a result is an error
    Budget,        \* of a request, with the system prompt (contextLimit - reserve)
    KeepFull,      \* newest tool results that are not trimmed for their age
    MinBatch,      \* fewer results are not worth a trim
    KeepUnits,     \* units a summary leaves
    MaxMessages, MaxRewrites, MaxStarts   \* bounds

ASSUME ConversationAssumption ==
    /\ Kinds \subseteq [role : {"user", "assistant", "tool"}, weight : {1, 2, 4}, bad : BOOLEAN]
    /\ {Budget, KeepFull, MaxMessages, MaxRewrites, MaxStarts} \subseteq Nat
    /\ MinBatch \in Nat \ {0} /\ KeepUnits \in Nat \ {0}

VARIABLES
    talk,        \* the messages, the summaries before them, taskStart, version, the window
    saved,       \* history.json
    superseded,  \* ids of results a later change made stale; not saved
    said, reopened, tidied, \* messages ever appended; times opened again; rewrites begun
    sent,        \* history: the last request
    archived,    \* pruned.jsonl: ids of results that were archived whole
    broken,      \* history: a write of one of the files failed
    settled      \* history: Maintain was the last thing to happen

talkVars == <<talk, saved, superseded, said, reopened, tidied, sent, archived, broken, settled>>

Asked == [role |-> "user", weight |-> 1, bad |-> FALSE]

Message(kind) == [id |-> said + 1, role |-> kind.role, weight |-> kind.weight, bad |-> kind.bad, form |-> "full"]

Size(m) == CASE m.form = "full" -> m.weight [] m.form = "trimmed" -> 2 [] m.form = "folded" -> 1

\* saveLocked: the error of the write is dropped.  (One failure is enough.)
SaveTalk(t, fails) ==
    /\ ~(broken /\ fails)
    /\ talk' = t
    /\ saved' = IF fails THEN saved ELSE t
    /\ broken' = (broken \/ fails)

-----------------------------------------------------------------------------
(* A request.                                                              *)

\* GroupUnits: where the units begin.
UnitStarts(messages) == {i \in DOMAIN messages : i = 1 \/ messages[i].role = "user"}

WeightFrom(messages, i) ==
    FoldLeft(LAMBDA sum, m : sum + Size(m), 0, SubSeq(messages, i, Len(messages)))

\* assembleRequestWithStart: the first unit from which all fits with the prompt and
\* the summary; the newest unit in any case.
WindowStart(t) ==
    LET starts == UnitStarts(t.messages)
        fits == {i \in starts : 1 + t.summaries + WeightFrom(t.messages, i) <= Budget
                                \/ \A j \in starts : j <= i}
    IN  IF starts = {} THEN 0 ELSE CHOOSE i \in fits : \A j \in fits : i <= j

Shown(t, start) ==
    [k \in 1..(IF start = 0 THEN 0 ELSE Len(t.messages) - start + 1) |->
        LET m == t.messages[start + k - 1] IN <<m.id, m.form>>]

\* The number of units before a message, which is how the window is kept.
Units(messages, start) == Cardinality({i \in UnitStarts(messages) : i < start})

\* A mutated form: one unit may be dropped unseen.
WindowDroppedLate(units) == \E w \in talk.window : units > w + 1

\* The window of the last request, if there was one, was moved forward.
WindowDropped(units) == \E w \in talk.window : units > w

\* BuildRequestWithMetadata: a window that moved forward is a rewrite.
BuildRequest(fails) ==
    LET start == WindowStart(talk)
        units == Units(talk.messages, start)
        version == talk.version + (IF WindowDropped(units) THEN 1 ELSE 0)
        next == [talk EXCEPT !.window = {units}, !.version = version]
    IN  /\ talk.messages # <<>>
        /\ IF talk.window = {units} THEN ~fails /\ UNCHANGED <<talk, saved, broken>> ELSE SaveTalk(next, fails)
        /\ sent' = [version |-> version, summaries |-> talk.summaries, shown |-> Shown(talk, start)]
        /\ settled' = FALSE
        /\ UNCHANGED <<superseded, said, reopened, tidied, archived>>

-----------------------------------------------------------------------------
(* Appending.                                                              *)

\* MarkTaskStart, then the user's message.
BeginTalkTask(fails) ==
    /\ said < MaxMessages
    /\ SaveTalk([talk EXCEPT !.taskStart = Len(talk.messages),
                         !.messages = Append(@, Message(Asked))], fails)
    /\ said' = said + 1 /\ settled' = FALSE
    /\ UNCHANGED <<superseded, reopened, tidied, sent, archived>>

\* A call and its result, or a governor's notice.
AppendMessage(kind, fails) ==
    /\ said < MaxMessages /\ talk.messages # <<>>
    /\ SaveTalk([talk EXCEPT !.messages = Append(@, Message(kind))], fails)
    /\ said' = said + 1 /\ settled' = FALSE
    /\ UNCHANGED <<superseded, reopened, tidied, sent, archived>>

MarkSuperseded(id) ==
    /\ \E i \in DOMAIN talk.messages : talk.messages[i].id = id /\ talk.messages[i].role = "tool"
    /\ superseded' = superseded \union {id} /\ settled' = FALSE
    /\ UNCHANGED <<talk, saved, said, reopened, tidied, sent, archived, broken>>

-----------------------------------------------------------------------------
(* Reclaiming.                                                             *)

\* foldCompletedMessages: results and calls of finished tasks, errors too.
Folded(messages, limit) ==
    [i \in DOMAIN messages |->
        IF i <= limit /\ messages[i].role # "user" /\ Size(messages[i]) > 1
        THEN [messages[i] EXCEPT !.form = "folded"] ELSE messages[i]]

ToolsAfter(messages, i) == Cardinality({j \in DOMAIN messages : j > i /\ messages[j].role = "tool"})

\* A mutated form: errors are trimmed too.
TrimmableErrors(messages) ==
    {i \in DOMAIN messages :
        LET m == messages[i] IN
        /\ m.role = "tool" /\ m.weight = 4 /\ m.form = "full"
        /\ ToolsAfter(messages, i) >= KeepFull \/ m.id \in superseded}

\* trimAgedMessages: large results that are old or superseded, but no error, if
\* there are enough of them.
Trimmable(messages) ==
    {i \in DOMAIN messages :
        LET m == messages[i] IN
        /\ m.role = "tool" /\ m.weight = 4 /\ m.form = "full" /\ ~m.bad
        /\ ToolsAfter(messages, i) >= KeepFull \/ m.id \in superseded}

Trimmed(messages) ==
    IF Cardinality(Trimmable(messages)) < MinBatch THEN messages
    ELSE [i \in DOMAIN messages |->
             IF i \in Trimmable(messages) THEN [messages[i] EXCEPT !.form = "trimmed"] ELSE messages[i]]

Reclaimed(t) == Trimmed(Folded(t.messages, t.taskStart))

\* archiveChangedLocked: the results that were whole until now.
Pruned(before, after) ==
    {before[i].id : i \in {j \in DOMAIN before :
        before[j].role = "tool" /\ before[j].form = "full" /\ after[j].form # "full"}}

\* Maintain: one archive, one write and one rewrite for all of it.
Maintain(fails, unarchived) ==
    LET after == Reclaimed(talk) IN
    /\ ~(broken /\ (fails \/ unarchived)) /\ tidied < MaxRewrites /\ after # talk.messages /\ tidied' = tidied + 1
    /\ talk' = [talk EXCEPT !.messages = after, !.version = @ + 1]
    /\ saved' = IF fails THEN saved ELSE talk'
    /\ broken' = (broken \/ fails \/ unarchived)
    /\ archived' = IF unarchived THEN archived ELSE archived \union Pruned(talk.messages, after)
    /\ settled' = TRUE
    /\ UNCHANGED <<superseded, said, reopened, sent>>

\* CompactTo: the newest units stay, the summary grows by one.
CompactTo(fails) ==
    LET starts == UnitStarts(talk.messages)
        kept == {i \in starts : Cardinality({j \in starts : j >= i}) <= KeepUnits}
        removed == (CHOOSE i \in kept : \A j \in kept : i <= j) - 1
    IN  /\ talk.messages # <<>> /\ tidied < MaxRewrites /\ tidied' = tidied + 1
        /\ SaveTalk([messages |-> SubSeq(talk.messages, removed + 1, Len(talk.messages)),
                 summaries |-> talk.summaries + 1,
                 taskStart |-> IF talk.taskStart > removed THEN talk.taskStart - removed ELSE 0,
                 version |-> talk.version + 1, window |-> {}], fails)
        /\ settled' = FALSE
        /\ UNCHANGED <<superseded, said, reopened, sent, archived>>

\* NewHistory, from the file.
ReopenTalk ==
    /\ reopened < MaxStarts /\ reopened' = reopened + 1
    /\ talk' = saved /\ superseded' = {} /\ settled' = FALSE
    /\ UNCHANGED <<saved, said, tidied, sent, archived, broken>>

-----------------------------------------------------------------------------

TalkInit ==
    /\ talk = [messages |-> <<>>, summaries |-> 0, taskStart |-> 0, version |-> 0, window |-> {}]
    /\ saved = talk /\ superseded = {} /\ said = 0 /\ reopened = 0 /\ tidied = 0
    /\ sent = [version |-> 0, summaries |-> 0, shown |-> <<>>]
    /\ archived = {} /\ broken = FALSE /\ settled = FALSE

TalkNext ==
    \/ \E fails \in BOOLEAN :
        \/ BuildRequest(fails) \/ BeginTalkTask(fails) \/ CompactTo(fails)
        \/ \E kind \in Kinds : AppendMessage(kind, fails)
        \/ \E unarchived \in BOOLEAN : Maintain(fails, unarchived)
    \/ \E id \in 1..said : MarkSuperseded(id)
    \/ ReopenTalk

-----------------------------------------------------------------------------

\* What the guard takes for one version is one growing text: a request with the
\* version of the one before it begins with all of it, although messages grow
\* between them, the window is computed anew each time, and the session may have
\* been closed and opened again.
RequestsExtend ==
    [][(~broken' /\ sent'.version = sent.version)
           => /\ sent.summaries = sent'.summaries \/ sent.shown = <<>>
              /\ IsPrefix(sent.shown, sent'.shown)]_talkVars

\* Reclaiming shortens nothing it should keep: no message of the running task is
\* folded, no error is trimmed, what was shortened is in the archive, and reclaiming
\* again at once would find nothing.
ReclaimIsSafe ==
    /\ \A i \in DOMAIN talk.messages :
        /\ i > talk.taskStart => talk.messages[i].form # "folded"
        /\ talk.messages[i].bad => talk.messages[i].form # "trimmed"
        /\ (talk.messages[i].role = "tool" /\ talk.messages[i].form # "full" /\ ~broken)
               => talk.messages[i].id \in archived
    /\ settled => Reclaimed(talk) = talk.messages
=============================================================================
