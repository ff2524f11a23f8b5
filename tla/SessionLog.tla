----------------------------- MODULE SessionLog -----------------------------
(***************************************************************************)
(* The usage ledger of a session on disk: appended line by line while the  *)
(* program runs, read whole when the session is resumed.                   *)
(*                                                                         *)
(* Source: internal/state/session.go (appendJSONLine,                      *)
(* readSessionJSONLines), internal/orchestrator/usage.go (appendUsage) and *)
(* engine.go (NewEngine), internal/command/runtime_build.go.               *)
(*                                                                         *)
(* A file is a sequence of tokens: a record (its whole JSON), a fragment   *)
(* (a proper prefix of a record) and the end of a line.  The operating     *)
(* system keeps what was written when the process dies, and what was       *)
(* synced when the power fails; of the rest any prefix, cut anywhere.      *)
(* appendJSONLine holds the sessions' lock, and appendUsage the engine's   *)
(* usageWriteMu: one append at a time.                                     *)
(***************************************************************************)
EXTENDS Naturals, Sequences, FiniteSets, SequencesExt

CONSTANTS
    CanShortWrite,   \* TRUE iff a write may fail half way (a full disk)
    CanFailSync,     \* TRUE iff fsync may report an error
    CanLosePower,    \* TRUE iff what is not synced may be lost
    MaxAppends,      \* no append begins past this many
    MaxLives         \* no resume past this many

ASSUME ConstantsAssumption ==
    /\ {CanShortWrite, CanFailSync, CanLosePower} \subseteq BOOLEAN
    /\ {MaxAppends, MaxLives} \subseteq Nat

VARIABLES
    file,       \* usage.jsonl as the operating system returns it
    synced,     \* how many of its tokens are on the disk
    logState,         \* "down", "up", "sync" (written, not synced) or "refused"
    requestSeq, \* Engine.requestSeq
    records,    \* Engine.usageRecords
    acked,      \* records whose append returned without an error (history)
    appends,    \* appends begun: the identity of a record
    lives       \* resumes

logDisk == <<file, synced>>
ledgerState == <<requestSeq, records>>
logVars == <<logDisk, logState, ledgerState, acked, appends, lives>>

Fragment == [kind |-> "fragment"]
EndOfLine == [kind |-> "eol"]
Record(seq, id) == [kind |-> "record", seq |-> seq, id |-> id]
Records == [kind : {"record"}, seq : 1 .. MaxAppends, id : 1 .. MaxAppends]

-----------------------------------------------------------------------------
(* Reading. *)

Lines(tokens) ==
    FoldLeft(LAMBDA lines, token :
                IF token = EndOfLine
                THEN Append(lines, <<>>)
                ELSE [lines EXCEPT ![Len(lines)] = Append(@, token)],
             << <<>> >>, tokens)

\* A line is decoded iff it is one JSON value.
Decodes(line) == Len(line) = 1 /\ line[1].kind = "record"

\* A line that does not decode is let pass if only blank lines follow.
Readable(tokens) ==
    LET lines == Lines(tokens)
    IN  \A n \in DOMAIN lines :
          lines[n] = <<>> \/ Decodes(lines[n])
          \/ \A m \in n + 1 .. Len(lines) : lines[m] = <<>>

\* The records of the lines that decode.
DecodedIn(lines) == FlattenSeq([n \in DOMAIN lines |-> IF Decodes(lines[n]) THEN lines[n] ELSE <<>>])
ReadLog(tokens) == DecodedIn(Lines(tokens))

HighestSeq(read) ==
    CHOOSE n \in {0} \cup {r.seq : r \in ToSet(read)} :
      \A r \in ToSet(read) : r.seq <= n

-----------------------------------------------------------------------------

LogInit ==
    /\ file = <<>> /\ synced = 0
    /\ logState = "down"
    /\ requestSeq = 0 /\ records = <<>>
    /\ acked = <<>> /\ appends = 0 /\ lives = 0

\* buildRuntime reads the ledger, NewEngine recovers the number of the newest.
Resume ==
    /\ logState = "down" /\ lives < MaxLives
    /\ Readable(file)
    /\ logState' = "up" /\ lives' = lives + 1
    /\ records' = ReadLog(file) /\ requestSeq' = HighestSeq(ReadLog(file))
    /\ UNCHANGED <<logDisk, acked, appends>>

\* The session cannot be opened any more.
Refuse ==
    /\ logState = "down" /\ lives < MaxLives
    /\ ~Readable(file)
    /\ logState' = "refused"
    /\ UNCHANGED <<logDisk, ledgerState, acked, appends, lives>>

BeginAppend == logState = "up" /\ appends < MaxAppends /\ appends' = appends + 1
NewRecord == Record(requestSeq + 1, appends + 1)

\* A mutated form: the append is acknowledged before it is synced.
WriteAcknowledged ==
    /\ BeginAppend
    /\ file' = file \o <<NewRecord, EndOfLine>>
    /\ requestSeq' = requestSeq + 1 /\ records' = Append(records, NewRecord)
    /\ acked' = Append(acked, NewRecord)
    /\ UNCHANGED <<synced, logState, lives>>

\* The record and its end of line are one write at the end of the file.
Write ==
    /\ BeginAppend
    /\ file' = file \o <<NewRecord, EndOfLine>>
    /\ logState' = "sync"
    /\ UNCHANGED <<synced, ledgerState, acked, lives>>

\* The write stops inside the record or before its end of line; nothing is
\* counted, and nothing is cut back.
ShortWrite ==
    /\ CanShortWrite /\ BeginAppend
    /\ \E part \in {Fragment, NewRecord} : file' = Append(file, part)
    /\ UNCHANGED <<synced, logState, ledgerState, acked, lives>>

\* The record just written.
Written == file[Len(file) - 1]

\* fsync succeeds: the append returns, the record is counted.
Sync ==
    /\ logState = "sync"
    /\ synced' = Len(file)
    /\ logState' = "up"
    /\ requestSeq' = Written.seq /\ records' = Append(records, Written)
    /\ acked' = Append(acked, Written)
    /\ UNCHANGED <<file, appends, lives>>

\* fsync fails: the record is in the file, its number is used again.
SyncFails ==
    /\ CanFailSync /\ logState = "sync"
    /\ logState' = "up"
    /\ UNCHANGED <<logDisk, ledgerState, acked, appends, lives>>

Down == /\ logState' = "down"
        /\ requestSeq' = 0 /\ records' = <<>>

Die ==
    /\ logState \in {"up", "sync"}
    /\ Down
    /\ UNCHANGED <<logDisk, acked, appends, lives>>

\* What is not synced survives up to any point.
LosePower ==
    /\ CanLosePower /\ logState # "refused" /\ synced < Len(file)
    /\ Down
    /\ \E kept \in synced .. Len(file) - 1, torn \in BOOLEAN :
          /\ torn => file[kept + 1] # EndOfLine
          /\ file' = SubSeq(file, 1, kept) \o (IF torn THEN <<Fragment>> ELSE <<>>)
    /\ synced' = Len(file')
    /\ UNCHANGED <<acked, appends, lives>>

AtBound == (logState = "refused" \/ (logState = "down" /\ lives = MaxLives)) /\ UNCHANGED logVars

LogNext ==
    \/ Resume \/ Refuse \/ Write \/ ShortWrite \/ Sync \/ SyncFails
    \/ Die \/ LosePower \/ AtBound

LogSpec == LogInit /\ [][LogNext]_logVars

-----------------------------------------------------------------------------
(* Properties. *)

LogTypeOK ==
    /\ file \in Seq(Records \cup {Fragment, EndOfLine})
    /\ synced \in 0 .. Len(file)
    /\ logState \in {"down", "up", "sync", "refused"}
    /\ requestSeq \in 0 .. MaxAppends
    /\ records \in Seq(Records) /\ acked \in Seq(Records)
    /\ appends \in 0 .. MaxAppends /\ lives \in 0 .. MaxLives
    /\ logState = "sync" => Len(file) > 1 /\ Written \in Records

\* No append has landed behind what an earlier one left unfinished.
Separate == \A n \in DOMAIN Lines(file) : Len(Lines(file)[n]) <= 1

\* The elements of s that are in S, in their order.
OnlyIn(s, S) == FlattenSeq([j \in DOMAIN s |-> IF s[j] \in S THEN <<s[j]>> ELSE <<>>])

Subsequence(s, t) == OnlyIn(t, ToSet(s)) = s

\* An append that returned is read back by every later resume, in its place,
\* whatever died, failed or lost power since - as long as no append landed
\* behind a torn one.
AckedReadBack == Separate => Readable(file) /\ Subsequence(acked, ReadLog(file))

(* What a comment says, and the code does not do. *)

\* readSessionJSONLines: "a crash mid-append can leave only the LAST line
\* partial", so a resume is not refused.
ResumeNeverRefused == logState # "refused"

=============================================================================
