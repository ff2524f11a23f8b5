------------------------------- MODULE Memory -------------------------------
(***************************************************************************)
(* The durable memory of a project (orchestrator/memory.go): an index file *)
(* of facts and topic pointers and one file per topic, shared by every     *)
(* session of the project.  A file is read and written again without a     *)
(* lock, by an edit with the user asked between the two, when a topic is   *)
(* taken off the index and when a session opens; saving under a topic and  *)
(* dissolving one take two writes, of two files.  A write that does not    *)
(* append empties the file first (os.WriteFile).                           *)
(*                                                                         *)
(* A fact is the set of its words and a topic's pointer the line whose     *)
(* only word is the topic; a text matches a line whose words include its   *)
(* own.  Dedupe keeps lines distinct, so a file is a set of lines.         *)
(***************************************************************************)
EXTENDS Naturals, FiniteSets

CONSTANTS
    Processes,             \* sessions of this project, each in its process
    Topics, Facts,         \* topic slugs; facts, as sets of words
    NoTopic, NoLine,
    Legacy,                \* facts of the workspace's MEMORY.md of old versions
    TopicLimit,            \* lines of a full topic file (maxTopicFileBytes)
    MaxOps, MaxFaults      \* bounds on the calls, and on failures and hand edits

ASSUME MemoryAssumption ==
    /\ NoTopic \notin Topics /\ Legacy \subseteq Facts /\ TopicLimit \in Nat \ {0}
    /\ MaxOps \in Nat /\ MaxFaults \in Nat

VARIABLES
    memory,    \* file -> does it exist, has it anything but comments, its lines
    memOp,     \* process -> the call it runs
    memOps, memFaults,
    told,      \* history: entries a call said are in a file, and no edit has removed
    lost,      \* history: entries gone with a write of their file that had not read them, or
               \* that was cut short
    erased,    \* history: entries removed by an edit and not saved since
    undisturbed   \* history: calls never overlapped, none failed midway, no hand edit

memoryVars == <<memory, memOp, memOps, memFaults, told, lost, erased, undisturbed>>

\* NoTopic names the index, MEMORY.md.
MemoryFiles == Topics \union {NoTopic}

Fact(words) == [topic |-> NoTopic, words |-> words]
Pointer(t) == [topic |-> t, words |-> {t}]

ASSUME NoLineAssumption == NoLine \notin {Fact(w) : w \in Facts} \union {Pointer(t) : t \in Topics}

NoMemoryFile == [exists |-> FALSE, meaningful |-> FALSE, lines |-> {}]
Document(lines) == [exists |-> TRUE, meaningful |-> TRUE, lines |-> lines]

Resting == [at |-> "idle", topic |-> NoTopic, line |-> NoLine, new |-> NoLine, read |-> {}, since |-> {}]

\* A call of p moves to its next step.
Step(p, op) == memOp' = [memOp EXCEPT ![p] = op]

\* A call at one of these steps has read the file it is about, to write it again.
Rewriting == {"edit", "unlisting", "open"}

\* What the other calls under way have not seen of a file.
SeenByNone(f, added, ops) ==
    [p \in Processes |->
        IF ops[p].at \in Rewriting /\ ops[p].topic = f THEN [ops[p] EXCEPT !.since = @ \union added]
        ELSE ops[p]]

\* A call is begun where none is under way, or it overlaps another.
Began(p, op) ==
    /\ memOp[p].at = "idle" /\ Step(p, op)
    /\ undisturbed' = (undisturbed /\ \A q \in Processes \ {p} : memOp[q].at = "idle")

-----------------------------------------------------------------------------
(* Opening a session: the legacy file is copied once, then the template.   *)

\* A mutated form: an index without entries is taken for a new one.
NothingListed(file) == file.lines = {}

\* HasMeaningfulDocContent: a heading is content too.
NeverUsed(file) == ~file.meaningful

\* migrateWorkspaceMemory finds the index never used and reads the legacy file to copy it;
\* with nothing to copy, EnsureMemoryIndexTemplate writes an index that is not there.
OpenMemory(p, copied) ==
    /\ NeverUsed(memory[NoTopic]) /\ (copied # {} \/ ~memory[NoTopic].exists)
    /\ Began(p, [Resting EXCEPT !.at = "open", !.read = {Fact(w) : w \in copied}])
    /\ UNCHANGED <<memory, memOps, memFaults, told, lost, erased>>

-----------------------------------------------------------------------------
(* save_memory                                                             *)

\* A session whose opening failed runs its calls all the same.
BeginCall(p, op) == memOps < MaxOps /\ memOps' = memOps + 1 /\ Began(p, op)

\* A valid call, which waits for the user unless edits are accepted by themselves.
SaveMemory(p, topic, words) ==
    /\ BeginCall(p, [Resting EXCEPT !.at = "save", !.topic = topic, !.line = Fact(words)])
    /\ UNCHANGED <<memory, memFaults, told, lost, erased>>

\* The user declines, there is no one to ask, or the edited topic would be too big.
DeclineMemory(p) ==
    /\ memOp[p].at \in {"save", "edit"} /\ Step(p, Resting)
    /\ UNCHANGED <<memory, memOps, memFaults, told, lost, erased, undisturbed>>

IsFull(topic, lines) == topic # NoTopic /\ Cardinality(lines) > TopicLimit

\* appendBulletFile: what is known is not written again; a full topic refuses.
AppendBullet(p) ==
    LET op == memOp[p]
        file == memory[op.topic]
        done == IF op.topic = NoTopic THEN Resting ELSE [op EXCEPT !.at = "pointer"]
        entry == <<op.topic, op.line>>
    IN  /\ op.at = "save"
        /\ \/ /\ op.line \in file.lines
              /\ Step(p, done) /\ told' = told \union {entry} /\ lost' = lost \ {entry}
              /\ UNCHANGED <<memory, erased>>
           \/ /\ op.line \notin file.lines /\ IsFull(op.topic, file.lines \union {op.line})
              /\ Step(p, Resting)
              /\ UNCHANGED <<memory, told, lost, erased>>
           \/ /\ op.line \notin file.lines /\ ~IsFull(op.topic, file.lines \union {op.line})
              /\ memory' = [memory EXCEPT ![op.topic] = Document(@.lines \union {op.line})]
              /\ memOp' = SeenByNone(op.topic, {op.line}, [memOp EXCEPT ![p] = done])
              /\ told' = told \union {entry} /\ lost' = lost \ {entry} /\ erased' = erased \ {entry}
        /\ UNCHANGED <<memOps, memFaults, undisturbed>>

\* ensureIndexPointer: a pointer is only added.
EnsureIndexPointer(p) ==
    LET pointer == Pointer(memOp[p].topic)
    IN  /\ memOp[p].at = "pointer"
        /\ IF pointer \in memory[NoTopic].lines
           THEN Step(p, Resting) /\ UNCHANGED <<memory, erased>>
           ELSE /\ memory' = [memory EXCEPT ![NoTopic] = Document(@.lines \union {pointer})]
                /\ memOp' = SeenByNone(NoTopic, {pointer}, [memOp EXCEPT ![p] = Resting])
                /\ erased' = erased \ {<<NoTopic, pointer>>}
        /\ UNCHANGED <<memOps, memFaults, told, lost, undisturbed>>

-----------------------------------------------------------------------------
(* edit_memory                                                             *)

\* matchMemoryLine: the line with exactly these words, else those that contain them.
MatchMemoryLine(lines, words) ==
    IF \E l \in lines : l.words = words
    THEN {l \in lines : l.words = words}
    ELSE {l \in lines : words \subseteq l.words}

\* The line that replaces the matched one: none to remove it, and none when it
\* already is another entry.
Replacement(lines, matched, new) == IF new \in lines \ {matched} THEN NoLine ELSE new

\* The call reads the file and asks with what it found.
EditMemory(p, topic, words, new) ==
    LET file == memory[topic] matched == MatchMemoryLine(file.lines, words)
    IN  /\ file.exists /\ Cardinality(matched) = 1
        /\ LET line == CHOOSE l \in matched : TRUE
           IN  BeginCall(p, [at |-> "edit", topic |-> topic, line |-> line, read |-> file.lines,
                             new |-> Replacement(file.lines, line, new), since |-> {}])
        /\ UNCHANGED <<memory, memFaults, told, lost, erased>>

\* What a call writes again: what it read, but for the line it is about.
RewrittenLines(op) == (op.read \ {op.line}) \union ({op.new} \ {NoLine})

\* The entries its write takes away without having read them.
Overtaken(op) == {<<op.topic, l>> : l \in op.since \ RewrittenLines(op)}

\* What a write that lands does to the history.
Landed(op) ==
    LET removed == {<<op.topic, l>> : l \in {op.line} \ {NoLine}}
        put == {<<op.topic, l>> : l \in {op.new} \ {NoLine}}
    IN  /\ told' = (told \ removed) \union put
        /\ lost' = (lost \union Overtaken(op)) \ put
        /\ erased' = (erased \union removed) \ put

\* The last entry of a topic takes the file with it, and what came into it since.
DissolveTopic(p) ==
    LET op == memOp[p]
    IN  /\ op.at = "edit" /\ op.topic # NoTopic /\ RewrittenLines(op) = {}
        /\ \/ /\ memory[op.topic].exists
              /\ memory' = [memory EXCEPT ![op.topic] = NoMemoryFile]
              /\ Landed(op) /\ Step(p, [op EXCEPT !.at = "unlist"])
           \/ /\ ~memory[op.topic].exists
              /\ Step(p, Resting) /\ UNCHANGED <<memory, told, lost, erased>>
        /\ UNCHANGED <<memOps, memFaults, undisturbed>>

\* removeIndexPointer reads the index, after a topic was dissolved.
RemoveIndexPointer(p) ==
    LET pointer == Pointer(memOp[p].topic) index == memory[NoTopic].lines
    IN  /\ memOp[p].at = "unlist"
        /\ Step(p, IF pointer \in index
                   THEN [Resting EXCEPT !.at = "unlisting", !.line = pointer, !.read = index]
                   ELSE Resting)
        /\ UNCHANGED <<memory, memOps, memFaults, told, lost, erased, undisturbed>>

\* A call that is about to write a file over.
WritesOver(op) ==
    /\ op.at \in Rewriting
    /\ op.at = "edit" /\ op.topic # NoTopic => RewrittenLines(op) # {}

\* The template that a session writes has no content.
Rewritten(op) ==
    LET lines == RewrittenLines(op)
    IN  [exists |-> TRUE, meaningful |-> (op.at # "open" \/ lines # {}), lines |-> lines]

\* editMemory, removeIndexPointer or the opening writes the file from what it had read.
RewriteMemory(p) ==
    LET op == memOp[p]
    IN  /\ WritesOver(op) /\ Landed(op)
        /\ memory' = [memory EXCEPT ![op.topic] = Rewritten(op)]
        /\ memOp' = SeenByNone(op.topic, RewrittenLines(op) \ memory[op.topic].lines,
                               [memOp EXCEPT ![p] = Resting])
        /\ UNCHANGED <<memOps, memFaults, undisturbed>>

-----------------------------------------------------------------------------
(* What the tools do not control.                                          *)

Fault == memFaults < MaxFaults /\ memFaults' = memFaults + 1 /\ undisturbed' = FALSE

\* The process ends, or a file cannot be opened: the call goes no further.
StopMidway(p) ==
    /\ memOp[p].at # "idle" /\ Fault /\ Step(p, Resting)
    /\ UNCHANGED <<memory, memOps, told, lost, erased>>

\* An append is cut short: the file is there, perhaps with the heading, without the line.
AppendCutShort(p, content) ==
    LET op == memOp[p]
        f == IF op.at = "pointer" THEN NoTopic ELSE op.topic
        line == IF op.at = "pointer" THEN Pointer(op.topic) ELSE op.line
        lines == memory[f].lines
    IN  /\ op.at \in {"save", "pointer"} /\ Fault /\ Step(p, Resting)
        /\ line \notin lines /\ ~IsFull(f, lines \union {line})
        /\ memory' = [memory EXCEPT ![f] =
               [exists |-> TRUE, meaningful |-> (@.meaningful \/ content), lines |-> lines]]
        /\ UNCHANGED <<memOps, told, lost, erased>>

\* A write over a file is cut short, after the file was emptied: it keeps some of the
\* lines, a heading or nothing at all.  A line cut in its middle is none.
RewriteCutShort(p, kept, content) ==
    LET op == memOp[p] old == memory[op.topic].lines
    IN  /\ WritesOver(op) /\ Fault
        /\ kept \subseteq RewrittenLines(op) /\ (kept # {} => content)
        /\ memory' = [memory EXCEPT ![op.topic] = [exists |-> TRUE, meaningful |-> content, lines |-> kept]]
        /\ memOp' = SeenByNone(op.topic, kept \ old, [memOp EXCEPT ![p] = Resting])
        /\ lost' = lost \union {<<op.topic, l>> : l \in old \ kept}
        /\ UNCHANGED <<memOps, told, erased>>

\* The user removes a line in an editor.
HandEdit(topic, line) ==
    /\ line \in memory[topic].lines /\ Fault
    /\ memory' = [memory EXCEPT ![topic].lines = @ \ {line}]
    /\ told' = told \ {<<topic, line>>}
    /\ UNCHANGED <<memOp, memOps, lost, erased>>

\* recall_memory reads one topic.
RecallMemory(topic) == IF memory[topic].exists THEN memory[topic].lines ELSE {}

-----------------------------------------------------------------------------

MemoryInit ==
    /\ memory = [f \in MemoryFiles |-> NoMemoryFile]
    /\ memOp = [p \in Processes |-> Resting]
    /\ memOps = 0 /\ memFaults = 0
    /\ told = {} /\ lost = {} /\ erased = {} /\ undisturbed = TRUE

MemoryNext ==
    \/ \E p \in Processes :
        \/ \E copied \in {Legacy, {}} : OpenMemory(p, copied)
        \/ \E t \in MemoryFiles, w \in Facts : SaveMemory(p, t, w)
        \/ \E t \in MemoryFiles, w \in Facts \union {{s} : s \in Topics} :
               \E new \in {NoLine} \union {Fact(v) : v \in Facts} : EditMemory(p, t, w, new)
        \/ DeclineMemory(p) \/ AppendBullet(p) \/ EnsureIndexPointer(p)
        \/ RewriteMemory(p) \/ DissolveTopic(p) \/ RemoveIndexPointer(p) \/ StopMidway(p)
        \/ \E content \in BOOLEAN : AppendCutShort(p, content)
        \/ \E kept \in SUBSET RewrittenLines(memOp[p]), content \in BOOLEAN : RewriteCutShort(p, kept, content)
    \/ \E t \in MemoryFiles : \E l \in memory[t].lines : HandEdit(t, l)

MemorySpec == MemoryInit /\ [][MemoryNext]_memoryVars

-----------------------------------------------------------------------------

\* An entry the model was told is saved is found in its file until an edit removes it, or
\* it is one of two losses the code allows.  Another session wrote it after the file was
\* read and before it was written over: by an edit that waited for the user, when a topic
\* was taken off the index, when a session opened.  Or the write over the file was cut
\* short.  What a write had read it keeps, and no refused, failed or overlapping call
\* loses anything else.
SavedIsKept ==
    \A entry \in told : entry[2] \in memory[entry[1]].lines \/ entry \in lost

\* The index never lists an empty topic, and an entry that was removed does not
\* come back, as long as no calls overlap and none stops between its two writes:
\* not through the topic's dissolution nor through the copy of the legacy file.
IndexIsTidy ==
    undisturbed =>
        /\ \A entry \in erased : entry[2] \notin memory[entry[1]].lines
        /\ \A t \in Topics :
               (Pointer(t) \in memory[NoTopic].lines /\ \A p \in Processes : memOp[p].at = "idle")
                   => RecallMemory(t) # {}

\* The files hold what the model was told and the index lists what is there.
MemoryIsTrue == SavedIsKept /\ IndexIsTidy
=============================================================================
