---------------------------- MODULE ProjectContext ----------------------------
(***************************************************************************)
(* What a session tells the model of the project's documents, MUHIYA.md    *)
(* and the index of its memory (command/runtime_build.go, orchestrator/    *)
(* turnloop.go, state/project_context.go, workspace/project_context.go).   *)
(* The prefix carries them as they were when the session was created; the  *)
(* sidecar project_context.json keeps that block and the versions the      *)
(* model was told since, and a change is appended to the conversation, in  *)
(* history.json, with the next task.                                       *)
(*                                                                         *)
(* A document is told as its loader makes it: its text, of the index only  *)
(* the beginning, or Nothing when it is missing, empty, too big, not text, *)
(* outside the workspace or seems to hold a credential.                    *)
(***************************************************************************)
EXTENDS Naturals

CONSTANTS
    Docs, Instructions,     \* the documents; the one at the workspace's root
    DocTexts, Nothing,      \* what they may say
    Unloadable,                \* texts that are not loaded
    Beginning,              \* text -> the text of its first 200 lines or 25 KiB
    Unknown,                \* a sidecar or a block that is not there
    MaxEdits, MaxTasks, MaxOpens, MaxTroubles   \* bounds

ASSUME ContextAssumption ==
    /\ Instructions \in Docs /\ Unloadable \subseteq DocTexts
    /\ Beginning \in [DocTexts \ Unloadable -> DocTexts \ Unloadable]
    /\ Nothing \notin DocTexts /\ Unknown \notin DocTexts \union {Nothing}
    /\ LET Block == [Docs -> DocTexts \union {Nothing}]
       IN  Unknown \notin [boot : Block, applied : Block]
    /\ {MaxEdits, MaxTasks, MaxOpens, MaxTroubles} \subseteq Nat

VARIABLES
    docs,      \* the documents now
    sidecar,   \* project_context.json: the block of the prefix and what was applied since
    talkFile,  \* history.json: the last update of each document in the conversation
    context,   \* the open engine: its block, what it applied, what it saved, its conversation
    firstBoot, \* history: the block of the session's first request
    lastSeen,  \* history: what the last task's load of the documents gave
    edits, tasks, opens, troubles,
    sidecarLost,   \* history: the sidecar was lost, or its first write failed
    unread,        \* history: a start could not read the sidecar
    cursorLost,    \* history: a write of what was applied failed
    talkLost,      \* history: an update left the conversation, by compaction or a failed write
    repeated       \* history: an update was told that was in force already
contextVars == <<docs, sidecar, talkFile, context, firstBoot, lastSeen, edits, tasks, opens, troubles,
                 sidecarLost, unread, cursorLost, talkLost, repeated>>

NoBlocks == [d \in Docs |-> Unknown]
ClosedContext == [open |-> FALSE, boot |-> Unknown, applied |-> Unknown, saved |-> Unknown,
                  talk |-> NoBlocks, inTask |-> FALSE]

\* A trouble is used up by what goes wrong in a step.
Trouble(wrong) == troubles' = troubles + (IF wrong THEN 1 ELSE 0) /\ troubles' <= MaxTroubles

-----------------------------------------------------------------------------
(* The loaders.                                                            *)

\* It is text, says something beside its comments, and holds no known secret.
IsLoadable(text) == text \in DocTexts \ Unloadable

LoadRootDoc(text) == IF IsLoadable(text) THEN text ELSE Nothing

\* loadTrustedDoc and boundDocHead, for the index of the memory.
LoadTrustedDoc(text) == IF IsLoadable(text) THEN Beginning[text] ELSE Nothing

\* The documents as they are read; one that cannot be read this once is Nothing.
Loaded(blinking) ==
    [d \in Docs |-> IF d \in blinking THEN Nothing
                    ELSE IF d = Instructions THEN LoadRootDoc(docs[d]) ELSE LoadTrustedDoc(docs[d])]

EditDoc(d, text) ==
    /\ edits < MaxEdits /\ text # docs[d] /\ docs' = [docs EXCEPT ![d] = text] /\ edits' = edits + 1
    /\ UNCHANGED <<sidecar, talkFile, context, firstBoot, lastSeen, tasks, opens, troubles,
                   sidecarLost, unread, cursorLost, talkLost, repeated>>

-----------------------------------------------------------------------------
(* A start.                                                                *)

\* ReadProjectContext: a snapshot for this workspace and this format is restored.
Restored(snapshot) ==
    [open |-> TRUE, boot |-> snapshot.boot, applied |-> snapshot.applied, saved |-> snapshot,
     talk |-> talkFile, inTask |-> FALSE]

\* Elsewhere the block is rendered from the documents.
Bootstrapped(loaded) == Restored([boot |-> loaded, applied |-> loaded])

\* buildRuntime.  A snapshot is written only when there was none to read.
OpenSession(cannotRead, writeFails, blinking) ==
    LET fresh == Bootstrapped(Loaded(blinking)) IN
    /\ ~context.open /\ opens < MaxOpens /\ opens' = opens + 1
    /\ Trouble(cannotRead \/ writeFails \/ blinking # {})
    /\ IF sidecar # Unknown /\ ~cannotRead
       THEN /\ ~writeFails /\ blinking = {} /\ context' = Restored(sidecar)
            /\ UNCHANGED <<sidecar, sidecarLost, unread>>
       ELSE /\ context' = fresh
            /\ sidecar' = IF cannotRead \/ writeFails THEN sidecar ELSE fresh.saved
            /\ sidecarLost' = (sidecarLost \/ writeFails \/ (cannotRead /\ sidecar = Unknown))
            /\ unread' = (unread \/ cannotRead)
    /\ UNCHANGED <<docs, talkFile, firstBoot, lastSeen, edits, tasks, cursorLost, talkLost, repeated>>

\* The sidecar is damaged, of an older format or of another workspace: a start
\* moves it out of the way.
LoseSidecar ==
    /\ sidecar # Unknown /\ sidecar' = Unknown /\ sidecarLost' = TRUE /\ Trouble(TRUE)
    /\ UNCHANGED <<docs, talkFile, context, firstBoot, lastSeen, edits, tasks, opens,
                   unread, cursorLost, talkLost, repeated>>

-----------------------------------------------------------------------------
(* A task.                                                                 *)

\* What the model reads of a document: the last update in the conversation, and
\* before there is one the block of the prefix.
InForce(d) == IF context.talk[d] # Unknown THEN context.talk[d] ELSE context.boot[d]

\* persistProjectCursor: only a change is written, over whatever the sidecar holds.
PersistProjectCursor(loaded, fails) ==
    IF loaded = context.saved.applied
    THEN ~fails /\ UNCHANGED <<sidecar, cursorLost>>
    ELSE /\ sidecar' = IF fails THEN sidecar ELSE [context.saved EXCEPT !.applied = loaded]
         /\ cursorLost' = (cursorLost \/ fails)

\* A mutated form: a document is compared with the prefix.
ChangedSinceBoot(loaded) == {d \in Docs : loaded[d] # context.boot[d]}

ChangedSinceApplied(loaded) == {d \in Docs : loaded[d] # context.applied[d]}

\* Run: a document that differs from what was applied is appended to the message,
\* whose write may fail unseen.
BeginTask(blinking, talkFails, cursorFails) ==
    LET loaded == Loaded(blinking)
        changed == ChangedSinceApplied(loaded)
        talk == [d \in Docs |-> IF d \in changed THEN loaded[d] ELSE context.talk[d]]
    IN  /\ context.open /\ ~context.inTask /\ tasks < MaxTasks /\ tasks' = tasks + 1
        /\ Trouble(blinking # {} \/ talkFails \/ cursorFails)
        /\ context' = [context EXCEPT !.talk = talk, !.applied = loaded, !.inTask = TRUE,
                                      !.saved.applied = loaded]
        /\ PersistProjectCursor(loaded, cursorFails)
        /\ talkFile' = IF talkFails THEN talkFile ELSE talk
        /\ firstBoot' = IF firstBoot = Unknown THEN context.boot ELSE firstBoot
        /\ lastSeen' = loaded /\ repeated' = (repeated \/ \E d \in changed : loaded[d] = InForce(d))
        /\ UNCHANGED <<docs, edits, opens, sidecarLost, unread, talkLost>>

\* The task ends; its last messages wrote the whole conversation again.
EndTask ==
    /\ context.inTask /\ context' = [context EXCEPT !.inTask = FALSE] /\ talkFile' = context.talk
    /\ UNCHANGED <<docs, sidecar, firstBoot, lastSeen, edits, tasks, opens, troubles,
                   sidecarLost, unread, cursorLost, talkLost, repeated>>

\* Compaction or trimming takes an old message out of the conversation.
Compact(d) ==
    /\ context.inTask /\ context.talk[d] # Unknown
    /\ context' = [context EXCEPT !.talk[d] = Unknown] /\ talkFile' = context'.talk /\ talkLost' = TRUE
    /\ Trouble(TRUE)
    /\ UNCHANGED <<docs, sidecar, firstBoot, lastSeen, edits, tasks, opens, sidecarLost, unread, cursorLost, repeated>>

\* The application ends, in or between tasks.
CloseContext ==
    /\ context.open /\ context' = ClosedContext /\ talkLost' = (talkLost \/ talkFile # context.talk)
    /\ UNCHANGED <<docs, sidecar, talkFile, firstBoot, lastSeen, edits, tasks, opens, troubles,
                   sidecarLost, unread, cursorLost, repeated>>

-----------------------------------------------------------------------------

ContextInit ==
    /\ docs = [d \in Docs |-> Nothing]
    /\ sidecar = Unknown /\ talkFile = NoBlocks /\ context = ClosedContext
    /\ firstBoot = Unknown /\ lastSeen = Unknown
    /\ edits = 0 /\ tasks = 0 /\ opens = 0 /\ troubles = 0
    /\ sidecarLost = FALSE /\ unread = FALSE /\ cursorLost = FALSE /\ talkLost = FALSE /\ repeated = FALSE

ContextNext ==
    \/ \E d \in Docs, text \in DocTexts \union {Nothing} : EditDoc(d, text)
    \/ \E cannotRead, writeFails \in BOOLEAN, blinking \in SUBSET Docs :
           OpenSession(cannotRead, writeFails, blinking)
    \/ \E blinking \in SUBSET Docs, talkFails, cursorFails \in BOOLEAN :
           BeginTask(blinking, talkFails, cursorFails)
    \/ LoseSidecar \/ EndTask \/ (\E d \in Docs : Compact(d)) \/ CloseContext

ContextSpec == ContextInit /\ [][ContextNext]_contextVars

-----------------------------------------------------------------------------

\* A session resumes with the bytes of its first request, whatever happened to the
\* documents since: only a lost sidecar or a start that could not read it changes them.
BootIsStable ==
    (context.open /\ firstBoot # Unknown /\ ~sidecarLost /\ ~unread) => context.boot = firstBoot

\* In a task the model reads every document as it was when the task began, across
\* restarts, and never an update that an older one or the prefix contradicts.  Nothing
\* is said once the sidecar, a write of the cursor or an update was lost.
EditsReachTheModel ==
    (context.inTask /\ ~sidecarLost /\ ~unread /\ ~cursorLost /\ ~talkLost) =>
        \A d \in Docs : InForce(d) = lastSeen[d]

\* It is told of a change once: again only after what was applied was lost.
ToldOnce == repeated => cursorLost \/ sidecarLost \/ unread \/ talkLost

\* A session keeps its prefix and follows its documents by updates told once.
ContextIsTrue == BootIsStable /\ EditsReachTheModel /\ ToldOnce
=============================================================================
