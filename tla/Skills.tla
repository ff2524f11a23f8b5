-------------------------------- MODULE Skills --------------------------------
(***************************************************************************)
(* Skills: files of instructions that the user attaches to a prompt or the *)
(* model reads by name (workspace/skills.go, orchestrator/skills_tool.go,  *)
(* app.AssemblePrompt).  They are found once, when a session is opened,    *)
(* because their list is part of the prefix; their bodies are read when    *)
(* they are wanted.  What the conversation already holds is not sent       *)
(* again, and that is decided by the marker its text carries.              *)
(*                                                                         *)
(* A skill's file is found by its root and its name: it is good, or bad    *)
(* (its front matter can be read, its body is empty or too big), or gone.  *)
(***************************************************************************)
EXTENDS Naturals, Sequences, FiniteSets, SequencesExt, FiniteSetsExt

CONSTANTS
    SkillNames,      \* numbers, in the order of a walk
    Roots,           \* numbers, in the order of precedence: the project's before the user's
    Shelves,         \* what may be installed when the first session is opened
    SkillLimit,      \* of the list (40)
    KeepPrompts,     \* units a compaction leaves (2)
    MaxPutOn, MaxReads, MaxSkillTasks, MaxCompactions, MaxInstalls   \* bounds

ASSUME SkillsAssumption ==
    /\ SkillNames \subseteq Nat /\ Roots \subseteq Nat \ {0} /\ SkillLimit \in Nat /\ KeepPrompts \in Nat \ {0}
    /\ Shelves \subseteq [Roots \X SkillNames -> {"good", "bad", "gone"}]
    /\ {MaxPutOn, MaxReads, MaxSkillTasks, MaxCompactions, MaxInstalls} \subseteq Nat

VARIABLES
    shelf,      \* <<root, name>> -> "good", "bad" or "gone"
    catalog,    \* the session's list: name -> root, 0 when it is not listed
    held,       \* the conversation: prompts and results of reads, with the skills they mark
    provided,   \* taskSkillsProvided
    working,    \* a task runs
    lastRead,       \* history: the last answer to read_skill
    reads, skillTasks, compactions, installs,
    forgot      \* history: a compaction ran in this task

skillVars == <<shelf, catalog, held, provided, working, lastRead, reads, skillTasks, compactions, installs, forgot>>

-----------------------------------------------------------------------------
(* Finding.                                                                *)

\* DiscoverSkills: the roots in their order, the first of a name, up to the limit.
FirstRoot(name) ==
    LET having == {r \in Roots : shelf[<<r, name>>] # "gone"}
    IN  IF having = {} THEN 0 ELSE Min(having)

Discovered ==
    LET before(n, m) == FirstRoot(n) < FirstRoot(m) \/ (FirstRoot(n) = FirstRoot(m) /\ n < m)
        found == {n \in SkillNames : FirstRoot(n) # 0}
    IN  [n \in SkillNames |->
            IF n \in found /\ Cardinality({m \in found : before(m, n)}) < SkillLimit THEN FirstRoot(n) ELSE 0]

\* LoadSkillInstructions
LoadSkill(root, name) == shelf[<<root, name>>] = "good"

Install(root, name, status) ==
    /\ installs < MaxInstalls /\ installs' = installs + 1
    /\ shelf[<<root, name>>] # status /\ shelf' = [shelf EXCEPT ![<<root, name>>] = status]
    /\ UNCHANGED <<catalog, held, provided, working, lastRead, reads, skillTasks, compactions, forgot>>

\* sessionSkillListings, NewSkillCatalog
OpenCatalog ==
    /\ ~working /\ catalog' = Discovered /\ provided' = {}
    /\ catalog' # catalog
    /\ UNCHANGED <<shelf, held, working, lastRead, reads, skillTasks, compactions, installs, forgot>>

-----------------------------------------------------------------------------
(* The conversation.                                                       *)

\* skillNamesIn, of every message: a result keeps its first line when it is folded
\* and its beginning when it is trimmed, and so its marker.
SkillsMarked(messages) == UNION {messages[i].skills : i \in DOMAIN messages}

\* A mutated form: only the prompt is looked at.
SeedFromPrompt(chosen) == chosen

\* seedProvidedSkills, before the prompt is appended.
SeedProvidedSkills(chosen) == chosen \union SkillsMarked(held)

\* AssemblePrompt: the user chooses from what is found now, not when the session began;
\* a body that cannot be read is replaced by the skill's description, under the same marker.
BeginSkillTask(chosen) ==
    /\ ~working /\ skillTasks < MaxSkillTasks /\ skillTasks' = skillTasks + 1
    /\ Cardinality(chosen) <= MaxPutOn /\ \A n \in chosen : Discovered[n] # 0
    /\ working' = TRUE /\ forgot' = FALSE
    /\ provided' = SeedProvidedSkills(chosen)
    /\ held' = Append(held, [by |-> "user", skills |-> chosen,
                             whole |-> {n \in chosen : LoadSkill(Discovered[n], n)}])
    /\ lastRead' = [lastRead EXCEPT !.answer = "none"]
    /\ UNCHANGED <<shelf, catalog, reads, compactions, installs>>

\* Folding or trimming: the results of reads lose their bodies.
Shorten(i) ==
    /\ i \in DOMAIN held /\ held[i].by = "read" /\ held[i].whole # {}
    /\ held' = [held EXCEPT ![i].whole = {}]
    /\ UNCHANGED <<shelf, catalog, provided, working, lastRead, reads, skillTasks, compactions, installs, forgot>>

\* CompactTo: what lies before the newest prompts goes.
CompactSkills ==
    LET prompts == {i \in DOMAIN held : held[i].by = "user"}
        kept == {i \in prompts : Cardinality({j \in prompts : j >= i}) <= KeepPrompts}
    IN  /\ prompts # {} /\ compactions < MaxCompactions /\ compactions' = compactions + 1
        /\ held' = SubSeq(held, Min(kept), Len(held)) /\ forgot' = working
        /\ UNCHANGED <<shelf, catalog, provided, working, lastRead, reads, skillTasks, installs>>

-----------------------------------------------------------------------------
(* read_skill.                                                             *)

AnswerRead(name, answer) == lastRead' = [name |-> name, answer |-> answer, from |-> catalog[name]]

\* readSkillTool: unknown, or already in hand, or unreadable, or its body.
ReadSkill(name) ==
    /\ working /\ reads < MaxReads /\ reads' = reads + 1
    /\ \/ catalog[name] = 0 /\ AnswerRead(name, "unknown") /\ UNCHANGED <<provided, held>>
       \/ catalog[name] # 0 /\ name \in provided /\ AnswerRead(name, "already") /\ UNCHANGED <<provided, held>>
       \/ /\ catalog[name] # 0 /\ name \notin provided /\ ~LoadSkill(catalog[name], name)
          /\ AnswerRead(name, "unreadable") /\ UNCHANGED <<provided, held>>
       \/ /\ catalog[name] # 0 /\ name \notin provided /\ LoadSkill(catalog[name], name)
          /\ AnswerRead(name, "given") /\ provided' = provided \union {name}
          /\ held' = Append(held, [by |-> "read", skills |-> {name}, whole |-> {name}])
    /\ UNCHANGED <<shelf, catalog, working, skillTasks, compactions, installs, forgot>>

EndSkillTask ==
    /\ working /\ working' = FALSE
    /\ UNCHANGED <<shelf, catalog, held, provided, lastRead, reads, skillTasks, compactions, installs, forgot>>

-----------------------------------------------------------------------------

SkillsInit ==
    /\ shelf \in Shelves
    /\ catalog = Discovered /\ held = <<>> /\ provided = {} /\ working = FALSE
    /\ lastRead = [name |-> 0, answer |-> "none", from |-> 0]
    /\ reads = 0 /\ skillTasks = 0 /\ compactions = 0 /\ installs = 0 /\ forgot = FALSE

SkillsNext ==
    \/ \E r \in Roots, n \in SkillNames, status \in {"good", "bad", "gone"} : Install(r, n, status)
    \/ OpenCatalog
    \/ \E chosen \in SUBSET SkillNames : BeginSkillTask(chosen)
    \/ \E i \in DOMAIN held : Shorten(i)
    \/ CompactSkills \/ (\E n \in SkillNames : ReadSkill(n)) \/ EndSkillTask

SkillsSpec == SkillsInit /\ [][SkillsNext]_skillVars

-----------------------------------------------------------------------------

\* No skill is withheld that a compaction took out before the task, and none is read
\* twice into one conversation: whatever was attached, read, shortened, compacted or
\* installed between, a refusal means that the conversation marks the skill, unless it
\* was compacted in this very task, and no two results in it are of one skill.
SkillsComeOnce ==
    /\ (working /\ lastRead.answer = "already" /\ ~forgot) => lastRead.name \in SkillsMarked(held)
    /\ \A i, j \in DOMAIN held :
           (i # j /\ held[i].by = "read" /\ held[j].by = "read") => held[i].skills \cap held[j].skills = {}
=============================================================================
