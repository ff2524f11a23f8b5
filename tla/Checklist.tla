------------------------------ MODULE Checklist ------------------------------
(***************************************************************************)
(* The list of to-dos (orchestrator/checklist.go): the model keeps it in a *)
(* tasks.md, wherever it likes, with ordinary file tools; the engine reads *)
(* the file again when a tool has written one, the terminal shows what it  *)
(* read, and the answer that ends a task names what is still open.         *)
(*                                                                         *)
(* A line is an item, with its box and the marker after its title, or it   *)
(* is prose.  Plans are on their way to the terminal as messages, and a    *)
(* session is built, which publishes its list, before it is adopted.       *)
(***************************************************************************)
EXTENDS Naturals, Sequences, FiniteSets, SequencesExt

CONSTANTS
    ListPlaces, Root,      \* directories that may hold a tasks.md; the workspace's root
    Checklists,        \* contents of a tasks.md: sequences of lines; <<>> when there is none
    MaxWrites, MaxBuilds   \* bounds

ASSUME ChecklistAssumption ==
    /\ Root \in ListPlaces /\ <<>> \in Checklists
    /\ Checklists \subseteq Seq(UNION {ToSet(lines) : lines \in Checklists})
    /\ MaxWrites \in Nat /\ MaxBuilds \in Nat

VARIABLES
    files,      \* place -> the tasks.md there
    keeper,     \* the engine the terminal runs: activeChecklistPath and checklist
    former,     \* the engine of the session before, while a task still runs in it
    built,      \* engines built and not yet adopted
    mail,       \* plans sent to the terminal and not shown
    panel,      \* Model.plan
    disclosed,  \* history: what the last answer named as open, and the list of then
    writes, builds,
    stale,      \* history: the active file changed and the engine did not read it
    misplaced   \* history: the terminal was sent a list of another session

listVars == <<files, keeper, former, built, mail, panel, disclosed, writes, builds, stale, misplaced>>

NoPlace == "none"

-----------------------------------------------------------------------------
(* Reading.                                                                *)

IsItem(line) == line.box # "prose" /\ line.title # ""

\* A checked box is done, and a marker that says so is in progress whatever the box.
Status(line) ==
    CASE line.marker = "in progress" -> "in progress"
      [] line.marker # "in progress" /\ line.box = "x" -> "completed"
      [] OTHER -> "pending"

\* ParseChecklist: the items in their order; the prose is a note nobody compares.
ParseChecklist(lines) ==
    FlattenSeq([i \in DOMAIN lines |->
        IF IsItem(lines[i]) THEN <<[title |-> lines[i].title, status |-> Status(lines[i])]>> ELSE <<>>])

\* checklistPath: the last one written in this session, or the root's.
ChecklistPath(active) == IF active = NoPlace THEN Root ELSE active

OpenItems(steps) ==
    FlattenSeq([i \in DOMAIN steps |-> IF steps[i].status = "completed" THEN <<>> ELSE <<steps[i]>>])

\* refreshChecklist, for the engine that is running: only a change is published.
RefreshChecklist(active, contents) ==
    LET steps == ParseChecklist(contents[ChecklistPath(active)])
    IN  /\ keeper' = [active |-> active, steps |-> steps]
        /\ mail' = IF steps = keeper.steps THEN mail ELSE Append(mail, [of |-> "keeper", steps |-> steps])
        /\ stale' = FALSE

-----------------------------------------------------------------------------
(* Writing.                                                                *)

\* A mutated form: the list is read before its place is known.
AdoptAfterRefresh(targets, contents) ==
    LET steps == ParseChecklist(contents[ChecklistPath(keeper.active)])
    IN  /\ keeper' = [active |-> targets[1], steps |-> steps]
        /\ mail' = IF steps = keeper.steps THEN mail ELSE Append(mail, [of |-> "keeper", steps |-> steps])
        /\ stale' = FALSE

\* executeTool, after a call that succeeded: the first tasks.md it wrote is the
\* active one from now on, and is read.
AdoptAndRefresh(targets, contents) ==
    RefreshChecklist(targets[1], contents)

\* write_file, edit_file or multi_edit with one target, apply_patch with several.
ToolWrites(targets, content) ==
    LET after == [p \in ListPlaces |-> IF p \in ToSet(targets) THEN content ELSE files[p]]
    IN  /\ writes < MaxWrites /\ writes' = writes + 1
        /\ files' = after /\ AdoptAndRefresh(targets, after)
        /\ UNCHANGED <<former, built, panel, disclosed, builds, misplaced>>

\* The shell, the user's editor, or a call that failed after it had written.
OthersWrite(place, content) ==
    /\ writes < MaxWrites /\ writes' = writes + 1
    /\ files' = [files EXCEPT ![place] = content]
    /\ stale' = (stale \/ place = ChecklistPath(keeper.active))
    /\ UNCHANGED <<keeper, former, built, mail, panel, disclosed, builds, misplaced>>

\* appendCompletionDisclosure, when a task ends: at most three of the open items.
Disclose ==
    LET open == OpenItems(keeper.steps)
    IN  /\ disclosed' = [named |-> SubSeq(open, 1, IF Len(open) < 3 THEN Len(open) ELSE 3), open |-> Len(open),
                         file |-> files[ChecklistPath(keeper.active)], current |-> ~stale]
        /\ UNCHANGED <<files, keeper, former, built, mail, panel, writes, builds, stale, misplaced>>

-----------------------------------------------------------------------------
(* The terminal and its sessions.                                          *)

\* planMsg carries no session.
ShowPlan ==
    /\ mail # <<>> /\ panel' = Head(mail).steps /\ mail' = Tail(mail)
    /\ UNCHANGED <<files, keeper, former, built, disclosed, writes, builds, stale, misplaced>>

\* New, for a start or a switch: the root's list is read and, if it has items, sent.
BuildSession ==
    LET steps == ParseChecklist(files[Root])
    IN  /\ built = {} /\ builds < MaxBuilds /\ builds' = builds + 1
        /\ built' = {[active |-> NoPlace, steps |-> steps]}
        /\ mail' = IF steps = <<>> THEN mail ELSE Append(mail, [of |-> "built", steps |-> steps])
        /\ UNCHANGED <<files, keeper, former, panel, disclosed, writes, stale, misplaced>>

\* The result of the switch comes after what its own engine sent.  A task that began
\* meanwhile goes on in the engine of before.
AdoptSession(engine, busy) ==
    /\ \A i \in DOMAIN mail : mail[i].of # "built"
    /\ built' = {} /\ keeper' = engine /\ panel' = engine.steps
    /\ former' = IF busy THEN {keeper} ELSE {}
    /\ stale' = (engine.steps # ParseChecklist(files[Root])) /\ misplaced' = (mail # <<>>)
    /\ UNCHANGED <<files, mail, disclosed, writes, builds>>

\* buildRuntime failed after the engine was there.
BuildFails ==
    /\ built # {} /\ built' = {} /\ misplaced' = TRUE
    /\ UNCHANGED <<files, keeper, former, mail, panel, disclosed, writes, builds, stale>>

\* A tasks.md is written in the task of before; its plan is shown like any other.
FormerWrites(engine, place, content) ==
    LET steps == ParseChecklist(content)
    IN  /\ writes < MaxWrites /\ writes' = writes + 1
        /\ files' = [files EXCEPT ![place] = content]
        /\ former' = {[active |-> place, steps |-> steps]}
        /\ mail' = IF steps = engine.steps THEN mail ELSE Append(mail, [of |-> "former", steps |-> steps])
        /\ misplaced' = TRUE /\ stale' = (stale \/ place = ChecklistPath(keeper.active))
        /\ UNCHANGED <<keeper, built, panel, disclosed, builds>>

-----------------------------------------------------------------------------

NothingDisclosed == [named |-> <<>>, open |-> 0, file |-> <<>>, current |-> FALSE]

ListInit ==
    /\ files = [p \in ListPlaces |-> <<>>]
    /\ keeper = [active |-> NoPlace, steps |-> <<>>] /\ former = {} /\ built = {}
    /\ mail = <<>> /\ panel = <<>> /\ disclosed = NothingDisclosed
    /\ writes = 0 /\ builds = 0 /\ stale = FALSE /\ misplaced = FALSE

ListNext ==
    \/ \E content \in Checklists :
        \/ \E p \in ListPlaces : OthersWrite(p, content)
        \/ \E targets \in {<<p>> : p \in ListPlaces} \union {<<p, q>> : p, q \in ListPlaces} : ToolWrites(targets, content)
        \/ \E engine \in former, p \in ListPlaces : FormerWrites(engine, p, content)
    \/ Disclose \/ ShowPlan \/ BuildSession \/ BuildFails
    \/ \E engine \in built, busy \in BOOLEAN : AdoptSession(engine, busy)

ListSpec == ListInit /\ [][ListNext]_listVars

-----------------------------------------------------------------------------

\* The line's item is still to be done, as the model wrote it.
ToDo(line) == IsItem(line) /\ (line.box # "x" \/ line.marker = "in progress")

\* The list on the screen, the one behind the answer and the one in the file are the
\* same, wherever the model keeps it and however sessions are opened: unless something
\* other than a tool changed the file since, or another session's list was sent.
ChecklistIsTrue ==
    /\ ~stale => keeper.steps = ParseChecklist(files[ChecklistPath(keeper.active)])
    /\ (mail = <<>> /\ built = {} /\ ~misplaced) => panel = keeper.steps
    /\ disclosed.current =>
        LET left == {i \in DOMAIN disclosed.file : ToDo(disclosed.file[i])}
        IN  /\ disclosed.open = Cardinality(left)
            /\ \A k \in DOMAIN disclosed.named :
                   \E i \in left : disclosed.file[i].title = disclosed.named[k].title
=============================================================================
