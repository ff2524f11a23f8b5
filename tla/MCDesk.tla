------------------------------- MODULE MCDesk -------------------------------
(***************************************************************************)
(* Model-checking instance of what happens on the user's machine: the      *)
(* classification of shell commands (ShellGates), edits and patches of a   *)
(* text (TextEdit), the file tools with their guard and checkpoints        *)
(* (Workspace, Permissions), the session on the screen (Terminal), its     *)
(* dialogs (Dialogs) and the prompt being composed (Pastes), the ledger on *)
(* disk (SessionLog), the conversation and its reclamation (Conversation), *)
(* what the model is told of the project (ProjectContext, Memory, Skills), *)
(* its to-dos (Checklist), the review gate (ReviewGate), and the lists of  *)
(* models and secrets (Catalog, McpSecrets).  They share no state, so a    *)
(* behaviour moves one of them:                                            *)
(* focus names it, and the others keep one initial state.                  *)
(***************************************************************************)
EXTENDS ShellGates, TextEdit, Workspace, Screen, Dialogs,
        SessionLog, Conversation, ProjectContext, AtHand, ReviewGate, Catalog, McpSecrets

VARIABLE focus

-----------------------------------------------------------------------------
(* TextEdit.                                                               *)

Strings(letters, n) == UNION {[1..k -> letters] : k \in 0..n}

MCTexts ==
    Strings({"x", "sp", "lf", "crlf"}, 3) \union Strings({"x", "lf", "crlf"}, 4)
        \union Strings({"x", "dash", "lf"}, 4)

SimpleEdits ==
    {[old |-> o, new |-> n, all |-> a] :
        o \in Strings({"x", "sp", "lf"}, 2) \ {<<>>}, n \in {<<>>, <<"y">>, <<"y", "lf">>},
        a \in BOOLEAN}

MCEdits ==
    LET small == {e \in SimpleEdits : Len(e.old) = 1 /\ ~e.all}
        shorter == {e \in small : Len(e.new) = 1}
    IN  {<<e>> : e \in SimpleEdits} \union {<<e, f>> : e \in small, f \in shorter}

MCDiffTargets == Strings({"x", "dash", "lf"}, 4)

-----------------------------------------------------------------------------
(* Workspace: a file to change, one to create or a big one, one outside.   *)

MCDisks == {[p |-> "a", q |-> q, out |-> "a"] : q \in {"big", "absent"}}

\* Two calls, the second of one file, or one and a change by another program; the
\* mode stays.
FilesBounded ==
    /\ calls' + externals' <= 2 /\ toggles' = 0
    /\ calls' = 2 => Len(call'.work) <= 1

-----------------------------------------------------------------------------
(* Terminal: the second session is shorter than a page.                    *)

MCStored == [s \in Sessions |-> IF s = First THEN 3 ELSE 1]

TerminalBounded == typed' + switched' + run'.answers <= 3

-----------------------------------------------------------------------------
(* Pastes: nothing follows a step that releases what a label needs.        *)

PastesBounded == ~torn

-----------------------------------------------------------------------------
(* Conversation: a steering message or a notice, a call with long          *)
(* arguments, and a large result that is an error or not.                  *)

Kind(role, weight, bad) == [role |-> role, weight |-> weight, bad |-> bad]

MCKinds == {Kind("user", 1, FALSE), Kind("assistant", 4, FALSE), Kind("tool", 4, FALSE), Kind("tool", 4, TRUE)}

\* One result at a time is stale; four messages and a reclamation, or three and two.
TalkBounded == Cardinality(superseded') <= 1 /\ said' + tidied' <= MaxMessages + 1

-----------------------------------------------------------------------------
(* Memory: one fact contains the other, and was in the legacy file.        *)

MCFacts == {{"x"}, {"x", "y"}}
MCLegacy == {{"x"}}

-----------------------------------------------------------------------------
(* ProjectContext: an index whose second text begins like its first.       *)

MCBeginning == [t \in DocTexts \ Unloadable |-> "v1"]

-----------------------------------------------------------------------------
(* Checklist: prose and one item, and two items of which one goes on.      *)

Line(box, title, marker) == [box |-> box, title |-> title, marker |-> marker]

\* Three writes, or two around a change of session.
ListBounded == writes' + builds' <= MaxWrites

MCChecklists ==
    {<<>>, <<Line("prose", "note", ""), Line("o", "a", "")>>,
     <<Line("x", "a", "in progress"), Line("x", "b", "")>>}

-----------------------------------------------------------------------------
(* Skills: one in the user's root only, one that the project may have too. *)

MCShelves ==
    {f \in [Roots \X SkillNames -> {"good", "bad", "gone"}] :
        f[<<1, 2>>] = "gone" /\ f[<<2, 2>>] = "good"}

-----------------------------------------------------------------------------
(* Catalog: the gateway's lists, one with a name it had listed with         *)
(* another id, one of a model called like a user's.                        *)

Listed(id, name) == [id |-> id, name |-> name]

MCListings ==
    {<<>>, <<Listed("a", "A")>>, <<Listed("a", "A"), Listed("b", "B")>>, <<Listed("b", "A")>>,
     <<Listed("B", "B")>>}

\* Two lists and a model, or two models and a list.
CatalogBounded == discoveries' + sets' <= 3

MCRank == [l \in Labels |-> CASE l = "B" -> 2 [] l = "A" -> 1 [] OTHER -> 0]

-----------------------------------------------------------------------------
(* McpSecrets: the first grant, if there is one, is of the first server.   *)

FirstServer == CHOOSE s \in McpServers : TRUE

FirstGrant == newest = <<>> \/ secrets.oauth[FirstServer].grant = 1

\* Two jobs, or three of which a manager's rounds have two.
SecretsBounded ==
    Len(jobs') = MaxJobs =>
        \E i, k \in DOMAIN jobs' :
            /\ i # k /\ jobs'[i].kind = "connect" /\ jobs'[k].kind = "connect"
            /\ jobs'[i].manager = jobs'[k].manager

-----------------------------------------------------------------------------

FirstText == CHOOSE t \in MCTexts : t = <<>>
FirstDisk == CHOOSE d \in MCDisks : d["q"] = "absent"
FirstShelf == CHOOSE f \in MCShelves : f[<<1, 1>>] = "good" /\ f[<<2, 1>>] = "good"

Foci == {"gates", "text", "guard", "files", "terminal", "dialogs", "paste",
         "log", "talk", "context", "memory", "list", "skills", "review", "catalog", "secrets"}

\* A choice is cut down where it is made, before the next one multiplies it.
Init ==
    /\ focus \in Foci
    /\ ShellInit
    /\ TextInit /\ (focus # "text" => text = FirstText)
    /\ WorkspaceInit /\ (focus # "files" => disk = FirstDisk)
    /\ PermissionsInit /\ (focus # "guard" => trusted /\ mode = "normal")
    /\ TerminalInit
    /\ DialogsInit /\ (focus # "dialogs" => signedIn)
    /\ PastesInit /\ LogInit /\ TalkInit /\ ContextInit /\ MemoryInit /\ ListInit
    /\ SkillsInit /\ (focus # "skills" => shelf = FirstShelf)
    /\ ReviewInit /\ CatalogInit
    /\ SecretsInit /\ FirstGrant /\ (focus # "secrets" => newest = <<1>>)

filesVars == <<guardVars, workspaceVars>>
composeVars == <<dialogVars, pasteVars>>
deskVars == <<shellVars, textVars, filesVars, terminalVars, composeVars, logVars>>
tellVars == <<talkVars, contextVars, memoryVars, listVars, skillVars>>
keepVars == <<review, catalogVars, secretVars>>

\* What the user does, what the model is told, what is kept.
DeskNext ==
    \/ /\ focus = "gates" /\ ShellNext
       /\ UNCHANGED <<textVars, filesVars, terminalVars, composeVars, logVars>>
    \/ /\ focus = "text" /\ TextNext
       /\ UNCHANGED <<shellVars, filesVars, terminalVars, composeVars, logVars>>
    \/ /\ focus = "guard" /\ PermissionsNext
       /\ UNCHANGED <<shellVars, textVars, workspaceVars, terminalVars, composeVars, logVars>>
    \/ /\ focus = "files" /\ WorkspaceNext /\ FilesBounded
       /\ UNCHANGED <<shellVars, textVars, terminalVars, composeVars, logVars>>
    \/ /\ focus = "terminal" /\ TerminalNext /\ TerminalBounded
       /\ UNCHANGED <<shellVars, textVars, filesVars, composeVars, logVars>>
    \/ /\ focus = "dialogs" /\ DialogsNext
       /\ UNCHANGED <<shellVars, textVars, filesVars, terminalVars, pasteVars, logVars>>
    \/ /\ focus = "paste" /\ PastesNext /\ PastesBounded
       /\ UNCHANGED <<shellVars, textVars, filesVars, terminalVars, dialogVars, logVars>>
    \/ /\ focus = "log" /\ LogNext
       /\ UNCHANGED <<shellVars, textVars, filesVars, terminalVars, composeVars>>

TellNext ==
    \/ /\ focus = "talk" /\ TalkNext /\ TalkBounded
       /\ UNCHANGED <<contextVars, memoryVars, listVars, skillVars>>
    \/ /\ focus = "context" /\ ContextNext
       /\ UNCHANGED <<talkVars, memoryVars, listVars, skillVars>>
    \/ /\ focus = "memory" /\ MemoryNext
       /\ UNCHANGED <<talkVars, contextVars, listVars, skillVars>>
    \/ /\ focus = "list" /\ ListNext /\ ListBounded
       /\ UNCHANGED <<talkVars, contextVars, memoryVars, skillVars>>
    \/ /\ focus = "skills" /\ SkillsNext
       /\ UNCHANGED <<talkVars, contextVars, memoryVars, listVars>>

KeepNext ==
    \/ focus = "review" /\ ReviewNext /\ UNCHANGED <<catalogVars, secretVars>>
    \/ focus = "catalog" /\ CatalogNext /\ CatalogBounded /\ UNCHANGED <<review, secretVars>>
    \/ focus = "secrets" /\ SecretsNext /\ SecretsBounded /\ UNCHANGED <<review, catalogVars>>

Next ==
    /\ UNCHANGED focus
    /\ \/ DeskNext /\ UNCHANGED <<tellVars, keepVars>>
       \/ TellNext /\ UNCHANGED <<deskVars, keepVars>>
       \/ KeepNext /\ UNCHANGED <<deskVars, tellVars>>

vars == <<deskVars, tellVars, keepVars, focus>>

Spec == Init /\ [][Next]_vars
=============================================================================
