-------------------------------- MODULE Pastes --------------------------------
(***************************************************************************)
(* The prompt being composed (tui/pastes.go, keys.go, update.go): a large  *)
(* paste is put in a stash and stands in the composer as a label with its  *)
(* number; what is sent has the pasted text in its place.  The composer    *)
(* keeps text only, so a label that lost its stash is sent as it reads.    *)
(*                                                                         *)
(* A part of a prompt is a piece of text or a label; meant is what the     *)
(* user put there, which no part of the program keeps.                     *)
(***************************************************************************)
EXTENDS Naturals, FiniteSets, Sequences, SequencesExt

CONSTANTS
    Blocks,      \* large pastes
    Oversized,   \* those longer than the composer holds (CharLimit)
    Typed, Cut, Label,   \* text typed or pasted small, a block cut short, a label
    MaxParts, MaxPastes, MaxSent   \* bounds

ASSUME PastesAssumption ==
    /\ Oversized \subseteq Blocks /\ {MaxParts, MaxPastes, MaxSent} \subseteq Nat
    /\ {Typed, Cut, Label} \cap Blocks = {} /\ Cardinality({Typed, Cut, Label}) = 3

VARIABLES
    draft,     \* the composer: parts [id, text, meant], id 0 for text
    pendingSubmit,   \* the prompt entered while the workspace loads
    pastes,    \* number -> block
    pasteSeq,
    starting,  \* loading
    tasking,   \* busy
    recall,    \* m.history, and the place in it: 0 for none
    delivered, \* history: the last prompt the engine took, and what was meant
    pasted, sends,
    torn,      \* history: a stash was released that a label still needed
    shortened  \* history: a recalled prompt did not fit the composer

stashVars == <<pastes, pasteSeq, torn>>
sentVars == <<tasking, recall, delivered, sends>>
pasteVars == <<draft, pendingSubmit, starting, stashVars, sentVars, pasted, shortened>>

Text(t) == [id |-> 0, text |-> t, meant |-> t]

\* Numbers whose label is in a prompt.
Labelled(parts) == {parts[i].id : i \in DOMAIN parts} \ {0}

\* expandPastes: a label without a stash stays.
ExpandPastes(parts) ==
    [i \in DOMAIN parts |-> IF parts[i].id \in DOMAIN pastes
                            THEN [parts[i] EXCEPT !.id = 0, !.text = pastes[parts[i].id]] ELSE parts[i]]

NoPastes == [id \in {} |-> Typed]

\* releasePastes; the prompts in kept are still in the composer.
ReleasePastes(kept) ==
    /\ pastes' = NoPastes /\ pasteSeq' = 0
    /\ torn' = (torn \/ Labelled(kept) \cap DOMAIN pastes # {})

-----------------------------------------------------------------------------
(* Composing.                                                              *)

PutIn(part, i) ==
    /\ Len(draft) < MaxParts /\ draft' = InsertAt(draft, i, part)
    /\ UNCHANGED <<pendingSubmit, starting, tasking, recall, delivered, sends, torn, shortened>>

\* A key, or a paste under 1,024 characters and six lines.
TypeText(i) == PutIn(Text(Typed), i) /\ UNCHANGED <<pastes, pasteSeq, pasted>>

\* isLargePaste: the block gets the next number.
PasteBlock(block, i) ==
    LET id == pasteSeq + 1 IN
    /\ pasted < MaxPastes /\ pasted' = pasted + 1
    /\ pasteSeq' = id
    /\ pastes' = [n \in DOMAIN pastes \union {id} |-> IF n = id THEN block ELSE pastes[n]]
    /\ PutIn([id |-> id, text |-> Label, meant |-> block], i)

\* Text or a whole label is deleted by keys: its stash stays.
Erase(i) ==
    /\ draft' = RemoveAt(draft, i)
    /\ UNCHANGED <<pendingSubmit, starting, stashVars, sentVars, pasted, shortened>>

\* A mutated form: the next number follows from the blocks that are left.
NumberAfter(left) == Cardinality(left)

\* The numbers start again when no block is left.
NextNumber(left) == IF left = {} THEN 0 ELSE pasteSeq

\* openPasteManager and removePaste, of a block whose label is in the composer.
RemovePaste(id) ==
    LET left == DOMAIN pastes \ {id} IN
    /\ id \in Labelled(draft) \cap DOMAIN pastes
    /\ draft' = FlattenSeq([i \in DOMAIN draft |-> IF draft[i].id = id THEN <<>> ELSE <<draft[i]>>])
    /\ pastes' = [n \in left |-> pastes[n]]
    /\ pasteSeq' = NextNumber(left)
    /\ torn' = (torn \/ id \in Labelled(pendingSubmit))
    /\ UNCHANGED <<pendingSubmit, starting, tasking, recall, delivered, pasted, sends, shortened>>

\* Esc, Ctrl-C, a command chosen over the draft: the stash stays.
ClearDraft ==
    /\ draft # <<>> /\ draft' = <<>>
    /\ UNCHANGED <<pendingSubmit, starting, stashVars, sentVars, pasted, shortened>>

\* What SetValue makes of a prompt sent before: text, cut at the composer's limit.
Recalled(parts) ==
    [i \in DOMAIN parts |-> IF parts[i].text \in Oversized THEN [parts[i] EXCEPT !.text = Cut] ELSE parts[i]]

\* previousHistory and nextHistory, over the draft; after the newest it is empty.
RecallPrompt(at) ==
    /\ ~starting /\ draft # <<>>
    /\ \/ recall.at = 0 /\ at = Len(recall.prompts) /\ at # 0
       \/ recall.at # 0 /\ at \in {recall.at - 1, recall.at + 1} \ {0}
    /\ IF at > Len(recall.prompts)
       THEN draft' = <<>> /\ recall' = [recall EXCEPT !.at = 0] /\ UNCHANGED shortened
       ELSE /\ draft' = Recalled(recall.prompts[at]) /\ recall' = [recall EXCEPT !.at = at]
            /\ shortened' = (shortened \/ draft' # recall.prompts[at])
    /\ UNCHANGED <<pendingSubmit, pastes, pasteSeq, starting, tasking, delivered, pasted, sends, torn>>

-----------------------------------------------------------------------------
(* Sending.                                                                *)

\* The engine takes a prompt, the labels replaced by what is in the stash.
Deliver(parts) ==
    /\ sends < MaxSent /\ sends' = sends + 1
    /\ delivered' = ExpandPastes(parts)

\* submit of a prompt with no task: it starts one, and can be recalled.
StartWith(parts) ==
    /\ Deliver(parts) /\ tasking' = TRUE
    /\ recall' = [prompts |-> Append(recall.prompts, delivered'), at |-> 0]

\* submit with a task: QueueUserMessage takes it, or the labels come back although
\* their stash was released.
Steer(parts, accepted) ==
    /\ IF accepted THEN Deliver(parts) /\ draft' = <<>> ELSE draft' = parts /\ UNCHANGED <<delivered, sends>>
    /\ UNCHANGED <<tasking, recall>>

SendPrompt(accepted) ==
    /\ ~starting /\ draft # <<>>
    /\ IF tasking THEN Steer(draft, accepted) ELSE accepted /\ StartWith(draft) /\ draft' = <<>>
    /\ ReleasePastes(draft')
    /\ UNCHANGED <<pendingSubmit, starting, pasted, shortened>>

\* handleLoadingKey: the prompt waits; another replaces it.
SendLater ==
    /\ starting /\ draft # <<>> /\ pendingSubmit' = draft /\ draft' = <<>>
    /\ UNCHANGED <<starting, stashVars, sentVars, pasted, shortened>>

\* applyHydration: what waited is sent, whatever the composer holds by now; signed out
\* it comes back in place of that.
Ready(welcome) ==
    /\ starting /\ starting' = FALSE /\ pendingSubmit' = <<>>
    /\ IF pendingSubmit = <<>> \/ ~welcome
       THEN /\ draft' = IF pendingSubmit = <<>> THEN draft ELSE pendingSubmit
            /\ UNCHANGED <<pastes, pasteSeq, tasking, recall, delivered, sends, torn>>
       ELSE /\ StartWith(pendingSubmit) /\ ReleasePastes(draft)
            /\ UNCHANGED draft
    /\ UNCHANGED <<pasted, shortened>>

TaskOver ==
    /\ tasking /\ tasking' = FALSE
    /\ UNCHANGED <<draft, pendingSubmit, starting, stashVars, recall, delivered, sends, pasted, shortened>>

\* Another session was opened: draft and stash are dropped.
SessionOpened ==
    /\ ~starting /\ draft' = <<>> /\ ReleasePastes(<<>>)
    /\ UNCHANGED <<pendingSubmit, starting, tasking, recall, delivered, pasted, sends, shortened>>

-----------------------------------------------------------------------------

PastesInit ==
    /\ draft = <<>> /\ pendingSubmit = <<>> /\ pastes = NoPastes /\ pasteSeq = 0
    /\ starting = TRUE /\ tasking = FALSE
    /\ recall = [prompts |-> <<>>, at |-> 0] /\ delivered = <<>>
    /\ pasted = 0 /\ sends = 0 /\ torn = FALSE /\ shortened = FALSE

PastesNext ==
    \/ \E i \in 1..(Len(draft) + 1) : TypeText(i) \/ \E block \in Blocks : PasteBlock(block, i)
    \/ \E i \in DOMAIN draft : Erase(i)
    \/ \E id \in DOMAIN pastes : RemovePaste(id)
    \/ ClearDraft \/ (\E at \in 1..(Len(recall.prompts) + 1) : RecallPrompt(at))
    \/ (\E accepted \in BOOLEAN : SendPrompt(accepted)) \/ SendLater
    \/ (\E welcome \in BOOLEAN : Ready(welcome)) \/ TaskOver \/ SessionOpened

PastesSpec == PastesInit /\ [][PastesNext]_pasteVars

-----------------------------------------------------------------------------

\* Every label stands for the block that was pasted there, and what the engine takes
\* is what was composed, with every block whole and in its place: whatever was put in,
\* removed, cleared, recalled, sent early or sent as steering, unless the stash was
\* released while a label needed it, or a recalled prompt was cut.
SentAsComposed ==
    ~torn =>
        /\ \A parts \in {draft, pendingSubmit} : \A i \in DOMAIN parts :
               parts[i].id # 0 => parts[i].id \in DOMAIN pastes /\ pastes[parts[i].id] = parts[i].meant
        /\ ~shortened => \A i \in DOMAIN delivered : delivered[i].text = delivered[i].meant
=============================================================================
