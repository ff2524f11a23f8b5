------------------------------ MODULE Desk_proofs ------------------------------
(***************************************************************************)
(* What is proved of six components that share no variable: the dialogs,   *)
(* the project context, the review gate, the conversation, the list of     *)
(* models and the ledger on disk. Each theorem is about one of them, for   *)
(* every value of its constants.                                           *)
(***************************************************************************)
EXTENDS Dialogs, ProjectContext, ReviewGate, Conversation, Catalog, SessionLog, FoldLemmas,
        SequenceTheorems, FiniteSetTheorems, TLAPS

-----------------------------------------------------------------------------
(* The dialogs: a goroutine that waits for the user is never wedged.       *)

ModalKinds == {"none", "reply", "list", "server", "choice", "onboarding"}
Modals == [kind : ModalKinds, request : Nat, rows : {"none", "own", "servers"}]

ModalTypeOK ==
    /\ modal \in Modals /\ queue \in Seq(Nat)
    /\ waiting \subseteq Nat \ {0} /\ requests \in Nat

\* A dialog is somebody's request, or shows no request; and a request is queued only
\* while something is on the screen.
OwnerInv ==
    /\ modal.kind # "reply" => modal.request = 0
    /\ modal.kind = "none" => modal = NoModal
    /\ queue # <<>> => modal # NoModal

DialogsInv == ModalTypeOK /\ OwnerInv /\ AskedIsVisible

\* The dialogs the code opens are dialogs, and none of them is empty.
LEMMA TheDialogs ==
    /\ NoModal \in Modals /\ NoModal.kind = "none" /\ NoModal.request = 0
    /\ ListModal \in Modals /\ ListModal.kind = "list" /\ ListModal.request = 0
    /\ \A k \in {"server", "choice", "onboarding"} :
           OtherModal(k) \in Modals /\ OtherModal(k).kind = k /\ OtherModal(k).request = 0
    /\ \A r \in Nat : ReplyModal(r) \in Modals /\ ReplyModal(r).kind = "reply" /\ ReplyModal(r).request = r
BY DEF Modals, ModalKinds, NoModal, ListModal, OtherModal, ReplyModal

\* Before anyone asks nobody waits.
LEMMA DialogsInitial == DialogsInit => DialogsInv
<1> SUFFICES ASSUME DialogsInit PROVE DialogsInv
  OBVIOUS
<1>1. ModalTypeOK
  BY TheDialogs, EmptySeq DEF DialogsInit, ModalTypeOK
<1> QED BY <1>1, TheDialogs DEF DialogsInit, DialogsInv, OwnerInv, AskedIsVisible

\* A dialog that takes the place of one nobody waits for, or has the same owner.
LEMMA ReplacePreserves ==
    ASSUME DialogsInv, modal' \in Modals,
           \/ modal' = modal
           \/ modal'.request = modal.request /\ modal'.kind = modal.kind /\ modal # NoModal
           \/ modal.kind # "reply" /\ modal'.request = 0 /\ modal'.kind \notin {"none", "reply"},
           UNCHANGED <<queue, requests>>, waiting' \subseteq waiting
    PROVE  DialogsInv'
<1>1. ModalTypeOK'
  BY DEF DialogsInv, ModalTypeOK
<1>2. modal' # NoModal \/ modal' = modal
  BY TheDialogs DEF DialogsInv, OwnerInv
<1>3. OwnerInv'
  BY <1>2 DEF DialogsInv, OwnerInv
<1>4. AskedIsVisible'
  <2> SUFFICES ASSUME NEW r \in waiting', modal'.request # r
               PROVE  Contains(queue, r) /\ modal' # NoModal
    BY DEF AskedIsVisible
  <2>1. r \in waiting /\ r # 0
    BY DEF DialogsInv, ModalTypeOK
  <2>2. modal.request # r
    BY <2>1 DEF DialogsInv, OwnerInv
  <2>3. Contains(queue, r) /\ modal # NoModal
    BY <2>1, <2>2 DEF DialogsInv, AskedIsVisible
  <2> QED BY <1>2, <2>3
<1> QED BY <1>1, <1>3, <1>4 DEF DialogsInv

\* A request waits on the screen, or behind what is there.
LEMMA AskPreserves ==
    ASSUME DialogsInv, Ask PROVE DialogsInv'
<1> DEFINE r0 == requests + 1
<1>1. /\ requests' = r0 /\ waiting' = waiting \union {r0} /\ r0 \in Nat \ {0}
      /\ \/ modal # NoModal /\ queue' = Append(queue, r0) /\ modal' = modal
         \/ modal = NoModal /\ modal' = ReplyModal(r0) /\ queue' = queue
  BY DEF Ask, DialogsInv, ModalTypeOK
<1>2. queue \in Seq(Nat) /\ Append(queue, r0) \in Seq(Nat) /\ Append(queue, r0) # <<>>
      /\ Contains(Append(queue, r0), r0)
      /\ \A r : Contains(queue, r) => Contains(Append(queue, r0), r)
  <2>1. queue \in Seq(Nat) /\ Len(queue) \in Nat
    BY LenProperties DEF DialogsInv, ModalTypeOK
  <2>2. /\ Append(queue, r0) \in Seq(Nat) /\ Append(queue, r0) # <<>> /\ Len(Append(queue, r0)) = Len(queue) + 1
        /\ \A i \in 1 .. Len(queue) : Append(queue, r0)[i] = queue[i]
        /\ Append(queue, r0)[Len(queue) + 1] = r0
    BY <1>1, <2>1, AppendProperties
  <2> DEFINE longer == Append(queue, r0)
  <2> HIDE DEF longer
  <2>3. /\ Len(longer) = Len(queue) + 1 /\ longer[Len(queue) + 1] = r0
        /\ \A i \in 1 .. Len(queue) : i \in 1 .. Len(longer) /\ longer[i] = queue[i]
        /\ Len(queue) + 1 \in 1 .. Len(longer)
    BY <2>1, <2>2 DEF longer
  <2>4. Contains(longer, r0) /\ \A r : Contains(queue, r) => Contains(longer, r)
    BY <2>3 DEF Contains
  <2> QED BY <2>1, <2>2, <2>4 DEF longer
<1>3. ModalTypeOK'
  BY <1>1, <1>2, TheDialogs DEF DialogsInv, ModalTypeOK
<1>4. OwnerInv'
  BY <1>1, TheDialogs DEF DialogsInv, OwnerInv
<1>5. AskedIsVisible'
  <2> SUFFICES ASSUME NEW r \in waiting'
               PROVE  modal'.request = r \/ (Contains(queue', r) /\ modal' # NoModal)
    BY DEF AskedIsVisible
  <2>1. CASE r = r0
    BY <1>1, <1>2, <2>1, TheDialogs
  <2>2. CASE r \in waiting
    <3>1. r # 0 /\ (modal.request = r \/ (Contains(queue, r) /\ modal # NoModal))
      BY <2>2 DEF DialogsInv, ModalTypeOK, AskedIsVisible
    <3> QED BY <1>1, <1>2, <3>1, TheDialogs
  <2> QED BY <1>1, <2>1, <2>2
<1> QED BY <1>3, <1>4, <1>5 DEF DialogsInv

\* When the dialog on the screen closes, the next request takes its place.
LEMMA ClosePreserves ==
    ASSUME DialogsInv, NEW after \in {NoModal, OtherModal("server")}, CloseModal(after),
           UNCHANGED requests
    PROVE  DialogsInv'
<1>1. waiting' = waiting \ {modal.request}
  BY DEF CloseModal
<1>2. CASE queue = <<>>
  <2>1. /\ queue' = queue
        /\ modal' \in {NoModal, OtherModal("server"), OtherModal("onboarding")}
    BY <1>2 DEF CloseModal
  <2>2. waiting' = {}
    <3> SUFFICES ASSUME NEW r \in waiting, r # modal.request PROVE FALSE
      BY <1>1
    <3>1. Contains(queue, r)
      BY DEF DialogsInv, AskedIsVisible
    <3> QED BY <1>2, <3>1, EmptySeq DEF Contains
  <2>3. ModalTypeOK'
    BY <2>1, <2>2, TheDialogs DEF DialogsInv, ModalTypeOK
  <2>4. OwnerInv'
    BY <1>2, <2>1, TheDialogs DEF DialogsInv, OwnerInv
  <2> QED BY <2>2, <2>3, <2>4 DEF DialogsInv, AskedIsVisible
<1>3. CASE queue # <<>>
  <2>1. queue' = Tail(queue) /\ modal' = ReplyModal(Head(queue))
    BY <1>3 DEF CloseModal
  <2>2. queue \in Seq(Nat) /\ Len(queue) \in Nat /\ Head(queue) \in Nat /\ Tail(queue) \in Seq(Nat)
        /\ Head(queue) = queue[1] /\ Len(Tail(queue)) = Len(queue) - 1
        /\ \A i \in 1 .. Len(Tail(queue)) : Tail(queue)[i] = queue[i + 1]
    BY <1>3, HeadTailProperties, LenProperties DEF DialogsInv, ModalTypeOK
  <2>3. ModalTypeOK'
    BY <1>1, <2>1, <2>2, TheDialogs DEF DialogsInv, ModalTypeOK
  <2>4. OwnerInv'
    BY <2>1, <2>2, TheDialogs DEF OwnerInv
  <2>5. AskedIsVisible'
    <3> SUFFICES ASSUME NEW r \in waiting, r # modal.request, r # Head(queue)
                 PROVE  Contains(Tail(queue), r)
      BY <1>1, <2>1, <2>2, TheDialogs DEF AskedIsVisible
    <3>1. PICK i \in 1 .. Len(queue) : queue[i] = r
      BY DEF DialogsInv, AskedIsVisible, Contains
    <3>2. i # 1
      BY <2>2, <3>1
    <3>3. i - 1 \in 1 .. Len(Tail(queue)) /\ Tail(queue)[i - 1] = r
      BY <2>2, <3>1, <3>2
    <3> QED BY <3>3 DEF Contains
  <2> QED BY <2>3, <2>4, <2>5 DEF DialogsInv
<1> QED BY <1>2, <1>3

\* A step that leaves the dialog, the queue and those who wait as they are.
LEMMA AsidePreserves ==
    ASSUME DialogsInv, UNCHANGED <<modal, queue, waiting, requests>> PROVE DialogsInv'
BY ReplacePreserves DEF DialogsInv, ModalTypeOK

\* Every step keeps the invariant.
LEMMA DialogsPreserved == DialogsInv /\ [DialogsNext]_dialogVars => DialogsInv'
<1> SUFFICES ASSUME DialogsInv, [DialogsNext]_dialogVars PROVE DialogsInv'
  OBVIOUS
<1>0. modal \in Modals
  BY DEF DialogsInv, ModalTypeOK
<1>1. CASE Ask
  BY <1>1, AskPreserves
<1>2. CASE \E r \in waiting : GiveUp(r)
  BY <1>0, <1>2, ReplacePreserves DEF GiveUp
<1>3. CASE Dismiss \/ BackToList
  BY <1>3, ClosePreserves DEF Dismiss, BackToList
<1>4. CASE PickServer
  BY <1>4, ClosePreserves DEF PickServer
<1>5. CASE ResultArrives
  <2>1. modal' = modal \/ (modal.kind # "reply" /\ modal' = OtherModal("choice"))
    BY <1>5 DEF ResultArrives, OpenDialog
  <2> QED BY <1>0, <1>5, <2>1, TheDialogs, ReplacePreserves DEF ResultArrives
<1>6. CASE SignInArrives
  <2>1. modal' = modal \/ (modal = NoModal /\ modal' = OtherModal("onboarding"))
    BY <1>6 DEF SignInArrives, OpenOnboarding
  <2> QED BY <1>0, <1>6, <2>1, TheDialogs, ReplacePreserves DEF SignInArrives
<1>7. CASE SignOut
  BY <1>0, <1>7, TheDialogs, ReplacePreserves DEF SignOut
<1>8. CASE ListArrives
  <2>1. \/ modal' = modal
        \/ modal' = [modal EXCEPT !.rows = "servers"] /\ modal # NoModal
        \/ modal.kind # "reply" /\ modal' = ListModal
    BY <1>8, TheDialogs DEF ListArrives, InstallMCPChoices, OpenDialog
  <2>2. modal' = [modal EXCEPT !.rows = "servers"] =>
            modal' \in Modals /\ modal'.request = modal.request /\ modal'.kind = modal.kind
    BY <1>0 DEF Modals
  <2> QED BY <1>0, <1>8, <2>1, <2>2, TheDialogs, ReplacePreserves DEF ListArrives
<1>9. CASE (\E kind \in {"mcp", "choice", "login"} : Command(kind)) \/ ListFails \/ Tick \/ RefreshTick
  BY <1>9, AsidePreserves DEF Command, ListFails, Tick, RefreshTick
<1>10. CASE UNCHANGED dialogVars
  BY <1>10, AsidePreserves DEF dialogVars
<1> QED
  BY <1>1, <1>2, <1>3, <1>4, <1>5, <1>6, <1>7, <1>8, <1>9, <1>10 DEF DialogsNext

\* A goroutine that waits for the user has its request on the screen or in the queue
\* behind a dialog, whatever results of commands arrive meanwhile.
THEOREM AskedIsAlwaysVisible == DialogsSpec => []AskedIsVisible
<1>1. DialogsInv => AskedIsVisible
  BY DEF DialogsInv
<1> QED BY <1>1, DialogsInitial, DialogsPreserved, PTL DEF DialogsSpec

-----------------------------------------------------------------------------
(* The project context: a session keeps its prefix, follows its documents. *)

Told == DocTexts \union {Nothing}
Block == [Docs -> Told]
Snapshot == [boot : Block, applied : Block]
Talk == [Docs -> Told \union {Unknown}]
OpenContext ==
    [open : {TRUE}, boot : Block, applied : Block, saved : Snapshot, talk : Talk, inTask : BOOLEAN]

ContextTypeOK ==
    /\ docs \in Block
    /\ sidecar \in Snapshot \union {Unknown}
    /\ talkFile \in Talk
    /\ context \in OpenContext \union {ClosedContext}
    /\ sidecarLost \in BOOLEAN /\ unread \in BOOLEAN /\ cursorLost \in BOOLEAN
    /\ talkLost \in BOOLEAN /\ repeated \in BOOLEAN

\* Nothing went wrong that changes the block of the prefix; nothing at all.
BootKept == ~sidecarLost /\ ~unread
AllKept == BootKept /\ ~cursorLost /\ ~talkLost

\* The block of the prefix is in the sidecar, and in what the next write puts there.
BootInv ==
    BootKept =>
        /\ context.open => /\ sidecar # Unknown /\ sidecar.boot = context.boot
                           /\ context.saved.boot = context.boot
        /\ firstBoot # Unknown => sidecar # Unknown /\ sidecar.boot = firstBoot
        /\ sidecar = Unknown => talkFile = NoBlocks

\* What a conversation says over a block.
Says(words, boot, d) == IF words[d] # Unknown THEN words[d] ELSE boot[d]

\* What was applied is what the conversation says: of the open engine, and in the files
\* a start will read.
AppliedInv ==
    AllKept =>
        /\ context.open => /\ context.saved = sidecar /\ sidecar.applied = context.applied
                           /\ \A d \in Docs : Says(context.talk, context.boot, d) = context.applied[d]
        /\ (~context.open /\ sidecar # Unknown) =>
               \A d \in Docs : Says(talkFile, sidecar.boot, d) = sidecar.applied[d]

TaskInv == context.inTask => context.open /\ lastSeen = context.applied

ContextInv == ContextTypeOK /\ BootInv /\ AppliedInv /\ TaskInv /\ ToldOnce

USE DEF Told, Block, Snapshot, Talk

\* What a load gives is a block: a text the loaders let through, or Nothing.
LEMMA LoadedType ==
    ASSUME docs \in Block, NEW blinking \in SUBSET Docs
    PROVE  Loaded(blinking) \in Block
BY ContextAssumption DEF Loaded, LoadRootDoc, LoadTrustedDoc, IsLoadable

LEMMA UnknownIsNothing == Unknown \notin Told /\ Unknown \notin Snapshot
BY ContextAssumption

LEMMA ContextInitial == ContextInit => ContextInv
<1> SUFFICES ASSUME ContextInit PROVE ContextInv
  OBVIOUS
<1>1. /\ docs \in Block /\ sidecar = Unknown /\ talkFile = NoBlocks /\ context = ClosedContext
      /\ firstBoot = Unknown /\ repeated = FALSE
      /\ sidecarLost = FALSE /\ unread = FALSE /\ cursorLost = FALSE /\ talkLost = FALSE
  BY DEF ContextInit
<1>2. NoBlocks \in Talk
  BY DEF NoBlocks
<1>3. ~context.open /\ ~context.inTask
  BY <1>1 DEF ClosedContext
<1>4. ContextTypeOK
  BY <1>1, <1>2 DEF ContextTypeOK
<1> QED BY <1>1, <1>3, <1>4 DEF ContextInv, BootInv, AppliedInv, TaskInv, ToldOnce

\* The sidecar a start reads, or writes, is the one its engine holds.
LEMMA OpenPreserves ==
    ASSUME ContextInv, NEW cannotRead \in BOOLEAN, NEW writeFails \in BOOLEAN,
           NEW blinking \in SUBSET Docs, OpenSession(cannotRead, writeFails, blinking)
    PROVE  ContextInv'
<1> DEFINE loaded == Loaded(blinking)
           fresh == Bootstrapped(loaded)
<1>1. loaded \in Block
  BY LoadedType DEF ContextInv, ContextTypeOK
<1> HIDE DEF loaded
<1>2. \A snapshot \in Snapshot : Restored(snapshot) \in OpenContext
  BY DEF ContextInv, ContextTypeOK, Restored, OpenContext
<1>3. /\ ~context.open /\ UNCHANGED <<docs, talkFile, firstBoot, lastSeen, cursorLost, talkLost, repeated>>
      /\ \/ /\ sidecar # Unknown /\ ~cannotRead /\ context' = Restored(sidecar)
            /\ UNCHANGED <<sidecar, sidecarLost, unread>>
         \/ /\ ~(sidecar # Unknown /\ ~cannotRead) /\ context' = fresh
            /\ sidecar' = IF cannotRead \/ writeFails THEN sidecar ELSE fresh.saved
            /\ sidecarLost' = (sidecarLost \/ writeFails \/ (cannotRead /\ sidecar = Unknown))
            /\ unread' = (unread \/ cannotRead)
  BY DEF OpenSession, loaded
<1>4. CASE sidecar # Unknown /\ ~cannotRead
  <2>1. context' = Restored(sidecar) /\ sidecar \in Snapshot /\ UNCHANGED <<sidecar, sidecarLost, unread>>
    BY <1>3, <1>4 DEF ContextInv, ContextTypeOK
  <2>2. context' \in OpenContext
    BY <1>2, <2>1
  <2>3. /\ context'.open /\ ~context'.inTask /\ context'.saved = sidecar /\ context'.boot = sidecar.boot
        /\ context'.applied = sidecar.applied /\ context'.talk = talkFile
    BY <2>1 DEF Restored
  <2>4. ContextTypeOK'
    BY <1>3, <2>1, <2>2 DEF ContextInv, ContextTypeOK
  <2>5. BootInv'
    BY <1>3, <1>4, <2>1, <2>3 DEF ContextInv, BootInv, BootKept
  <2>6. AppliedInv'
    BY <1>3, <1>4, <2>1, <2>3 DEF ContextInv, AppliedInv, AllKept, BootKept, Says
  <2> QED BY <1>3, <2>1, <2>3, <2>4, <2>5, <2>6 DEF ContextInv, TaskInv, ToldOnce
<1>5. CASE ~(sidecar # Unknown /\ ~cannotRead)
  <2> DEFINE written == [boot |-> loaded, applied |-> loaded]
  <2>0. written \in Snapshot
    BY <1>1
  <2>1. context' = Restored(written)
    BY <1>3, <1>5 DEF Bootstrapped
  <2>2. context' \in OpenContext
    BY <1>2, <2>0, <2>1
  <2>3. /\ context'.open /\ ~context'.inTask /\ context'.saved = written /\ context'.boot = loaded
        /\ context'.applied = loaded /\ context'.talk = talkFile
    BY <2>1 DEF Restored
  <2>4. /\ sidecar' = IF cannotRead \/ writeFails THEN sidecar ELSE written
        /\ sidecarLost' = (sidecarLost \/ writeFails \/ (cannotRead /\ sidecar = Unknown))
        /\ unread' = (unread \/ cannotRead)
    BY <1>3, <1>5 DEF Bootstrapped, Restored
  <2>5. ContextTypeOK'
    BY <1>3, <2>0, <2>2, <2>4 DEF ContextInv, ContextTypeOK
  <2>6. BootKept' => sidecar = Unknown /\ sidecar' = written /\ BootKept
    BY <1>5, <2>4 DEF BootKept
  <2>7. BootInv'
    BY <1>3, <2>0, <2>3, <2>6, UnknownIsNothing DEF ContextInv, BootInv
  <2>8. BootKept' => talkFile = NoBlocks
    BY <2>6 DEF ContextInv, BootInv
  <2>9. AppliedInv'
    BY <1>1, <1>3, <2>3, <2>6, <2>8 DEF AppliedInv, AllKept, Says, NoBlocks
  <2> QED BY <1>3, <2>3, <2>4, <2>5, <2>7, <2>9 DEF ContextInv, TaskInv, ToldOnce
<1> QED BY <1>4, <1>5

\* A task appends exactly what differs from what was applied, so that afterwards the
\* conversation says what was loaded.
LEMMA TaskPreserves ==
    ASSUME ContextInv, NEW blinking \in SUBSET Docs, NEW talkFails \in BOOLEAN,
           NEW cursorFails \in BOOLEAN, BeginTask(blinking, talkFails, cursorFails)
    PROVE  ContextInv'
<1> DEFINE loaded == Loaded(blinking)
           changed == ChangedSinceApplied(loaded)
           words == [d \in Docs |-> IF d \in changed THEN loaded[d] ELSE context.talk[d]]
<1>1. loaded \in Block
  BY LoadedType DEF ContextInv, ContextTypeOK
<1> HIDE DEF loaded
<1>2. /\ context.open /\ ~context.inTask
      /\ context' = [context EXCEPT !.talk = words, !.applied = loaded, !.inTask = TRUE,
                                    !.saved.applied = loaded]
      /\ PersistProjectCursor(loaded, cursorFails)
      /\ talkFile' = IF talkFails THEN talkFile ELSE words
      /\ firstBoot' = IF firstBoot = Unknown THEN context.boot ELSE firstBoot
      /\ lastSeen' = loaded /\ repeated' = (repeated \/ \E d \in changed : loaded[d] = InForce(d))
      /\ UNCHANGED <<docs, sidecarLost, unread, talkLost>>
  BY DEF BeginTask, loaded
<1>3. context \in OpenContext
  BY <1>2 DEF ContextInv, ContextTypeOK, ClosedContext
<1>4. words \in Talk
  BY <1>1, <1>3 DEF OpenContext
<1> HIDE DEF words
<1>5. /\ context' \in OpenContext /\ context'.open /\ context'.inTask /\ context'.boot = context.boot
      /\ context'.applied = loaded /\ context'.talk = words
      /\ context'.saved = [context.saved EXCEPT !.applied = loaded]
  BY <1>1, <1>2, <1>3, <1>4 DEF OpenContext
<1>6. /\ context.saved \in Snapshot /\ context'.saved \in Snapshot
      /\ context'.saved.boot = context.saved.boot /\ context'.saved.applied = loaded
  BY <1>1, <1>3, <1>5 DEF OpenContext
<1>7. \/ loaded = context.saved.applied /\ UNCHANGED <<sidecar, cursorLost>>
      \/ sidecar' = context'.saved /\ cursorLost' = cursorLost
      \/ sidecar' = sidecar /\ cursorLost' = TRUE
  BY <1>2, <1>5 DEF PersistProjectCursor, ContextInv, ContextTypeOK
<1>8. ContextTypeOK'
  <2>1. cursorLost' \in BOOLEAN /\ repeated' \in BOOLEAN
    BY <1>2, <1>7 DEF ContextInv, ContextTypeOK
  <2>2. sidecar' \in Snapshot \union {Unknown}
    BY <1>6, <1>7 DEF ContextInv, ContextTypeOK
  <2> QED BY <1>2, <1>4, <1>5, <2>1, <2>2 DEF ContextInv, ContextTypeOK
<1>9. BootInv'
  <2> SUFFICES ASSUME BootKept'
               PROVE  /\ sidecar' # Unknown /\ sidecar'.boot = context'.boot
                      /\ context'.saved.boot = context'.boot
                      /\ firstBoot' # Unknown => sidecar'.boot = firstBoot'
    BY DEF BootInv
  <2>1. /\ sidecar # Unknown /\ sidecar.boot = context.boot /\ context.saved.boot = context.boot
        /\ firstBoot # Unknown => sidecar.boot = firstBoot
    BY <1>2 DEF ContextInv, BootInv, BootKept
  <2>2. sidecar' # Unknown /\ sidecar'.boot = sidecar.boot
    BY <1>6, <1>7, <2>1, UnknownIsNothing
  <2> QED BY <1>2, <1>5, <1>6, <2>1, <2>2
<1>10. AppliedInv'
  <2> SUFFICES ASSUME AllKept'
               PROVE  /\ context'.saved = sidecar' /\ sidecar'.applied = context'.applied
                      /\ \A d \in Docs : Says(context'.talk, context'.boot, d) = context'.applied[d]
    BY <1>5 DEF AppliedInv
  <2>1. AllKept
    BY <1>2, <1>7 DEF AllKept, BootKept, ContextInv, ContextTypeOK
  <2>2. /\ context.saved = sidecar /\ sidecar.applied = context.applied
        /\ \A d \in Docs : Says(context.talk, context.boot, d) = context.applied[d]
    BY <1>2, <2>1 DEF ContextInv, AppliedInv
  <2>3. context'.saved = sidecar'
    <3>1. CASE loaded = context.saved.applied /\ UNCHANGED <<sidecar, cursorLost>>
      BY <1>5, <1>6, <2>2, <3>1
    <3> QED BY <1>7, <3>1 DEF AllKept
  <2>4. \A d \in Docs : Says(words, context.boot, d) = loaded[d]
    BY <1>1, <2>2, UnknownIsNothing DEF Says, words, ChangedSinceApplied
  <2> QED BY <1>5, <1>6, <2>3, <2>4
<1>11. TaskInv'
  BY <1>2, <1>5 DEF TaskInv
<1>12. ToldOnce'
  <2>1. AllKept => ~ \E d \in changed : loaded[d] = InForce(d)
    BY <1>2 DEF ContextInv, AppliedInv, ChangedSinceApplied, InForce, Says
  <2> QED BY <1>2, <1>7, <2>1 DEF ContextInv, ContextTypeOK, ToldOnce, AllKept, BootKept
<1> QED BY <1>8, <1>9, <1>10, <1>11, <1>12 DEF ContextInv

LEMMA CompactPreserves ==
    ASSUME ContextInv, NEW d \in Docs, Compact(d)
    PROVE  ContextInv'
<1>1. context \in OpenContext
  BY DEF Compact, ContextInv, ContextTypeOK, ClosedContext, TaskInv
<1>2. /\ context' = [context EXCEPT !.talk[d] = Unknown] /\ talkFile' = context'.talk /\ talkLost' = TRUE
      /\ UNCHANGED <<docs, sidecar, firstBoot, lastSeen, sidecarLost, unread, cursorLost, repeated>>
  BY DEF Compact
<1>3. /\ context' \in OpenContext /\ context'.open = context.open /\ context'.inTask = context.inTask
      /\ context'.boot = context.boot /\ context'.applied = context.applied /\ context'.saved = context.saved
  BY <1>1, <1>2 DEF OpenContext
<1>4. context'.talk \in Talk
  BY <1>3 DEF OpenContext
<1>5. context.open /\ (BootKept => sidecar # Unknown)
  BY <1>1 DEF OpenContext, ContextInv, BootInv
<1> QED
  BY <1>2, <1>3, <1>4, <1>5
     DEF ContextInv, ContextTypeOK, BootInv, AppliedInv, TaskInv, ToldOnce, AllKept, BootKept

LEMMA EndPreserves ==
    ASSUME ContextInv, EndTask
    PROVE  ContextInv'
<1>1. context \in OpenContext
  BY DEF EndTask, ContextInv, ContextTypeOK, ClosedContext
<1>2. /\ context' = [context EXCEPT !.inTask = FALSE] /\ talkFile' = context.talk
      /\ UNCHANGED <<docs, sidecar, firstBoot, lastSeen, sidecarLost, unread, cursorLost, talkLost, repeated>>
  BY DEF EndTask
<1>3. /\ context' \in OpenContext /\ context'.open = context.open /\ ~context'.inTask
      /\ context'.boot = context.boot /\ context'.applied = context.applied
      /\ context'.saved = context.saved /\ context'.talk = context.talk
  BY <1>1, <1>2 DEF OpenContext
<1>4. context.talk \in Talk /\ context.open /\ (BootKept => sidecar # Unknown)
  BY <1>1 DEF OpenContext, ContextInv, BootInv
<1> QED
  BY <1>2, <1>3, <1>4
     DEF ContextInv, ContextTypeOK, BootInv, AppliedInv, TaskInv, ToldOnce, AllKept, BootKept, Says

LEMMA CloseContextPreserves ==
    ASSUME ContextInv, CloseContext
    PROVE  ContextInv'
<1>1. /\ context.open /\ context' = ClosedContext /\ talkLost' = (talkLost \/ talkFile # context.talk)
      /\ UNCHANGED <<docs, sidecar, talkFile, firstBoot, lastSeen, sidecarLost, unread, cursorLost, repeated>>
  BY DEF CloseContext
<1>2. ~context'.open /\ ~context'.inTask
  BY <1>1 DEF ClosedContext
<1>3. ContextTypeOK'
  BY <1>1 DEF ContextInv, ContextTypeOK
<1>4. BootInv'
  BY <1>1, <1>2 DEF ContextInv, BootInv, BootKept
<1>5. AppliedInv'
  <2>1. AllKept' => AllKept /\ talkFile = context.talk
    BY <1>1 DEF AllKept, BootKept, ContextInv, ContextTypeOK
  <2>2. AllKept => /\ sidecar.boot = context.boot /\ sidecar.applied = context.applied
                   /\ \A d \in Docs : Says(context.talk, context.boot, d) = context.applied[d]
    BY <1>1 DEF ContextInv, AppliedInv, BootInv, AllKept
  <2> QED BY <1>1, <1>2, <2>1, <2>2 DEF AppliedInv
<1>6. TaskInv'
  BY <1>1, <1>2 DEF ContextInv, TaskInv
<1>7. ToldOnce'
  BY <1>1 DEF ContextInv, ToldOnce
<1> QED
  BY <1>3, <1>4, <1>5, <1>6, <1>7 DEF ContextInv

LEMMA ContextPreserved == ContextInv /\ [ContextNext]_contextVars => ContextInv'
<1> SUFFICES ASSUME ContextInv, [ContextNext]_contextVars PROVE ContextInv'
  OBVIOUS
<1>1. ASSUME NEW d \in Docs, NEW text \in Told, EditDoc(d, text) PROVE ContextInv'
  BY <1>1
     DEF EditDoc, ContextInv, ContextTypeOK, BootInv, AppliedInv, TaskInv, ToldOnce, AllKept, BootKept
<1>2. ASSUME LoseSidecar PROVE ContextInv'
  <2>1. ContextTypeOK'
    BY <1>2 DEF LoseSidecar, ContextInv, ContextTypeOK
  <2>2. BootInv' /\ AppliedInv'
    BY <1>2 DEF LoseSidecar, ContextInv, BootInv, AppliedInv, AllKept, BootKept
  <2>3. TaskInv' /\ ToldOnce'
    BY <1>2 DEF LoseSidecar, ContextInv, TaskInv, ToldOnce
  <2> QED BY <2>1, <2>2, <2>3 DEF ContextInv
<1>3. ASSUME UNCHANGED contextVars PROVE ContextInv'
  BY <1>3
     DEF contextVars, ContextInv, ContextTypeOK, BootInv, AppliedInv, TaskInv, ToldOnce, AllKept, BootKept
<1> QED
  BY <1>1, <1>2, <1>3, OpenPreserves, TaskPreserves, CompactPreserves, EndPreserves, CloseContextPreserves
     DEF ContextNext

\* What the invariant says of the open engine is what a reader of a session wants.
LEMMA ContextIsEnough == ContextInv => ContextIsTrue
BY DEF ContextInv, BootInv, AppliedInv, TaskInv, ContextIsTrue, BootIsStable, EditsReachTheModel,
       ToldOnce, InForce, Says, AllKept, BootKept

\* A session resumes with the bytes of its first request, reads every document as it was
\* when the task began, and is told of a change once, whatever happens to the documents
\* and however often it is opened.  Nothing is claimed after a lost or unreadable sidecar,
\* and of the updates nothing after a failed write of the cursor or the loss of an update
\* from the conversation: the flags of ProjectContext excuse these.
THEOREM ContextIsAlwaysTrue == ContextSpec => []ContextIsTrue
<1>1. ContextSpec => []ContextInv
  BY ContextInitial, ContextPreserved, PTL DEF ContextSpec
<1> QED BY <1>1, ContextIsEnough, PTL

HIDE DEF Told, Block, Snapshot, Talk

-----------------------------------------------------------------------------
(* The review gate: no rise of risk, of size or of strictness lowers it.   *)

ClassNames == {"chat", "tiny", "small", "standard", "large", "epic"}
Tiers == {"skip", "focused", "deep"}
GatingChoices == {"off", "conservative", "default"}
Counts == [FileKinds -> Nat]
Profiles == [class : ClassNames, files : Counts, lines : Nat, risk : BOOLEAN,
             tests : {"not-run"}, repo : Nat, mode : GatingChoices]

LEMMA CountsAre ==
    ASSUME NEW files \in Counts
    PROVE  /\ files["docs"] \in Nat /\ files["config"] \in Nat /\ files["logic"] \in Nat
           /\ FileCount(files) \in Nat
           /\ FileCount(files) = files["docs"] + files["config"] + files["logic"]
  BY DEF Counts, FileKinds, FileCount

LEMMA OnlyOneIsAll ==
    \A d, c, l, t \in Nat : t = d + c + l /\ t # 0 =>
        ~(d = t /\ c = t) /\ ~(d = t /\ l = t) /\ ~(c = t /\ l = t)
  OBVIOUS

\* The kind of a task: what all its files are, if there are any.
LEMMA TaskTypeIs ==
    ASSUME NEW files \in Counts
    PROVE  /\ ReviewTaskType(files) \in FileKinds \cup {"none", "mixed"}
           /\ \A k \in FileKinds : ReviewTaskType(files) = k <=>
                 FileCount(files) > 0 /\ files[k] = FileCount(files)
<1> DEFINE all == {k \in FileKinds : files[k] = FileCount(files)}
<1>1. /\ files["docs"] \in Nat /\ files["config"] \in Nat /\ files["logic"] \in Nat
      /\ FileCount(files) = files["docs"] + files["config"] + files["logic"]
  BY CountsAre
<1>2. ASSUME FileCount(files) # 0, NEW k \in all
      PROVE  all = {k}
  <2>1. /\ ~(files["docs"] = FileCount(files) /\ files["config"] = FileCount(files))
        /\ ~(files["docs"] = FileCount(files) /\ files["logic"] = FileCount(files))
        /\ ~(files["config"] = FileCount(files) /\ files["logic"] = FileCount(files))
    <3>1. FileCount(files) # 0 /\ FileCount(files) \in Nat
      BY <1>2, CountsAre
    <3> HIDE DEF all
    <3> QED BY <1>1, <3>1, OnlyOneIsAll
  <2>2. k \in FileKinds /\ files[k] = FileCount(files)
    BY <1>2
  <2>3. \A j \in FileKinds : files[j] = FileCount(files) => j = k
    <3> HIDE DEF all
    <3> QED BY <2>1, <2>2 DEF FileKinds
  <2> QED BY <2>2, <2>3
<1>3. CASE FileCount(files) # 0 /\ all # {}
  <2>1. PICK k \in FileKinds : all = {k}
    BY <1>2, <1>3
  <2>2. ReviewTaskType(files) = k
    BY <1>3, <2>1 DEF ReviewTaskType
  <2> QED BY <1>1, <1>3, <2>1, <2>2
<1>4. CASE FileCount(files) # 0 /\ all = {}
  <2>1. ReviewTaskType(files) = "mixed"
    BY <1>4 DEF ReviewTaskType
  <2> QED BY <1>4, <2>1 DEF FileKinds
<1>5. CASE FileCount(files) = 0
  <2>1. ReviewTaskType(files) = "none"
    BY <1>5 DEF ReviewTaskType
  <2> QED BY <1>5, <2>1 DEF FileKinds
<1> QED BY <1>3, <1>4, <1>5

\* The table by the questions it asks.
Gated(p) == p.mode # "off" /\ FileCount(p.files) > 0
Exempt(p) == ReviewTaskType(p.files) = "docs" \/ (p.class = "tiny" /\ FileCount(p.files) <= 2)
Configured(p) == ReviewTaskType(p.files) = "config" /\ FileCount(p.files) <= 2
Lenient(p) == IF p.mode = "conservative" THEN "focused" ELSE "skip"

LEMMA TableIs ==
    ASSUME NEW p \in Profiles
    PROVE  TableTier(p) = IF ~Gated(p) THEN "skip"
                          ELSE IF p.risk THEN (IF IsWide(p) THEN "deep" ELSE "focused")
                          ELSE IF Exempt(p) THEN "skip"
                          ELSE IF Configured(p) THEN Lenient(p)
                          ELSE IF IsWide(p) THEN "deep"
                          ELSE IF SmallEnough(p) THEN Lenient(p) ELSE "focused"
<1>1. FileCount(p.files) \in Nat
  BY CountsAre DEF Profiles
<1>2. p.tests # "failed" /\ p.risk \in BOOLEAN
  BY DEF Profiles
<1>3. CASE p.mode = "off"
  BY <1>3 DEF TableTier, Gated
<1>4. CASE p.mode # "off" /\ FileCount(p.files) = 0
  BY <1>4 DEF TableTier, Gated
<1>5. CASE p.mode # "off" /\ FileCount(p.files) > 0 /\ p.risk
  BY <1>1, <1>5 DEF TableTier, Gated
<1>6. CASE p.mode # "off" /\ FileCount(p.files) > 0 /\ ~p.risk
  BY <1>1, <1>2, <1>6 DEF TableTier, Gated, Exempt, Configured, Lenient
<1> QED BY <1>1, <1>3, <1>4, <1>5, <1>6

Capped(p) == RepoBucketForFileCount(p.repo) = "tiny" /\ ~p.risk

LEMMA GateIs ==
    ASSUME NEW p \in Profiles
    PROVE  /\ TableTier(p) \in Tiers
           /\ Decide(p).tier = IF TableTier(p) = "deep" /\ Capped(p) THEN "focused" ELSE TableTier(p)
           /\ Decide(p).tier \in Tiers
<1>1. TableTier(p) \in Tiers
  BY TableIs DEF Tiers, Lenient
<1>2. Decide(p).tier = IF TableTier(p) = "deep" /\ Capped(p) THEN "focused" ELSE TableTier(p)
  BY DEF Decide, Capped
<1> QED BY <1>1, <1>2 DEF Tiers

\* Weights by hand: none is below skip, deep is above none.
LEMMA WeightsAre ==
    /\ TierWeight("skip") = 0 /\ TierWeight("focused") = 1 /\ TierWeight("deep") = 2
  BY DEF TierWeight

\* A gate whose table asks for no less, and that is capped no sooner, asks for no less.
LEMMA TableDecides ==
    ASSUME NEW p \in Profiles, NEW q \in Profiles,
           TierWeight(TableTier(q)) >= TierWeight(TableTier(p)), Capped(q) => Capped(p)
    PROVE  TierWeight(Decide(q).tier) >= TierWeight(Decide(p).tier)
  BY GateIs, WeightsAre DEF Tiers

LEMMA OneMoreFile ==
    ASSUME NEW p \in Profiles, NEW k \in FileKinds
    PROVE  LET q == [p EXCEPT !.files[k] = @ + 1]
           IN  q \in Profiles /\ TierWeight(Decide(q).tier) >= TierWeight(Decide(p).tier)
<1> DEFINE more == [p.files EXCEPT ![k] = @ + 1]
           q == [p EXCEPT !.files = more]
<1>0. [p EXCEPT !.files[k] = @ + 1] = q
  BY DEF Profiles
<1>1. p.files \in Counts /\ more \in Counts
  BY DEF Profiles, Counts
<1>2. /\ q \in Profiles /\ q.files = more /\ q.class = p.class /\ q.lines = p.lines
      /\ q.risk = p.risk /\ q.repo = p.repo /\ q.mode = p.mode
  BY <1>1 DEF Profiles
<1>3. /\ more[k] = p.files[k] + 1
      /\ \A j \in FileKinds : j # k => more[j] = p.files[j]
  BY <1>1 DEF Counts
<1>4. FileCount(more) = FileCount(p.files) + 1
  <2>1. /\ p.files["docs"] \in Nat /\ p.files["config"] \in Nat /\ p.files["logic"] \in Nat
        /\ FileCount(p.files) = p.files["docs"] + p.files["config"] + p.files["logic"]
        /\ FileCount(more) = more["docs"] + more["config"] + more["logic"]
    BY <1>1, CountsAre
  <2> HIDE DEF more
  <2>2. CASE k = "docs"
    BY <1>3, <2>1, <2>2 DEF FileKinds
  <2>3. CASE k = "config"
    BY <1>3, <2>1, <2>3 DEF FileKinds
  <2>4. CASE k = "logic"
    BY <1>3, <2>1, <2>4 DEF FileKinds
  <2> QED BY <2>2, <2>3, <2>4 DEF FileKinds
<1>5. FileCount(p.files) \in Nat /\ p.lines \in Nat
  BY <1>1, CountsAre DEF Profiles
\* One file more leaves a task of one kind of that kind, or makes it mixed.
<1>6. ASSUME NEW j \in FileKinds, FileCount(p.files) > 0, ReviewTaskType(more) = j
      PROVE  ReviewTaskType(p.files) = j
  <2>1. more[j] = FileCount(p.files) + 1
    BY <1>1, <1>4, <1>6, TaskTypeIs
  <2>2. p.files[j] = FileCount(p.files)
    <3>1. /\ p.files["docs"] \in Nat /\ p.files["config"] \in Nat /\ p.files["logic"] \in Nat
          /\ FileCount(p.files) = p.files["docs"] + p.files["config"] + p.files["logic"]
      BY <1>1, CountsAre
    <3> QED BY <1>3, <1>5, <2>1, <3>1 DEF FileKinds
  <2> QED BY <1>1, <1>6, <2>2, TaskTypeIs
<1>7. IsWide(p) => IsWide(q)
  BY <1>2, <1>4, <1>5 DEF IsWide
<1>8. SmallEnough(q) => SmallEnough(p)
  BY <1>2, <1>4, <1>5 DEF SmallEnough
<1>9. /\ Gated(p) => Gated(q)
      /\ Gated(p) /\ Exempt(q) => Exempt(p)
      /\ Gated(p) /\ Configured(q) => Configured(p)
      /\ Lenient(q) = Lenient(p) /\ (Capped(q) => Capped(p))
  BY <1>2, <1>4, <1>5, <1>6 DEF Gated, Exempt, Configured, Lenient, Capped, FileKinds
<1> HIDE DEF more, q
<1>10. TierWeight(TableTier(q)) >= TierWeight(TableTier(p))
  <2>1. TierWeight(TableTier(q)) \in {0, 1, 2} /\ TierWeight(TableTier(p)) \in {0, 1, 2}
    BY <1>2, GateIs, WeightsAre DEF Tiers
  <2>2. CASE ~Gated(p)
    BY <2>1, <2>2, TableIs, WeightsAre
  <2>3. CASE Gated(p)
    BY <1>2, <1>7, <1>8, <1>9, <2>1, <2>3, TableIs, WeightsAre DEF Lenient
  <2> QED BY <2>2, <2>3
<1> QED BY <1>0, <1>2, <1>9, <1>10, TableDecides DEF q

LEMMA RiskAdded ==
    ASSUME NEW p \in Profiles
    PROVE  LET q == [p EXCEPT !.risk = TRUE]
           IN  q \in Profiles /\ TierWeight(Decide(q).tier) >= TierWeight(Decide(p).tier)
<1> DEFINE q == [p EXCEPT !.risk = TRUE]
<1>1. /\ q \in Profiles /\ q.files = p.files /\ q.class = p.class /\ q.risk
      /\ q.repo = p.repo /\ q.mode = p.mode
  BY DEF Profiles
<1>2. /\ Gated(q) <=> Gated(p)
      /\ IsWide(q) <=> IsWide(p)
      /\ ~Capped(q)
  BY <1>1 DEF Gated, IsWide, Capped
<1> HIDE DEF q
<1>3. TierWeight(TableTier(q)) >= TierWeight(TableTier(p))
  <2>1. TierWeight(TableTier(q)) \in {0, 1, 2} /\ TierWeight(TableTier(p)) \in {0, 1, 2}
    BY <1>1, GateIs, WeightsAre DEF Tiers
  <2>2. CASE ~Gated(p)
    BY <2>1, <2>2, TableIs, WeightsAre
  <2>3. CASE Gated(p)
    BY <1>1, <1>2, <2>1, <2>3, TableIs, WeightsAre DEF Lenient
  <2> QED BY <2>2, <2>3
<1> QED BY <1>1, <1>2, <1>3, TableDecides DEF q

LEMMA ModeStricter ==
    ASSUME NEW p \in Profiles, p.mode = "default"
    PROVE  LET q == [p EXCEPT !.mode = "conservative"]
           IN  q \in Profiles /\ TierWeight(Decide(q).tier) >= TierWeight(Decide(p).tier)
<1> DEFINE q == [p EXCEPT !.mode = "conservative"]
<1>1. /\ q \in Profiles /\ q.files = p.files /\ q.class = p.class /\ q.risk = p.risk
      /\ q.lines = p.lines /\ q.repo = p.repo /\ q.mode = "conservative"
  BY DEF Profiles, GatingChoices
<1>2. /\ Gated(q) <=> Gated(p)
      /\ Exempt(q) <=> Exempt(p)
      /\ Configured(q) <=> Configured(p)
      /\ IsWide(q) <=> IsWide(p)
      /\ SmallEnough(q) <=> SmallEnough(p)
      /\ Capped(q) <=> Capped(p)
  BY <1>1 DEF Gated, Exempt, Configured, IsWide, SmallEnough, Capped
<1> HIDE DEF q
<1>3. TierWeight(TableTier(q)) >= TierWeight(TableTier(p))
  <2>1. TierWeight(TableTier(q)) \in {0, 1, 2} /\ TierWeight(TableTier(p)) \in {0, 1, 2}
    BY <1>1, GateIs, WeightsAre DEF Tiers
  <2> QED BY <1>1, <1>2, <2>1, TableIs, WeightsAre DEF Lenient
<1> QED BY <1>1, <1>2, <1>3, TableDecides DEF q

\* Who is let off after a change has changed little, and nothing of risk.
LEMMA SkippedHasLittle ==
    ASSUME NEW p \in Profiles, Gated(p), Decide(p).tier = "skip"
    PROVE  ~p.risk /\ (ReviewTaskType(p.files) = "docs" \/ FileCount(p.files) <= 2)
<1>1. TableTier(p) = "skip"
  BY GateIs
<1>2. FileCount(p.files) \in Nat /\ p.lines \in Nat
  BY CountsAre DEF Profiles
<1>3. ~p.risk /\ (Exempt(p) \/ Configured(p) \/ SmallEnough(p))
  BY <1>1, TableIs
<1> QED BY <1>2, <1>3 DEF Exempt, Configured, SmallEnough

-----------------------------------------------------------------------------
(* The task around the gate.                                               *)

ReviewSpec == ReviewInit /\ [][ReviewNext]_review

Decisions == [tier : Tiers \cup {"none"}, cap : Nat]
ReviewTasks == [at : {"working", "done"}, assessed : ClassNames, class : ClassNames,
                mode : GatingChoices, autoReview : BOOLEAN, repo : Nat, files : Counts, lines : Nat,
                risk : BOOLEAN, nudged : BOOLEAN, decision : Decisions, reported : Decisions,
                steps : Nat]

ReviewShape == review = [at |-> "idle"] \/ review \in ReviewTasks

\* A decision that asks for nothing ends the task at once; what is reported as none
\* was decided on all the task changed.
DecisionInv ==
    /\ review.at = "working" => review.decision.tier # "skip"
    /\ review.at = "done" /\ review.reported.tier = "skip" =>
          \E class \in ClassNames : /\ Decide(ReviewProfile(class)).tier = "skip"
                                    /\ FileCount(review.files) > 0

ReviewInv == ReviewShape /\ DecisionInv

LEMMA ReviewProfileIs ==
    ASSUME review \in ReviewTasks, NEW class \in ClassNames
    PROVE  /\ ReviewProfile(class) \in Profiles
           /\ ReviewProfile(class).files = review.files /\ ReviewProfile(class).risk = review.risk
           /\ ReviewProfile(class).mode = review.mode
  BY DEF ReviewTasks, ReviewProfile, Profiles

LEMMA DecisionsAre ==
    /\ NoDecision \in Decisions /\ NoDecision.tier = "none"
    /\ \A p \in Profiles : Decide(p) \in Decisions /\ Decide(p) # NoDecision
<1>1. NoDecision \in Decisions /\ NoDecision.tier = "none"
  BY DEF NoDecision, Decisions
<1>2. ASSUME NEW p \in Profiles
      PROVE  Decide(p) \in Decisions /\ Decide(p) # NoDecision
  <2>1. Decide(p).tier \in Tiers
    BY <1>2, GateIs
  <2>2. Decide(p) = [tier |-> Decide(p).tier, cap |-> CeilingsFor(Decide(p).tier)]
    BY DEF Decide
  <2>3. \A tier \in Tiers : CeilingsFor(tier) \in Nat
    BY DEF Tiers, CeilingsFor
  <2>4. Decide(p) \in Decisions
    BY <2>1, <2>2, <2>3 DEF Decisions
  <2> QED BY <1>1, <2>1, <2>4 DEF Tiers
<1> QED BY <1>1, <1>2

\* What a task that ends reports: a decision it took, or one it takes now.
LEMMA ReportIs ==
    ASSUME review \in ReviewTasks, NEW decision \in Decisions
    PROVE  /\ Report(decision) \in Decisions
           /\ \/ Report(decision) = decision
              \/ /\ Report(decision) = Decide(ReviewProfile(review.assessed))
                 /\ FileCount(review.files) > 0
<1>1. review.assessed \in ClassNames
  BY DEF ReviewTasks
<1> QED BY <1>1, ReviewProfileIs, DecisionsAre DEF Report

SameReview ==
    /\ review'.files = review.files /\ review'.lines = review.lines /\ review'.risk = review.risk
    /\ review'.repo = review.repo /\ review'.mode = review.mode

LEMMA SameProfile ==
    ASSUME SameReview, NEW class
    PROVE  Decide(ReviewProfile(class))' = Decide(ReviewProfile(class))
<1>1. ReviewProfile(class)' = ReviewProfile(class)
  BY DEF ReviewProfile, SameReview
<1>2. Decide(ReviewProfile(class))' = Decide(ReviewProfile(class)')
  OBVIOUS
<1> QED BY <1>1, <1>2

\* The task goes on or ends with a decision that was taken on all it changed.
LEMMA ConcludedKeeps ==
    ASSUME review \in ReviewTasks, NEW nudged \in BOOLEAN, NEW decision \in Decisions,
           NEW reported \in Decisions,
           review' = [review EXCEPT !.nudged = nudged, !.decision = decision, !.at = "done",
                                    !.reported = reported],
           reported.tier = "skip" =>
              \E class \in ClassNames : /\ Decide(ReviewProfile(class)).tier = "skip"
                                        /\ FileCount(review.files) > 0
    PROVE  ReviewInv'
<1>1. /\ review' \in ReviewTasks /\ SameReview /\ review'.at = "done"
      /\ review'.reported = reported
  BY DEF ReviewTasks, SameReview
<1>2. FileCount(review.files)' = FileCount(review.files)
  BY <1>1 DEF SameReview, FileCount
<1>3. \A class : Decide(ReviewProfile(class))' = Decide(ReviewProfile(class))
  BY <1>1, SameProfile
<1> QED BY <1>1, <1>2, <1>3 DEF ReviewInv, ReviewShape, DecisionInv

LEMMA AnswerKeeps ==
    ASSUME ReviewInv, AnswerGiven
    PROVE  ReviewInv'
<1> DEFINE decision == IF NudgeDue THEN Settled(Decide(ReviewProfile(review.class))) ELSE review.decision
<1>1. review \in ReviewTasks /\ review.at = "working" /\ review.decision.tier # "skip"
  BY DEF AnswerGiven, ReviewInv, ReviewShape, DecisionInv
<1>2. /\ NudgeDue \in BOOLEAN /\ review.decision \in Decisions /\ review.class \in ClassNames
      /\ review.nudged \in BOOLEAN /\ review.files \in Counts
  BY <1>1 DEF ReviewTasks, NudgeDue
<1>3. /\ decision \in Decisions
      /\ \/ decision = review.decision
         \/ decision = Decide(ReviewProfile(review.class)) /\ FileCount(review.files) > 0
  <2>1. ReviewProfile(review.class) \in Profiles
    BY <1>1, <1>2, ReviewProfileIs
  <2>2. NudgeDue => FileCount(review.files) > 0
    <3>1. FileCount(review.files) \in Nat
      BY <1>2, CountsAre
    <3> QED BY <3>1 DEF NudgeDue
  <2> QED BY <1>2, <2>1, <2>2, DecisionsAre DEF Settled
<1>4. \/ /\ NudgeDue /\ decision.tier # "skip"
         /\ review' = [review EXCEPT !.nudged = TRUE, !.decision = decision]
      \/ review' = [review EXCEPT !.nudged = @ \/ NudgeDue, !.decision = decision,
                                  !.at = "done", !.reported = Report(decision)]
  BY DEF AnswerGiven
<1> HIDE DEF decision
<1>5. CASE /\ decision.tier # "skip"
           /\ review' = [review EXCEPT !.nudged = TRUE, !.decision = decision]
  <2>1. review' \in ReviewTasks /\ review'.at = "working" /\ review'.decision = decision
    BY <1>1, <1>3, <1>5 DEF ReviewTasks
  <2> QED BY <1>5, <2>1 DEF ReviewInv, ReviewShape, DecisionInv
<1>6. CASE review' = [review EXCEPT !.nudged = @ \/ NudgeDue, !.decision = decision,
                                    !.at = "done", !.reported = Report(decision)]
  <2>1. /\ Report(decision) \in Decisions
        /\ Report(decision).tier = "skip" =>
              \E class \in ClassNames : /\ Decide(ReviewProfile(class)).tier = "skip"
                                        /\ FileCount(review.files) > 0
    <3>1. review.assessed \in ClassNames
      BY <1>1 DEF ReviewTasks
    <3> QED BY <1>1, <1>2, <1>3, <3>1, ReportIs
  <2> DEFINE nudged == review.nudged \/ NudgeDue
  <2>2. nudged \in BOOLEAN
    OBVIOUS
  <2>3. review' = [review EXCEPT !.nudged = nudged, !.decision = decision, !.at = "done",
                                 !.reported = Report(decision)]
    BY <1>6
  <2> HIDE DEF nudged
  <2> QED BY <1>1, <1>3, <2>1, <2>2, <2>3, ConcludedKeeps
<1> QED BY <1>4, <1>5, <1>6

LEMMA CutKeeps ==
    ASSUME ReviewInv, TaskCut
    PROVE  ReviewInv'
<1>1. review \in ReviewTasks /\ review.at = "working" /\ review.decision.tier # "skip"
  BY DEF TaskCut, ReviewInv, ReviewShape, DecisionInv
<1>2. /\ review.decision \in Decisions /\ review.assessed \in ClassNames
      /\ review.nudged \in BOOLEAN
  BY <1>1 DEF ReviewTasks
<1>3. /\ Report(review.decision) \in Decisions
      /\ Report(review.decision).tier = "skip" =>
            \E class \in ClassNames : /\ Decide(ReviewProfile(class)).tier = "skip"
                                      /\ FileCount(review.files) > 0
  BY <1>1, <1>2, ReportIs
<1>4. review' = [review EXCEPT !.nudged = review.nudged, !.decision = review.decision, !.at = "done",
                               !.reported = Report(review.decision)]
  BY <1>1 DEF TaskCut, ReviewTasks
<1> QED BY <1>1, <1>2, <1>3, <1>4, ConcludedKeeps

LEMMA ChangesKeep ==
    ASSUME ReviewInv, NEW k \in FileKinds, NEW n \in Batches, NEW l \in LineCounts,
           NEW risk \in BOOLEAN, NEW created \in BOOLEAN, ChangeFiles(k, n, l, risk, created)
    PROVE  ReviewInv'
<1>1. review \in ReviewTasks /\ review.at = "working" /\ review.decision.tier # "skip"
  BY DEF ChangeFiles, Working, ReviewInv, ReviewShape, DecisionInv
<1>2. n \in Nat /\ l \in Nat
  BY ReviewAssumption
<1> DEFINE files == [review.files EXCEPT ![k] = @ + n]
           lines == review.lines + l
           risky == review.risk \/ risk
           repo == review.repo + (IF created THEN n ELSE 0)
           steps == review.steps + 1
<1>3. files \in Counts
  BY <1>1, <1>2 DEF ReviewTasks, Counts
<1>4. lines \in Nat /\ repo \in Nat /\ steps \in Nat
  BY <1>1, <1>2 DEF ReviewTasks
<1>5. risky \in BOOLEAN
  OBVIOUS
<1>6. review' = [review EXCEPT !.files = files, !.lines = lines, !.risk = risky,
                               !.repo = repo, !.steps = steps]
  BY <1>1 DEF ChangeFiles, ReviewTasks
<1> HIDE DEF files, lines, risky, repo, steps
<1>7. review' \in ReviewTasks /\ review'.at = "working" /\ review'.decision = review.decision
  BY <1>1, <1>3, <1>4, <1>5, <1>6 DEF ReviewTasks
<1> QED BY <1>1, <1>7 DEF ReviewInv, ReviewShape, DecisionInv

LEMMA EscalateKeeps ==
    ASSUME ReviewInv, EscalateTask
    PROVE  ReviewInv'
<1>1. review \in ReviewTasks /\ review.at = "working" /\ review.decision.tier # "skip"
  BY DEF EscalateTask, Working, ReviewInv, ReviewShape, DecisionInv
<1> DEFINE i == CHOOSE k \in 1 .. 6 : Classes[k] = review.class
           steps == review.steps + 1
<1>2. Classes[i + 1] \in ClassNames
  <2>1. review.class \in ClassNames \ {"epic"}
    BY <1>1 DEF ReviewTasks, EscalateTask
  <2>2. \E k \in 1 .. 6 : Classes[k] = review.class
    <3>1. review.class \in {Classes[1], Classes[2], Classes[3], Classes[4], Classes[5]}
      BY <2>1 DEF ClassNames, Classes
    <3> QED BY <3>1
  <2>3. i \in 1 .. 6 /\ Classes[i] = review.class
    BY <2>2
  <2>4. i # 6
    <3>1. Classes[6] = "epic"
      BY DEF Classes
    <3> HIDE DEF i
    <3> QED BY <2>1, <2>3, <3>1
  <2> HIDE DEF i
  <2>5. i \in {1, 2, 3, 4, 5}
    BY <2>3, <2>4
  <2>6. \A k \in {2, 3, 4, 5, 6} : Classes[k] \in ClassNames
    BY DEF Classes, ClassNames
  <2>7. i + 1 \in {2, 3, 4, 5, 6}
    BY <2>5
  <2> QED BY <2>6, <2>7
<1>3. steps \in Nat
  BY <1>1 DEF ReviewTasks
<1>4. review' = [review EXCEPT !.class = Classes[i + 1], !.steps = steps]
  BY DEF EscalateTask
<1> HIDE DEF i, steps
<1>5. review' \in ReviewTasks /\ review'.at = "working" /\ review'.decision = review.decision
  BY <1>1, <1>2, <1>3, <1>4 DEF ReviewTasks
<1> QED BY <1>1, <1>5 DEF ReviewInv, ReviewShape, DecisionInv

LEMMA StartKeeps ==
    ASSUME NEW i \in 1 .. 6, NEW mode \in GatingModes, NEW auto \in BOOLEAN, NEW repo \in RepoCounts,
           StartReviewTask(Classes[i], mode, auto, repo)
    PROVE  ReviewInv'
<1>1. /\ Classes[i] \in ClassNames /\ mode \in GatingChoices /\ repo \in Nat
      /\ NoFiles \in Counts /\ NoDecision \in Decisions /\ NoDecision.tier = "none"
  BY ReviewAssumption, DecisionsAre DEF Classes, ClassNames, GatingModes, GatingChoices, NoFiles, Counts
<1>2. review' \in ReviewTasks /\ review'.at = "working" /\ review'.decision = NoDecision
  BY <1>1 DEF StartReviewTask, ReviewTasks
<1> QED BY <1>1, <1>2 DEF ReviewInv, ReviewShape, DecisionInv

\* More is never reviewed less, and what is let off is small, all steps of the task
\* together: for every size of a change, any number of steps and any repository.
THEOREM ReviewAlwaysFollowsChange == ReviewSpec => []ReviewFollowsChange
<1>1. ReviewInit => ReviewInv
  BY DEF ReviewInit, ReviewInv, ReviewShape, DecisionInv
<1>2. ReviewInv /\ [ReviewNext]_review => ReviewInv'
  <2> SUFFICES ASSUME ReviewInv, [ReviewNext]_review
               PROVE  ReviewInv'
    OBVIOUS
  <2>1. CASE NextReviewTask
    BY <2>1 DEF NextReviewTask, ReviewInv, ReviewShape, DecisionInv
  <2>2. CASE UNCHANGED review
    <3>1. SameReview /\ FileCount(review.files)' = FileCount(review.files)
      BY <2>2 DEF SameReview, FileCount
    <3>2. \A class : Decide(ReviewProfile(class))' = Decide(ReviewProfile(class))
      BY <3>1, SameProfile
    <3> QED BY <2>2, <3>1, <3>2 DEF ReviewInv, ReviewShape, DecisionInv
  <2> QED BY <2>1, <2>2, StartKeeps, ChangesKeep, EscalateKeeps, AnswerKeeps, CutKeeps DEF ReviewNext
<1>3. ReviewInv => ReviewFollowsChange
  <2> SUFFICES ASSUME ReviewInv
               PROVE  ReviewFollowsChange
    OBVIOUS
  <2>1. GateIsMonotone
    <3> SUFFICES ASSUME review.at = "working"
                 PROVE  GateIsMonotone
      BY DEF GateIsMonotone
    <3>1. ReviewProfile(review.class) \in Profiles
      <4>1. review \in ReviewTasks
        BY DEF ReviewInv, ReviewShape
      <4> QED BY <4>1, ReviewProfileIs DEF ReviewTasks
    <3> QED BY <3>1, OneMoreFile, RiskAdded, ModeStricter DEF GateIsMonotone
  <2>2. SkippedIsSmall
    <3> SUFFICES ASSUME review.at = "done", review.reported.tier = "skip", review.mode # "off"
                 PROVE  ~review.risk /\ (ReviewTaskType(review.files) = "docs" \/ FileCount(review.files) <= 2)
      BY DEF SkippedIsSmall
    <3>1. PICK class \in ClassNames : /\ Decide(ReviewProfile(class)).tier = "skip"
                                      /\ FileCount(review.files) > 0
      BY DEF ReviewInv, DecisionInv
    <3>2. /\ ReviewProfile(class) \in Profiles /\ ReviewProfile(class).files = review.files
          /\ ReviewProfile(class).risk = review.risk /\ ReviewProfile(class).mode = review.mode
      <4>1. review \in ReviewTasks
        BY DEF ReviewInv, ReviewShape
      <4> QED BY <4>1, ReviewProfileIs
    <3>3. Gated(ReviewProfile(class))
      BY <3>1, <3>2 DEF Gated
    <3> QED BY <3>1, <3>2, <3>3, SkippedHasLittle
  <2> QED BY <2>1, <2>2 DEF ReviewFollowsChange
<1> QED BY <1>1, <1>2, <1>3, PTL DEF ReviewSpec

-----------------------------------------------------------------------------
(* The conversation: what reclaiming shortens could be spared, and one      *)
(* version is one growing text.                                            *)

TalkSpec == TalkInit /\ [][TalkNext]_talkVars

Messages == [id : Nat, role : {"user", "assistant", "tool"}, weight : {1, 2, 4}, bad : BOOLEAN,
             form : {"full", "trimmed", "folded"}]

\* A conversation, as it is now or as it was saved.
TalkShape(t) ==
    /\ t = [messages |-> t.messages, summaries |-> t.summaries, taskStart |-> t.taskStart,
            version |-> t.version, window |-> t.window]
    /\ t.messages \in Seq(Messages) /\ t.taskStart \in Nat

\* No message of the running task is folded, and no error is trimmed.
Spared(t) ==
    \A i \in DOMAIN t.messages :
        /\ i > t.taskStart => t.messages[i].form # "folded"
        /\ t.messages[i].bad => t.messages[i].form # "trimmed"

\* What has been shortened is in the archive.
Kept(t) ==
    \A i \in DOMAIN t.messages :
        t.messages[i].role = "tool" /\ t.messages[i].form # "full" => t.messages[i].id \in archived

TalkInv ==
    /\ said \in Nat /\ broken \in BOOLEAN
    /\ TalkShape(talk) /\ TalkShape(saved)
    /\ Spared(talk) /\ Spared(saved)
    /\ ~broken => Kept(talk) /\ Kept(saved)
    /\ settled => Reclaimed(talk) = talk.messages

\* Reclaiming shortens, and changes nothing else.
LEMMA ReclaimedIs ==
    ASSUME NEW t, TalkShape(t)
    PROVE  LET after == Reclaimed(t)
           IN  /\ after \in Seq(Messages) /\ DOMAIN after = DOMAIN t.messages
               /\ \A i \in DOMAIN t.messages :
                      /\ after[i].id = t.messages[i].id /\ after[i].role = t.messages[i].role
                      /\ after[i].weight = t.messages[i].weight /\ after[i].bad = t.messages[i].bad
                      /\ \/ after[i].form = t.messages[i].form
                         \/ after[i].form = "folded" /\ i <= t.taskStart
                         \/ after[i].form = "trimmed" /\ ~t.messages[i].bad
<1> DEFINE before == t.messages
           folded == Folded(before, t.taskStart)
           after == Trimmed(folded)
<1>1. /\ before \in Seq(Messages) /\ Len(before) \in Nat /\ DOMAIN before = 1 .. Len(before)
      /\ \A i \in DOMAIN before : before[i] \in Messages
  BY LenProperties, ElementOfSeq DEF TalkShape
<1>2. /\ DOMAIN folded = DOMAIN before
      /\ \A i \in DOMAIN before :
             folded[i] = IF i <= t.taskStart /\ before[i].role # "user" /\ Size(before[i]) > 1
                         THEN [before[i] EXCEPT !.form = "folded"] ELSE before[i]
  BY DEF Folded
<1>3. \A i \in DOMAIN before :
          /\ folded[i] \in Messages
          /\ folded[i].id = before[i].id /\ folded[i].role = before[i].role
          /\ folded[i].weight = before[i].weight /\ folded[i].bad = before[i].bad
          /\ \/ folded[i].form = before[i].form
             \/ folded[i].form = "folded" /\ i <= t.taskStart
  <2> HIDE DEF folded, before
  <2>1. \A m \in Messages :
            LET f == [m EXCEPT !.form = "folded"]
            IN  /\ f \in Messages /\ f.id = m.id /\ f.role = m.role /\ f.weight = m.weight
                /\ f.bad = m.bad /\ f.form = "folded"
    BY DEF Messages
  <2> SUFFICES ASSUME NEW i \in DOMAIN before
               PROVE  /\ folded[i] \in Messages
                      /\ folded[i].id = before[i].id /\ folded[i].role = before[i].role
                      /\ folded[i].weight = before[i].weight /\ folded[i].bad = before[i].bad
                      /\ \/ folded[i].form = before[i].form
                         \/ folded[i].form = "folded" /\ i <= t.taskStart
    OBVIOUS
  <2>2. before[i] \in Messages
    BY <1>1
  <2>3. CASE i <= t.taskStart /\ folded[i] = [before[i] EXCEPT !.form = "folded"]
    BY <2>1, <2>2, <2>3
  <2>4. CASE folded[i] = before[i]
    BY <2>2, <2>4
  <2> QED BY <1>2, <2>3, <2>4
<1> HIDE DEF folded, before
<1>4. /\ DOMAIN after = DOMAIN folded
      /\ \A i \in DOMAIN folded :
             after[i] = folded[i] \/ (i \in Trimmable(folded) /\ after[i] = [folded[i] EXCEPT !.form = "trimmed"])
  BY DEF Trimmed
<1>5. \A i \in Trimmable(folded) : ~folded[i].bad
  BY DEF Trimmable
<1> HIDE DEF after
<1>6. \A i \in DOMAIN before :
          /\ after[i] \in Messages
          /\ after[i].id = before[i].id /\ after[i].role = before[i].role
          /\ after[i].weight = before[i].weight /\ after[i].bad = before[i].bad
          /\ \/ after[i].form = before[i].form
             \/ after[i].form = "folded" /\ i <= t.taskStart
             \/ after[i].form = "trimmed" /\ ~before[i].bad
  BY <1>2, <1>3, <1>4, <1>5 DEF Messages
<1>7. after \in Seq(Messages)
  <2>1. after \in [1 .. Len(before) -> Messages]
    <3>1. after = [i \in DOMAIN after |-> after[i]]
      BY DEF after, Trimmed, folded, Folded
    <3> QED BY <1>1, <1>2, <1>4, <1>6, <3>1
  <2> QED BY <1>1, <2>1, SeqDef
<1>8. Reclaimed(t) = after
  BY DEF Reclaimed, after, folded, before
<1> QED BY <1>2, <1>4, <1>6, <1>7, <1>8 DEF before

\* Reclaiming what was just reclaimed finds nothing.
LEMMA ReclaimedTwice ==
    ASSUME NEW t, TalkShape(t), NEW u, u.messages = Reclaimed(t), u.taskStart = t.taskStart
    PROVE  Reclaimed(u) = u.messages
<1> DEFINE before == t.messages
           limit == t.taskStart
           folded == Folded(before, limit)
           after == Trimmed(folded)
<1>1. /\ \A i \in DOMAIN before : before[i] \in Messages
  BY ElementOfSeq, LenProperties DEF TalkShape
<1>2. /\ DOMAIN folded = DOMAIN before
      /\ \A i \in DOMAIN before :
             folded[i] = IF i <= limit /\ before[i].role # "user" /\ Size(before[i]) > 1
                         THEN [before[i] EXCEPT !.form = "folded"] ELSE before[i]
  BY DEF Folded
<1>3. u.messages = after /\ u.taskStart = limit
  BY DEF Reclaimed
<1>4. \A i \in DOMAIN folded : folded[i] \in Messages
  <2> HIDE DEF folded, before
  <2> QED BY <1>1, <1>2 DEF Messages
<1>5. CASE Cardinality(Trimmable(folded)) < MinBatch
  <2>1. after = folded
    BY <1>5 DEF Trimmed
  <2>2. Folded(folded, limit) = folded
    <3>1. ASSUME NEW i \in DOMAIN folded, i <= limit, folded[i].role # "user"
          PROVE  ~(Size(folded[i]) > 1)
      <4> HIDE DEF folded, before, limit
      <4>1. CASE Size(before[i]) > 1
        <5>1. before[i] \in Messages
          BY <1>1, <1>2
        <5>2. folded[i] = [before[i] EXCEPT !.form = "folded"]
          BY <1>2, <3>1, <4>1, <5>1 DEF Messages
        <5> QED BY <5>1, <5>2 DEF Size, Messages
      <4>2. CASE ~(Size(before[i]) > 1)
        BY <1>2, <3>1, <4>2
      <4> QED BY <4>1, <4>2
    <3>2. folded = [i \in DOMAIN folded |-> folded[i]]
      BY DEF Folded
    <3> HIDE DEF folded
    <3> QED BY <3>1, <3>2 DEF Folded
  <2>3. Trimmed(folded) = folded
    BY <2>1
  <2> HIDE DEF folded, after
  <2> QED BY <1>3, <2>1, <2>2, <2>3 DEF Reclaimed
<1>6. CASE ~(Cardinality(Trimmable(folded)) < MinBatch)
  <2>1. after = [i \in DOMAIN folded |->
                     IF i \in Trimmable(folded) THEN [folded[i] EXCEPT !.form = "trimmed"] ELSE folded[i]]
    BY <1>6 DEF Trimmed
  <2> HIDE DEF after
  <2>2. Folded(after, limit) = after
    <3>1. ASSUME NEW i \in DOMAIN folded, i <= limit, after[i].role # "user"
          PROVE  ~(Size(after[i]) > 1)
      <4>1. ~(Size(folded[i]) > 1)
        <5>1. folded[i].role # "user"
          <6> HIDE DEF folded
          <6> QED BY <1>4, <2>1, <3>1 DEF Messages
        <5> HIDE DEF folded, before, limit
        <5>2. before[i] \in Messages
          BY <1>1, <1>2
        <5>3. CASE Size(before[i]) > 1
          <6>1. folded[i] = [before[i] EXCEPT !.form = "folded"]
            BY <1>2, <3>1, <5>1, <5>2, <5>3 DEF Messages
          <6> QED BY <5>2, <6>1 DEF Size, Messages
        <5>4. CASE ~(Size(before[i]) > 1)
          BY <1>2, <3>1, <5>4
        <5> QED BY <5>3, <5>4
      <4> HIDE DEF folded
      <4>2. i \notin Trimmable(folded)
        <5> SUFFICES ASSUME i \in Trimmable(folded)
                     PROVE  FALSE
          OBVIOUS
        <5>1. folded[i].weight = 4 /\ folded[i].form = "full"
          BY DEF Trimmable
        <5> QED BY <4>1, <5>1 DEF Size
      <4> QED BY <2>1, <4>1, <4>2
    <3> HIDE DEF folded
    <3> QED BY <2>1, <3>1 DEF Folded
  <2>3. Trimmable(after) = {}
    <3> HIDE DEF folded
    <3> SUFFICES ASSUME NEW i \in Trimmable(after)
                 PROVE  FALSE
      OBVIOUS
    <3>1. i \in DOMAIN folded /\ after[i].form = "full"
      BY <2>1 DEF Trimmable
    <3>2. i \notin Trimmable(folded) /\ after[i] = folded[i]
      BY <1>4, <2>1, <3>1 DEF Messages
    <3>3. ToolsAfter(after, i) = ToolsAfter(folded, i)
      <4>1. \A j \in DOMAIN folded : after[j].role = folded[j].role
        BY <1>4, <2>1 DEF Messages
      <4>2. DOMAIN after = DOMAIN folded
        BY <2>1
      <4>3. {j \in DOMAIN after : j > i /\ after[j].role = "tool"} =
            {j \in DOMAIN folded : j > i /\ folded[j].role = "tool"}
        BY <4>1, <4>2
      <4> QED BY <4>3 DEF ToolsAfter
    <3> QED BY <3>1, <3>2, <3>3 DEF Trimmable
  <2>4. Trimmed(after) = after
    <3>1. Cardinality(Trimmable(after)) = 0
      BY <2>3, FS_EmptySet
    <3>2. 0 < MinBatch
      BY ConversationAssumption
    <3> QED BY <3>1, <3>2 DEF Trimmed
  <2> HIDE DEF folded, limit
  <2> QED BY <1>3, <2>2, <2>4 DEF Reclaimed
<1> QED BY <1>5, <1>6

\* A conversation that is saved, or would have been, has what every one has.
LEMMA SavingKeeps ==
    ASSUME TalkInv, NEW t, TalkShape(t), Spared(t), ~broken => Kept(t), NEW fails \in BOOLEAN,
           SaveTalk(t, fails), archived' = archived, said' \in Nat, settled' = FALSE
    PROVE  TalkInv'
<1>1. talk' = t /\ (saved' = t \/ saved' = saved) /\ broken' = (broken \/ fails)
  BY DEF SaveTalk
<1>2. broken \in BOOLEAN /\ broken' \in BOOLEAN
  BY <1>1 DEF TalkInv
<1>3. TalkShape(talk') /\ TalkShape(saved') /\ Spared(talk') /\ Spared(saved')
  BY <1>1 DEF TalkInv
<1>4. ~broken' => Kept(talk') /\ Kept(saved')
  BY <1>1 DEF TalkInv
<1> QED BY <1>2, <1>3, <1>4 DEF TalkInv, TalkShape, Spared, Kept

\* One message more: it is whole.
LEMMA MessageAppended ==
    ASSUME TalkInv, NEW kind \in [role : {"user", "assistant", "tool"}, weight : {1, 2, 4}, bad : BOOLEAN],
           NEW start \in {talk.taskStart, Len(talk.messages)},
           NEW t, t = [talk EXCEPT !.taskStart = start, !.messages = Append(@, Message(kind))]
    PROVE  TalkShape(t) /\ Spared(t) /\ (~broken => Kept(t))
<1> DEFINE old == talk.messages
           m == Message(kind)
<1>1. /\ old \in Seq(Messages) /\ Len(old) \in Nat /\ DOMAIN old = 1 .. Len(old) /\ talk.taskStart \in Nat
  BY LenProperties DEF TalkInv, TalkShape
<1>0. /\ t.messages = Append(old, m) /\ t.taskStart = start
      /\ t = [messages |-> t.messages, summaries |-> t.summaries, taskStart |-> t.taskStart,
              version |-> t.version, window |-> t.window]
  BY DEF TalkInv, TalkShape
<1>2. m \in Messages /\ m.form = "full"
  BY DEF Message, Messages, TalkInv
<1>3. /\ t.messages \in Seq(Messages) /\ DOMAIN t.messages = 1 .. Len(old) + 1
      /\ \A i \in 1 .. Len(old) : t.messages[i] = old[i]
      /\ t.messages[Len(old) + 1] = m
  <2> DEFINE longer == Append(old, m)
  <2> HIDE DEF old, m
  <2>1. /\ longer \in Seq(Messages) /\ Len(longer) = Len(old) + 1
        /\ \A i \in 1 .. Len(old) : longer[i] = old[i]
        /\ longer[Len(old) + 1] = m
    BY <1>1, <1>2, AppendProperties
  <2>2. DOMAIN longer = 1 .. Len(longer)
    BY <2>1, LenProperties
  <2>3. t.messages = longer
    BY <1>0
  <2> HIDE DEF longer
  <2> QED BY <2>1, <2>2, <2>3
<1>4. \A i \in 1 .. Len(old) + 1 : i \in 1 .. Len(old) \/ i = Len(old) + 1
  BY <1>1
<1> HIDE DEF m
<1>5. TalkShape(t)
  BY <1>0, <1>1, <1>3 DEF TalkShape
<1>6. Spared(t)
  <2> SUFFICES ASSUME NEW i \in DOMAIN t.messages
               PROVE  /\ i > t.taskStart => t.messages[i].form # "folded"
                      /\ t.messages[i].bad => t.messages[i].form # "trimmed"
    BY DEF Spared
  <2>1. CASE i = Len(old) + 1
    BY <1>2, <1>3, <2>1
  <2>2. CASE i \in 1 .. Len(old)
    <3>1. /\ i > talk.taskStart => old[i].form # "folded"
          /\ old[i].bad => old[i].form # "trimmed"
      BY <1>1, <2>2 DEF TalkInv, Spared
    <3>2. t.messages[i] = old[i] /\ (i > t.taskStart => i > talk.taskStart)
      BY <1>0, <1>1, <1>3, <2>2
    <3> QED BY <3>1, <3>2
  <2> QED BY <1>3, <1>4, <2>1, <2>2
<1>7. ~broken => Kept(t)
  BY <1>1, <1>2, <1>3, <1>4 DEF TalkInv, Kept
<1> QED BY <1>5, <1>6, <1>7

LEMMA BeginTalkTaskKeeps ==
    ASSUME TalkInv, NEW fails \in BOOLEAN, BeginTalkTask(fails)
    PROVE  TalkInv'
<1> DEFINE t == [talk EXCEPT !.taskStart = Len(talk.messages), !.messages = Append(@, Message(Asked))]
<1>1. Asked \in [role : {"user", "assistant", "tool"}, weight : {1, 2, 4}, bad : BOOLEAN]
  BY DEF Asked
<1>2. SaveTalk(t, fails) /\ archived' = archived /\ said' \in Nat /\ settled' = FALSE
  BY DEF BeginTalkTask, TalkInv
<1>3. TalkShape(t) /\ Spared(t) /\ (~broken => Kept(t))
  BY <1>1, MessageAppended
<1> HIDE DEF t
<1> QED BY <1>2, <1>3, SavingKeeps

LEMMA AppendMessageKeeps ==
    ASSUME TalkInv, NEW kind \in Kinds, NEW fails \in BOOLEAN, AppendMessage(kind, fails)
    PROVE  TalkInv'
<1> DEFINE t == [talk EXCEPT !.messages = Append(@, Message(kind))]
<1>1. kind \in [role : {"user", "assistant", "tool"}, weight : {1, 2, 4}, bad : BOOLEAN]
  BY ConversationAssumption
<1>2. SaveTalk(t, fails) /\ archived' = archived /\ said' \in Nat /\ settled' = FALSE
  BY DEF AppendMessage, TalkInv
<1>3. TalkShape(t) /\ Spared(t) /\ (~broken => Kept(t))
  <2>1. t = [talk EXCEPT !.taskStart = talk.taskStart, !.messages = Append(@, Message(kind))]
    BY DEF TalkInv, TalkShape
  <2> HIDE DEF t
  <2> QED BY <1>1, <2>1, MessageAppended
<1> HIDE DEF t
<1> QED BY <1>2, <1>3, SavingKeeps

LEMMA BuildRequestKeeps ==
    ASSUME TalkInv, NEW fails \in BOOLEAN, BuildRequest(fails)
    PROVE  TalkInv'
<1> DEFINE units == Units(talk.messages, WindowStart(talk))
           version == talk.version + (IF WindowDropped(units) THEN 1 ELSE 0)
           t == [talk EXCEPT !.window = {units}, !.version = version]
<1>1. archived' = archived /\ said' = said /\ settled' = FALSE
  BY DEF BuildRequest
<1>2. (UNCHANGED <<talk, saved, broken>>) \/ SaveTalk(t, fails)
  BY DEF BuildRequest
<1> HIDE DEF units, version
<1>3. CASE UNCHANGED <<talk, saved, broken>>
  BY <1>1, <1>3 DEF TalkInv, TalkShape, Spared, Kept
<1>4. CASE SaveTalk(t, fails)
  <2>1. /\ t.messages = talk.messages /\ t.taskStart = talk.taskStart
        /\ t = [messages |-> t.messages, summaries |-> t.summaries, taskStart |-> t.taskStart,
                version |-> t.version, window |-> t.window]
    <3> DEFINE window == {units}
    <3> HIDE DEF window
    <3>1. talk = [messages |-> talk.messages, summaries |-> talk.summaries, taskStart |-> talk.taskStart,
                  version |-> talk.version, window |-> talk.window]
      BY DEF TalkInv, TalkShape
    <3>2. t = [talk EXCEPT !.window = window, !.version = version]
      BY DEF window
    <3> HIDE DEF t
    <3> QED BY <3>1, <3>2
  <2> HIDE DEF t
  <2>2. TalkShape(t) /\ Spared(t) /\ (~broken => Kept(t))
    BY <2>1 DEF TalkInv, TalkShape, Spared, Kept
  <2> QED BY <1>1, <1>4, <2>2, SavingKeeps DEF TalkInv
<1> QED BY <1>2, <1>3, <1>4

\* What Maintain shortens it archives, or a write failed.
LEMMA MaintainKeeps ==
    ASSUME TalkInv, NEW fails \in BOOLEAN, NEW unarchived \in BOOLEAN, Maintain(fails, unarchived)
    PROVE  TalkInv'
<1> DEFINE after == Reclaimed(talk)
<1>1. /\ after \in Seq(Messages) /\ DOMAIN after = DOMAIN talk.messages
      /\ \A i \in DOMAIN talk.messages :
             /\ after[i].id = talk.messages[i].id /\ after[i].role = talk.messages[i].role
             /\ after[i].weight = talk.messages[i].weight /\ after[i].bad = talk.messages[i].bad
             /\ \/ after[i].form = talk.messages[i].form
                \/ after[i].form = "folded" /\ i <= talk.taskStart
                \/ after[i].form = "trimmed" /\ ~talk.messages[i].bad
  BY ReclaimedIs DEF TalkInv
<1>2. /\ talk' = [talk EXCEPT !.messages = after, !.version = @ + 1]
      /\ saved' \in {saved, talk'} /\ broken' = (broken \/ fails \/ unarchived)
      /\ archived' = IF unarchived THEN archived ELSE archived \union Pruned(talk.messages, after)
      /\ UNCHANGED <<superseded, said>>
  BY DEF Maintain
<1>3. /\ talk'.messages = after /\ talk'.taskStart = talk.taskStart
      /\ talk' = [messages |-> talk'.messages, summaries |-> talk'.summaries,
                  taskStart |-> talk'.taskStart, version |-> talk'.version, window |-> talk'.window]
  BY <1>2 DEF TalkInv, TalkShape
<1>4. settled' => Reclaimed(talk)' = talk'.messages
  <2>1. Reclaimed(talk') = talk'.messages
    BY <1>3, ReclaimedTwice DEF TalkInv
  <2>2. Reclaimed(talk)' = Reclaimed(talk')
    <3>1. superseded' = superseded
      BY <1>2
    <3>2. \A ms : Trimmable(ms)' = Trimmable(ms)
      BY <3>1 DEF Trimmable
    <3>3. \A ms : Trimmed(ms)' = Trimmed(ms)
      BY <3>2 DEF Trimmed
    <3> QED BY <3>3 DEF Reclaimed
  <2> QED BY <2>1, <2>2
<1> HIDE DEF after
<1>5. TalkShape(talk)' /\ Spared(talk)'
  <2>1. TalkShape(talk)'
    BY <1>1, <1>3 DEF TalkInv, TalkShape
  <2>2. Spared(talk)'
    <3> SUFFICES ASSUME NEW i \in DOMAIN after
                 PROVE  /\ i > talk.taskStart => after[i].form # "folded"
                        /\ after[i].bad => after[i].form # "trimmed"
      BY <1>3 DEF Spared
    <3>1. /\ i > talk.taskStart => talk.messages[i].form # "folded"
          /\ talk.messages[i].bad => talk.messages[i].form # "trimmed"
      BY <1>1 DEF TalkInv, Spared
    <3>2. i \in Nat /\ talk.taskStart \in Nat
      BY <1>1, LenProperties DEF TalkInv, TalkShape
    <3> QED BY <1>1, <3>1, <3>2
  <2> QED BY <2>1, <2>2
<1>6. ~broken' => Kept(talk)'
  <2> SUFFICES ASSUME ~broken', NEW i \in DOMAIN after, after[i].role = "tool", after[i].form # "full"
               PROVE  after[i].id \in archived'
    BY <1>3 DEF Kept
  <2>1. ~broken /\ ~unarchived /\ archived' = archived \union Pruned(talk.messages, after)
    BY <1>2
  <2>2. CASE talk.messages[i].form = "full"
    BY <1>1, <2>1, <2>2 DEF Pruned
  <2>3. CASE talk.messages[i].form # "full"
    BY <1>1, <2>1, <2>3 DEF TalkInv, Kept
  <2> QED BY <2>2, <2>3
<1>7. ~broken' => Kept(saved)'
  <2>1. CASE saved' = saved
    BY <1>2, <2>1 DEF TalkInv, Kept
  <2>2. CASE saved' = talk'
    BY <1>6, <2>2 DEF Kept
  <2> QED BY <1>2, <2>1, <2>2
<1>8. TalkShape(saved)' /\ Spared(saved)'
  BY <1>2, <1>5 DEF TalkInv, TalkShape, Spared
<1> QED BY <1>2, <1>4, <1>5, <1>6, <1>7, <1>8 DEF TalkInv

LEMMA ReopenTalkKeeps ==
    ASSUME TalkInv, ReopenTalk
    PROVE  TalkInv'
BY DEF ReopenTalk, TalkInv, TalkShape, Spared, Kept

\* A summary leaves the newest units; there is at least one.
LEMMA UnitsLeft ==
    ASSUME NEW messages \in Seq(Messages), messages # <<>>
    PROVE  LET starts == UnitStarts(messages)
               kept == {i \in starts : Cardinality({j \in starts : j >= i}) <= KeepUnits}
           IN  \E i \in kept : \A j \in kept : i <= j
<1> DEFINE starts == UnitStarts(messages)
           kept == {i \in starts : Cardinality({j \in starts : j >= i}) <= KeepUnits}
<1>1. Len(messages) \in Nat /\ Len(messages) # 0 /\ DOMAIN messages = 1 .. Len(messages)
  BY LenProperties, EmptySeq
<1>2. starts \in SUBSET Nat /\ 1 \in starts /\ \A i \in starts : i <= Len(messages)
  BY <1>1 DEF UnitStarts
<1> HIDE DEF starts
<1>3. PICK last \in starts : \A j \in starts : j <= last
  BY <1>1, <1>2, GreatestNumber
<1>4. {j \in starts : j >= last} = {last}
  <2>1. \A j \in starts : j >= last <=> j = last
    BY <1>2, <1>3
  <2> QED BY <2>1
<1>5. Cardinality({last}) = 1
  BY FS_Singleton
<1>6. last \in kept
  <2>1. 1 <= KeepUnits
    BY ConversationAssumption
  <2> QED BY <1>4, <1>5, <2>1
<1>7. kept \in SUBSET Nat
  BY <1>2
<1> HIDE DEF kept
<1>8. \E i \in kept : \A j \in kept : i <= j
  BY <1>6, <1>7, LeastNumber
<1> QED BY <1>8 DEF kept, starts

LEMMA CompactToKeeps ==
    ASSUME TalkInv, NEW fails \in BOOLEAN, CompactTo(fails)
    PROVE  TalkInv'
<1> DEFINE old == talk.messages
           starts == UnitStarts(old)
           kept == {i \in starts : Cardinality({j \in starts : j >= i}) <= KeepUnits}
           first == CHOOSE i \in kept : \A j \in kept : i <= j
           removed == first - 1
           left == SubSeq(old, removed + 1, Len(old))
           start == IF talk.taskStart > removed THEN talk.taskStart - removed ELSE 0
           t == [messages |-> left, summaries |-> talk.summaries + 1, taskStart |-> start,
                 version |-> talk.version + 1, window |-> {}]
<1>1. /\ SaveTalk(t, fails) /\ archived' = archived /\ said' \in Nat /\ settled' = FALSE
      /\ old # <<>>
  BY DEF CompactTo, TalkInv
<1>2. /\ old \in Seq(Messages) /\ Len(old) \in Nat /\ DOMAIN old = 1 .. Len(old) /\ talk.taskStart \in Nat
      /\ \A i \in 1 .. Len(old) : old[i] \in Messages
  BY LenProperties, ElementOfSeq DEF TalkInv, TalkShape
<1>3. first \in 1 .. Len(old)
  <2>1. \E i \in kept : \A j \in kept : i <= j
    BY <1>1, <1>2, UnitsLeft
  <2>2. first \in kept
    <3> HIDE DEF kept
    <3> QED BY <2>1
  <2> HIDE DEF first
  <2> QED BY <1>2, <2>2 DEF UnitStarts
<1> HIDE DEF first
<1>4. removed \in Nat /\ removed < Len(old) /\ start \in Nat
  BY <1>2, <1>3
<1> HIDE DEF removed
<1>5. /\ left \in Seq(Messages) /\ DOMAIN left = 1 .. Len(old) - removed
      /\ \A i \in 1 .. Len(old) - removed : i + removed \in 1 .. Len(old) /\ left[i] = old[i + removed]
  <2> HIDE DEF old
  <2>1. \A i \in removed + 1 .. Len(old) : old[i] \in Messages
    BY <1>2, <1>4
  <2>2. /\ left \in Seq(Messages) /\ Len(left) = Len(old) - (removed + 1) + 1
        /\ \A i \in 1 .. Len(old) - (removed + 1) + 1 : left[i] = old[removed + 1 + i - 1]
    <3> DEFINE m == removed + 1
               n == Len(old)
    <3>1. m \in Int /\ n \in Int /\ m <= n
      BY <1>2, <1>4
    <3>2. \A i \in m .. n : old[i] \in Messages
      BY <2>1
    <3>3. left = SubSeq(old, m, n)
      OBVIOUS
    <3> HIDE DEF left, m, n
    <3>4. /\ SubSeq(old, m, n) \in Seq(Messages)
          /\ Len(SubSeq(old, m, n)) = IF m <= n THEN n - m + 1 ELSE 0
          /\ \A i \in 1 .. n - m + 1 : SubSeq(old, m, n)[i] = old[m + i - 1]
      BY <3>1, <3>2, SubSeqProperties
    <3>5. /\ left \in Seq(Messages) /\ Len(left) = n - m + 1
          /\ \A i \in 1 .. n - m + 1 : left[i] = old[m + i - 1]
      BY <3>1, <3>3, <3>4
    <3> QED BY <3>5 DEF m, n
  <2>3. DOMAIN left = 1 .. Len(left)
    BY <2>2, LenProperties
  <2> HIDE DEF left
  <2>4. Len(old) - (removed + 1) + 1 = Len(old) - removed
    BY <1>2, <1>4
  <2>5. \A i \in 1 .. Len(old) - removed : removed + 1 + i - 1 = i + removed /\ i + removed \in 1 .. Len(old)
    BY <1>2, <1>4
  <2> QED BY <2>2, <2>3, <2>4, <2>5
<1>6. /\ t.messages = left /\ t.taskStart = start
      /\ t = [messages |-> t.messages, summaries |-> t.summaries, taskStart |-> t.taskStart,
              version |-> t.version, window |-> t.window]
  OBVIOUS
<1>7. \A i \in 1 .. Len(old) - removed : i > start => i + removed > talk.taskStart
  BY <1>2, <1>4
<1> HIDE DEF left, start, t
<1>8. TalkShape(t)
  BY <1>4, <1>5, <1>6 DEF TalkShape
<1>9. Spared(t)
  BY <1>2, <1>5, <1>6, <1>7 DEF TalkInv, Spared
<1>10. ~broken => Kept(t)
  BY <1>2, <1>5, <1>6 DEF TalkInv, Kept
<1> QED BY <1>1, <1>8, <1>9, <1>10, SavingKeeps

\* A conversation begins empty.
LEMMA TalkStarts == TalkInit => TalkInv
<1> SUFFICES ASSUME TalkInit
             PROVE  TalkInv
  OBVIOUS
<1>1. /\ talk = [messages |-> <<>>, summaries |-> 0, taskStart |-> 0, version |-> 0, window |-> {}]
      /\ saved = talk /\ said = 0 /\ broken = FALSE /\ settled = FALSE
  BY DEF TalkInit
<1>2. talk.messages = <<>> /\ talk.taskStart = 0
  BY <1>1
<1>3. DOMAIN talk.messages = {} /\ talk.messages \in Seq(Messages)
  BY <1>2
<1>4. TalkShape(talk)
  BY <1>1, <1>2, <1>3 DEF TalkShape
<1>5. Spared(talk) /\ Kept(talk)
  BY <1>3 DEF Spared, Kept
<1> QED BY <1>1, <1>4, <1>5 DEF TalkInv

\* No step shortens what could not be spared.
LEMMA TalkKeeps == TalkInv /\ [TalkNext]_talkVars => TalkInv'
<1> SUFFICES ASSUME TalkInv, [TalkNext]_talkVars
             PROVE  TalkInv'
  OBVIOUS
<1>1. CASE \E id \in 1 .. said : MarkSuperseded(id)
  BY <1>1 DEF MarkSuperseded, TalkInv, TalkShape, Spared, Kept
<1>2. CASE UNCHANGED talkVars
  <2>1. superseded' = superseded /\ talk' = talk /\ settled' = settled
    BY <1>2 DEF talkVars
  <2>2. \A ms : Trimmable(ms)' = Trimmable(ms)
    BY <2>1 DEF Trimmable
  <2>3. \A ms : Trimmed(ms)' = Trimmed(ms)
    BY <2>2 DEF Trimmed
  <2>4. Reclaimed(talk)' = Reclaimed(talk)
    BY <2>1, <2>3 DEF Reclaimed
  <2> QED BY <1>2, <2>1, <2>4 DEF talkVars, TalkInv, TalkShape, Spared, Kept
<1>3. CASE ReopenTalk
  BY <1>3, ReopenTalkKeeps
<1>4. CASE \E fails \in BOOLEAN :
               \/ BuildRequest(fails) \/ BeginTalkTask(fails) \/ CompactTo(fails)
               \/ \E kind \in Kinds : AppendMessage(kind, fails)
               \/ \E unarchived \in BOOLEAN : Maintain(fails, unarchived)
  BY <1>4, BuildRequestKeeps, BeginTalkTaskKeeps, CompactToKeeps, AppendMessageKeeps, MaintainKeeps
<1> QED BY <1>1, <1>2, <1>3, <1>4 DEF TalkNext

\* Whatever is said, folded, trimmed, summarised or opened again, in any order: what
\* reclaiming shortens could be spared, and is in the archive.
THEOREM ReclaimAlwaysSafe == TalkSpec => []ReclaimIsSafe
<1>1. TalkInit => TalkInv
  BY TalkStarts
<1>2. TalkInv /\ [TalkNext]_talkVars => TalkInv'
  BY TalkKeeps
<1>3. TalkInv => ReclaimIsSafe
  BY DEF TalkInv, Spared, Kept, ReclaimIsSafe
<1> QED BY <1>1, <1>2, <1>3, PTL DEF TalkSpec

\* What a part of the conversation weighs is the last value of a run through its messages.
WeightOf(messages) == FoldLeft(LAMBDA sum, m : sum + Size(m), 0, messages)

WeightRun(run, messages) ==
    /\ run \in [0 .. Len(messages) -> Nat] /\ run[0] = 0
    /\ \A i \in 1 .. Len(messages) : run[i] = run[i - 1] + Size(messages[i])

LEMMA SizeIs == \A m \in Messages : Size(m) \in Nat
BY DEF Messages, Size

LEMMA WeightIsRun ==
    ASSUME NEW messages \in Seq(Messages)
    PROVE  \E run : WeightRun(run, messages) /\ WeightOf(messages) = run[Len(messages)]
<1> DEFINE n == Len(messages)
           step == [i \in 1 .. n |-> [a \in Nat |-> a + Size(messages[i])]]
           body(g) == [s \in SUBSET (1 .. n) |-> IF s = {} THEN 0 ELSE g[s \ {Max(s)}] + Size(messages[Max(s)])]
           iter == CHOOSE iter : iter = body(iter)
<1>1. n \in Nat /\ DOMAIN messages = 1 .. n /\ \A i \in 1 .. n : Size(messages[i]) \in Nat
  <2>1. n \in Nat /\ DOMAIN messages = 1 .. n /\ \A i \in 1 .. n : messages[i] \in Messages
    BY LenProperties, ElementOfSeq
  <2> QED BY <2>1, SizeIs
<1>2. WeightOf(messages) = iter[1 .. n]
  BY <1>1 DEF WeightOf, FoldLeft, MapThenFoldSet
<1> HIDE DEF n
<1>3. \A i \in 1 .. n : step[i] \in [Nat -> Nat]
  BY <1>1
<1>4. \A i \in 1 .. n : \A a \in Nat : step[i][a] = a + Size(messages[i])
  BY <1>1
<1> HIDE DEF step
<1>5. \E g : g = body(g)
  <2>1. FoldOf(0, step, n, Nat) # {}
    BY <1>1, <1>3, FoldExists
  <2>2. PICK g \in [SUBSET (1 .. n) -> Nat] :
            \A s \in SUBSET (1 .. n) : g[s] = IF s = {} THEN 0 ELSE step[Max(s)][g[s \ {Max(s)}]]
    BY <2>1 DEF FoldOf
  <2>3. ASSUME NEW s \in SUBSET (1 .. n)
        PROVE  g[s] = IF s = {} THEN 0 ELSE g[s \ {Max(s)}] + Size(messages[Max(s)])
    <3>1. CASE s # {}
      <4>1. Max(s) \in 1 .. n /\ s \ {Max(s)} \in SUBSET (1 .. n)
        BY <1>1, <3>1, MaxIn
      <4> QED BY <1>4, <2>2, <3>1, <4>1
    <3> QED BY <2>2, <3>1
  <2>4. g = body(g)
    BY <2>3
  <2> QED BY <2>4
<1>6. iter = body(iter)
  <2> HIDE DEF body
  <2> QED BY <1>5
<1> HIDE DEF iter
<1>7. PICK run \in [0 .. n -> Nat] : run[0] = 0 /\ \A i \in 1 .. n : run[i] = step[i][run[i - 1]]
  <2> HIDE DEF body
  <2>1. 0 \in Nat
    OBVIOUS
  <2>2. RunOf(0, step, n, Nat) # {}
    BY <1>1, <1>3, <2>1, RunExists
  <2> QED BY <2>2 DEF RunOf
<1>8. iter[1 .. n] = run[n]
  <2> DEFINE P == {m \in 0 .. n : iter[1 .. m] = run[m]}
  <2>1. 0 \in P
    <3>1. 1 .. 0 = {} /\ {} \in SUBSET (1 .. n) /\ 0 \in 0 .. n
      BY <1>1, MaxIn
    <3>2. iter[{}] = 0
      BY <1>6, <3>1
    <3> QED BY <1>7, <3>1, <3>2
  <2>2. ASSUME NEW m \in 0 .. n, m < n, m \in P
        PROVE  m + 1 \in P
    <3>1. m + 1 \in 1 .. n /\ (m + 1) - 1 = m /\ m + 1 \in 0 .. n
      BY <1>1, <2>2
    <3>2. /\ Max(1 .. m + 1) = m + 1 /\ (1 .. m + 1) \ {m + 1} = 1 .. m
          /\ 1 .. m + 1 \in SUBSET (1 .. n) /\ 1 .. m + 1 # {}
      BY <1>1, <3>1, MaxIn
    <3>3. iter[1 .. m + 1] = iter[1 .. m] + Size(messages[m + 1])
      BY <1>6, <3>2
    <3>4. run[m] \in Nat /\ run[m + 1] = step[m + 1][run[m]]
      BY <1>7, <3>1
    <3> QED BY <1>4, <2>2, <3>1, <3>3, <3>4
  <2>3. 0 .. n \subseteq P
    <3> HIDE DEF P
    <3> QED BY <1>1, <2>1, <2>2, UpTo
  <2> QED BY <1>1, <2>3
<1>9. \A i \in 1 .. n : run[i - 1] \in Nat /\ run[i] = run[i - 1] + Size(messages[i])
  <2> HIDE DEF body
  <2>1. \A i \in 1 .. n : i - 1 \in 0 .. n
    BY <1>1
  <2> QED BY <1>4, <1>7, <2>1
<1>10. WeightRun(run, messages)
  <2> HIDE DEF body
  <2> QED BY <1>7, <1>9 DEF WeightRun, n
<1> QED BY <1>2, <1>8, <1>10 DEF n

\* A message more weighs its size more.
LEMMA WeightGrows ==
    ASSUME NEW messages \in Seq(Messages), NEW m \in Messages
    PROVE  /\ WeightOf(messages) \in Nat /\ Size(m) \in Nat
           /\ WeightOf(Append(messages, m)) = WeightOf(messages) + Size(m)
<1> DEFINE n == Len(messages)
           longer == Append(messages, m)
<1>1. PICK run : WeightRun(run, messages) /\ WeightOf(messages) = run[n]
  BY WeightIsRun
<1>2. /\ n \in Nat /\ longer \in Seq(Messages) /\ Len(longer) = n + 1
      /\ \A i \in 1 .. n : longer[i] = messages[i]
      /\ longer[n + 1] = m
  BY LenProperties, AppendProperties
<1> HIDE DEF n, longer
<1>3. PICK other : WeightRun(other, longer) /\ WeightOf(longer) = other[n + 1]
  BY <1>2, WeightIsRun
<1>4. /\ run \in [0 .. n -> Nat] /\ run[0] = 0
      /\ \A i \in 1 .. n : run[i] = run[i - 1] + Size(messages[i])
  BY <1>1 DEF WeightRun, n
<1>5. /\ other[0] = 0
      /\ \A i \in 1 .. n + 1 : other[i] = other[i - 1] + Size(longer[i])
  BY <1>2, <1>3 DEF WeightRun
<1> DEFINE P == {i \in 0 .. n : other[i] = run[i]}
<1>6. 0 \in P
  BY <1>2, <1>4, <1>5
<1>7. ASSUME NEW i \in 0 .. n, i < n, i \in P
      PROVE  i + 1 \in P
  <2>1. i + 1 \in 1 .. n /\ i + 1 \in 1 .. n + 1 /\ (i + 1) - 1 = i /\ i + 1 \in 0 .. n
    BY <1>2, <1>7
  <2>2. other[i + 1] = other[i] + Size(longer[i + 1])
    BY <1>5, <2>1
  <2>3. run[i + 1] = run[i] + Size(messages[i + 1])
    BY <1>4, <2>1
  <2> QED BY <1>2, <1>7, <2>1, <2>2, <2>3
<1>8. n \in P
  <2>1. 0 .. n \subseteq P
    <3> HIDE DEF P
    <3> QED BY <1>2, <1>6, <1>7, UpTo
  <2> QED BY <1>2, <2>1
<1>9. other[n + 1] = other[n] + Size(longer[n + 1])
  <2>1. n + 1 \in 1 .. n + 1 /\ (n + 1) - 1 = n
    BY <1>2
  <2> QED BY <1>5, <2>1
<1>10. run[n] \in Nat
  BY <1>2, <1>4
<1> QED BY <1>1, <1>2, <1>3, <1>8, <1>9, <1>10, SizeIs DEF longer

\* The units of a conversation begin at some of its messages, the first one among them.
LEMMA StartsAre ==
    ASSUME NEW messages \in Seq(Messages)
    PROVE  /\ UnitStarts(messages) \in SUBSET Nat /\ UnitStarts(messages) \subseteq 1 .. Len(messages)
           /\ Len(messages) \in Nat /\ DOMAIN messages = 1 .. Len(messages)
           /\ messages # <<>> => 1 \in UnitStarts(messages)
<1>1. Len(messages) \in Nat /\ DOMAIN messages = 1 .. Len(messages) /\ (messages # <<>> => Len(messages) # 0)
  BY LenProperties, EmptySeq
<1> QED BY <1>1 DEF UnitStarts

\* A unit further on has more units before it.
LEMMA UnitsGrow ==
    ASSUME NEW messages \in Seq(Messages), NEW i \in UnitStarts(messages), NEW j \in UnitStarts(messages), i < j
    PROVE  Units(messages, i) \in Nat /\ Units(messages, j) \in Nat /\ Units(messages, i) < Units(messages, j)
<1> DEFINE starts == UnitStarts(messages)
           before(k) == {l \in starts : l < k}
<1>1. /\ starts \in SUBSET Nat /\ starts \subseteq 1 .. Len(messages) /\ Len(messages) \in Nat
      /\ i \in starts /\ j \in starts /\ i \in Nat /\ j \in Nat
  BY StartsAre
<1> HIDE DEF starts
<1>2. IsFiniteSet(1 .. Len(messages))
  BY <1>1, FS_Interval
<1>3. IsFiniteSet(before(i)) /\ IsFiniteSet(before(j))
  <2>1. before(i) \subseteq 1 .. Len(messages) /\ before(j) \subseteq 1 .. Len(messages)
    BY <1>1
  <2> HIDE DEF before
  <2> QED BY <1>2, <2>1, FS_Subset
<1>4. before(i) \subseteq before(j) /\ i \in before(j) /\ i \notin before(i)
  <2>1. \A l \in starts : l < i => l < j
    BY <1>1
  <2>2. i < j /\ ~(i < i)
    BY <1>1
  <2> QED BY <1>1, <2>1, <2>2
<1>5. /\ Cardinality(before(i)) \in Nat /\ Cardinality(before(j)) \in Nat
      /\ Cardinality(before(i)) < Cardinality(before(j))
  <2> HIDE DEF before
  <2>1. Cardinality(before(i)) \in Nat /\ Cardinality(before(j)) \in Nat
    BY <1>3, FS_CardinalityType
  <2>2. Cardinality(before(i)) <= Cardinality(before(j)) /\ Cardinality(before(i)) # Cardinality(before(j))
    BY <1>3, <1>4, FS_Subset
  <2> QED BY <2>1, <2>2
<1> QED BY <1>5 DEF Units, starts

\* Does a request that starts at a message fit, or is it the last unit?
Fits(t, i) == \/ 1 + t.summaries + WeightFrom(t.messages, i) <= Budget
              \/ \A j \in UnitStarts(t.messages) : j <= i

\* The window starts at the first unit that fits.
LEMMA WindowStartIs ==
    ASSUME NEW t, t.messages \in Seq(Messages), t.messages # <<>>
    PROVE  /\ WindowStart(t) \in UnitStarts(t.messages) /\ Fits(t, WindowStart(t))
           /\ \A i \in UnitStarts(t.messages) : i < WindowStart(t) => ~Fits(t, i)
<1> DEFINE starts == UnitStarts(t.messages)
           fits == {i \in starts : 1 + t.summaries + WeightFrom(t.messages, i) <= Budget
                                   \/ \A j \in starts : j <= i}
           start == CHOOSE i \in fits : \A j \in fits : i <= j
<1>1. starts \in SUBSET Nat /\ starts # {} /\ Len(t.messages) \in Nat /\ \A i \in starts : i <= Len(t.messages)
  <2>1. starts \in SUBSET Nat /\ starts \subseteq 1 .. Len(t.messages) /\ Len(t.messages) \in Nat /\ 1 \in starts
    BY StartsAre
  <2> QED BY <2>1
<1>2. WindowStart(t) = start
  BY <1>1 DEF WindowStart
<1>3. fits = {i \in starts : Fits(t, i)}
  BY DEF Fits
<1> HIDE DEF starts
<1>4. PICK last \in starts : \A j \in starts : j <= last
  BY <1>1, GreatestNumber
<1>5. last \in fits /\ fits \in SUBSET Nat
  BY <1>1, <1>4
<1> HIDE DEF fits
<1>6. \E i \in fits : \A j \in fits : i <= j
  BY <1>5, LeastNumber
<1>7. start \in fits /\ \A j \in fits : start <= j
  BY <1>6
<1> HIDE DEF start
<1>8. start \in starts /\ Fits(t, start)
  BY <1>3, <1>7
<1>9. ASSUME NEW i \in starts, i < start
      PROVE  ~Fits(t, i)
  <2>1. i \in fits => start <= i
    BY <1>7
  <2>2. i \in Nat /\ start \in Nat
    BY <1>1, <1>8
  <2> QED BY <1>3, <1>9, <2>1, <2>2
<1> QED BY <1>2, <1>8, <1>9 DEF starts

\* A message more: the units that began still do, and what followed one weighs no less.
LEMMA WindowAfterAppend ==
    ASSUME NEW messages \in Seq(Messages), NEW m \in Messages, NEW i \in UnitStarts(messages)
    PROVE  LET longer == Append(messages, m)
           IN  /\ i \in UnitStarts(longer) /\ Units(longer, i) = Units(messages, i)
               /\ \A j \in UnitStarts(longer) : j < i => j \in UnitStarts(messages)
               /\ WeightFrom(messages, i) \in Nat /\ WeightFrom(longer, i) \in Nat
               /\ WeightFrom(messages, i) <= WeightFrom(longer, i)
<1> DEFINE n == Len(messages)
           longer == Append(messages, m)
           part == SubSeq(messages, i, n)
<1>1. /\ n \in Nat /\ i \in 1 .. n /\ DOMAIN messages = 1 .. n
      /\ longer \in Seq(Messages) /\ Len(longer) = n + 1 /\ DOMAIN longer = 1 .. n + 1
      /\ \A k \in 1 .. n : longer[k] = messages[k] /\ messages[k] \in Messages
      /\ longer[n + 1] = m
  <2>1. n \in Nat /\ i \in 1 .. n /\ DOMAIN messages = 1 .. n
    BY StartsAre
  <2>2. /\ longer \in Seq(Messages) /\ Len(longer) = n + 1
        /\ \A k \in 1 .. n : longer[k] = messages[k]
        /\ longer[n + 1] = m
    BY AppendProperties
  <2>3. DOMAIN longer = 1 .. Len(longer)
    BY <2>2, LenProperties
  <2>4. \A k \in 1 .. n : messages[k] \in Messages
    BY ElementOfSeq
  <2> HIDE DEF longer
  <2> QED BY <2>1, <2>2, <2>3, <2>4
<1> HIDE DEF longer, n
<1>2. \A j \in 1 .. n : j \in UnitStarts(longer) <=> j \in UnitStarts(messages)
  <2>1. \A j \in 1 .. n : j \in 1 .. n + 1
    BY <1>1
  <2> QED BY <1>1, <2>1 DEF UnitStarts
<1>3. \A j \in UnitStarts(longer) : j \in 1 .. n + 1
  BY <1>1 DEF UnitStarts
<1>4. \A j \in 1 .. n + 1 : j < i => j \in 1 .. n
  BY <1>1
<1>5. {j \in UnitStarts(longer) : j < i} = {j \in UnitStarts(messages) : j < i}
  <2>1. \A j \in UnitStarts(messages) : j \in 1 .. n
    BY <1>1 DEF UnitStarts
  <2> QED BY <1>2, <1>3, <1>4, <2>1
<1>6. Units(longer, i) = Units(messages, i)
  BY <1>5 DEF Units
<1>7. /\ part \in Seq(Messages) /\ Len(part) = n - i + 1
      /\ \A k \in 1 .. n - i + 1 : part[k] = messages[i + k - 1]
  <2>1. i \in 1 .. n + 1 /\ n \in i - 1 .. n /\ i <= n
    BY <1>1
  <2> QED BY <1>1, <2>1, SubSeqProperties DEF n
<1> HIDE DEF part
<1>8. SubSeq(longer, i, n + 1) = Append(part, m)
  <2> DEFINE a == SubSeq(longer, i, n + 1)
             b == Append(part, m)
  <2>1. /\ a \in Seq(Messages) /\ Len(a) = (n + 1) - i + 1
        /\ \A k \in 1 .. (n + 1) - i + 1 : a[k] = longer[i + k - 1]
    <3>1. i \in 1 .. Len(longer) + 1 /\ n + 1 \in i - 1 .. Len(longer) /\ i <= n + 1
      BY <1>1
    <3> QED BY <1>1, <3>1, SubSeqProperties
  <2>2. /\ b \in Seq(Messages) /\ Len(b) = (n - i + 1) + 1 /\ b[(n - i + 1) + 1] = m
        /\ \A k \in 1 .. n - i + 1 : b[k] = part[k]
    BY <1>7, AppendProperties
  <2> HIDE DEF a, b
  <2>3. Len(a) = Len(b)
    BY <1>1, <2>1, <2>2
  <2>4. ASSUME NEW k \in 1 .. Len(a)
        PROVE  a[k] = b[k]
    <3>1. k \in 1 .. (n + 1) - i + 1
      BY <2>1
    <3>2. CASE k = (n - i + 1) + 1
      <4>1. i + k - 1 = n + 1
        BY <1>1, <3>2
      <4> QED BY <1>1, <2>1, <2>2, <3>1, <3>2, <4>1
    <3>3. CASE k # (n - i + 1) + 1
      <4>1. k \in 1 .. n - i + 1 /\ i + k - 1 \in 1 .. n
        BY <1>1, <3>1, <3>3
      <4> QED BY <1>1, <1>7, <2>1, <2>2, <3>1, <4>1
    <3> QED BY <3>2, <3>3
  <2>5. a = b
    BY <2>1, <2>2, <2>3, <2>4, SeqEqual
  <2> QED BY <2>5 DEF a, b
<1>9. WeightFrom(messages, i) = WeightOf(part) /\ WeightFrom(longer, i) = WeightOf(Append(part, m))
  BY <1>1, <1>8 DEF WeightFrom, WeightOf, part, n
<1>10. WeightOf(part) \in Nat /\ Size(m) \in Nat /\ WeightOf(Append(part, m)) = WeightOf(part) + Size(m)
  BY <1>7, WeightGrows
<1>11. /\ WeightFrom(messages, i) \in Nat /\ WeightFrom(longer, i) \in Nat
       /\ WeightFrom(messages, i) <= WeightFrom(longer, i)
  BY <1>9, <1>10
<1>12. \A j \in UnitStarts(longer) : j < i => j \in UnitStarts(messages)
  BY <1>2, <1>3, <1>4
<1>13. i \in UnitStarts(longer)
  BY <1>1, <1>2
<1> QED BY <1>6, <1>11, <1>12, <1>13 DEF longer

Forms == Nat \X {"full", "trimmed", "folded"}

\* The last request is still the beginning of the window the next one will have: it starts
\* at a unit no unit before which fits.
SentIsWindow ==
    /\ sent.summaries = talk.summaries
    /\ \E start \in UnitStarts(talk.messages) :
           /\ talk.window = {Units(talk.messages, start)}
           /\ \A i \in UnitStarts(talk.messages) : i < start => ~Fits(talk, i)
           /\ Len(sent.shown) <= Len(talk.messages) - start + 1
           /\ \A k \in 1 .. Len(sent.shown) :
                  LET m == talk.messages[start + k - 1] IN sent.shown[k] = <<m.id, m.form>>

SentInv ==
    /\ sent.shown \in Seq(Forms)
    /\ ~broken =>
        /\ saved = talk /\ talk.version \in Nat /\ talk.summaries \in Nat
        /\ sent.version \in Nat /\ sent.version <= talk.version
        /\ sent.version = talk.version /\ sent.shown # <<>> => SentIsWindow

\* What is shown of a conversation from one of its messages on.
LEMMA ShownIs ==
    ASSUME NEW t, t.messages \in Seq(Messages), NEW start \in UnitStarts(t.messages)
    PROVE  LET shown == Shown(t, start) n == Len(t.messages) - start + 1
           IN  /\ shown \in Seq(Forms) /\ Len(shown) = n /\ n \in Nat
               /\ \A k \in 1 .. n : LET m == t.messages[start + k - 1] IN shown[k] = <<m.id, m.form>>
<1> DEFINE n == Len(t.messages) - start + 1
           shown == Shown(t, start)
<1>1. Len(t.messages) \in Nat /\ start \in 1 .. Len(t.messages)
  BY StartsAre
<1>2. n \in Nat /\ start # 0 /\ \A k \in 1 .. n : start + k - 1 \in 1 .. Len(t.messages)
  BY <1>1
<1>3. \A k \in 1 .. n : t.messages[start + k - 1] \in Messages
  BY <1>2, ElementOfSeq
<1>4. shown = [k \in 1 .. n |-> LET m == t.messages[start + k - 1] IN <<m.id, m.form>>]
  BY <1>2 DEF Shown
<1> HIDE DEF n, shown
<1>5. shown \in [1 .. n -> Forms]
  BY <1>3, <1>4 DEF Forms, Messages
<1>6. shown \in Seq(Forms)
  BY <1>2, <1>5, SeqDef
<1>7. Len(shown) = n
  BY <1>2, <1>5, <1>6, LenProperties
<1> QED BY <1>2, <1>4, <1>6, <1>7 DEF n, shown

\* A text is a beginning of another that is as long and agrees with it.
LEMMA PrefixIs ==
    ASSUME NEW s \in Seq(Forms), NEW t \in Seq(Forms), Len(s) <= Len(t), \A k \in 1 .. Len(s) : s[k] = t[k]
    PROVE  IsPrefix(s, t)
<1> DEFINE n == Len(s)
           a == SubSeq(s, 1, n)
           b == SubSeq(t, 1, n)
<1>1. n \in Nat /\ Len(t) \in Nat /\ n <= Len(t)
  BY LenProperties
<1>2. n \in 1 - 1 .. Len(s) /\ n \in 1 - 1 .. Len(t) /\ 1 \in 1 .. Len(s) + 1 /\ 1 \in 1 .. Len(t) + 1
  BY <1>1
<1>3. a \in Seq(Forms) /\ Len(a) = (IF 1 <= n THEN n - 1 + 1 ELSE 0) /\ \A k \in 1 .. n - 1 + 1 : a[k] = s[1 + k - 1]
  BY <1>2, SubSeqProperties
<1>4. b \in Seq(Forms) /\ Len(b) = (IF 1 <= n THEN n - 1 + 1 ELSE 0) /\ \A k \in 1 .. n - 1 + 1 : b[k] = t[1 + k - 1]
  BY <1>2, SubSeqProperties
<1> HIDE DEF a, b, n
<1>5. Len(a) = n /\ Len(b) = n
  BY <1>1, <1>3, <1>4
<1>6. ASSUME NEW k \in 1 .. Len(a)
      PROVE  a[k] = b[k]
  <2>1. k \in 1 .. n - 1 + 1 /\ 1 + k - 1 = k /\ k \in 1 .. n
    BY <1>1, <1>5
  <2> QED BY <1>3, <1>4, <2>1 DEF n
<1>7. a = b
  BY <1>3, <1>4, <1>5, <1>6, SeqEqual
<1> QED BY <1>1, <1>7 DEF IsPrefix, a, b, n

\* A request: it starts where the last one did, or its version is another.
LEMMA RequestExtends ==
    ASSUME TalkInv, SentInv, NEW fails \in BOOLEAN, BuildRequest(fails), ~broken', sent'.version = sent.version
    PROVE  (sent.summaries = sent'.summaries \/ sent.shown = <<>>) /\ IsPrefix(sent.shown, sent'.shown)
<1> DEFINE start == WindowStart(talk)
           units == Units(talk.messages, start)
<1>1. talk.messages \in Seq(Messages) /\ talk.messages # <<>>
  BY DEF TalkInv, TalkShape, BuildRequest
<1>2. /\ start \in UnitStarts(talk.messages) /\ Fits(talk, start)
      /\ \A i \in UnitStarts(talk.messages) : i < start => ~Fits(talk, i)
  BY <1>1, WindowStartIs
<1>3. /\ sent'.version = talk.version + (IF WindowDropped(units) THEN 1 ELSE 0)
      /\ sent'.summaries = talk.summaries /\ sent'.shown = Shown(talk, start)
  BY DEF BuildRequest
<1> HIDE DEF start
<1>4. ~broken
  BY DEF BuildRequest, SaveTalk, TalkInv
<1>5. /\ talk.version \in Nat /\ sent.version \in Nat /\ sent.version <= talk.version /\ sent.shown \in Seq(Forms)
      /\ sent.version = talk.version /\ sent.shown # <<>> => SentIsWindow
  BY <1>4 DEF SentInv
<1>6. ~WindowDropped(units) /\ sent.version = talk.version
  <2> HIDE DEF units
  <2> QED BY <1>3, <1>5
<1>7. Shown(talk, start) \in Seq(Forms) /\ Len(Shown(talk, start)) = Len(talk.messages) - start + 1
      /\ \A k \in 1 .. Len(talk.messages) - start + 1 :
             LET m == talk.messages[start + k - 1] IN Shown(talk, start)[k] = <<m.id, m.form>>
  BY <1>1, <1>2, ShownIs
<1>8. Len(sent.shown) \in Nat /\ Len(talk.messages) - start + 1 \in Nat
  BY <1>5, <1>7, LenProperties
<1>9. CASE sent.shown = <<>>
  <2>1. Len(sent.shown) = 0 /\ 1 .. 0 = {}
    BY <1>9
  <2>2. Len(sent.shown) <= Len(Shown(talk, start)) /\ \A k \in 1 .. Len(sent.shown) : sent.shown[k] = Shown(talk, start)[k]
    BY <1>7, <1>8, <2>1
  <2>3. IsPrefix(sent.shown, Shown(talk, start))
    BY <1>5, <1>7, <2>2, PrefixIs
  <2> QED BY <1>3, <1>9, <2>3
<1>10. CASE sent.shown # <<>>
  <2>1. PICK old \in UnitStarts(talk.messages) :
            /\ talk.window = {Units(talk.messages, old)}
            /\ \A i \in UnitStarts(talk.messages) : i < old => ~Fits(talk, i)
            /\ Len(sent.shown) <= Len(talk.messages) - old + 1
            /\ \A k \in 1 .. Len(sent.shown) :
                   LET m == talk.messages[old + k - 1] IN sent.shown[k] = <<m.id, m.form>>
    BY <1>5, <1>6, <1>10 DEF SentIsWindow
  <2>2. start \in Nat /\ old \in Nat
    BY <1>1, <1>2, <2>1, StartsAre
  <2>3. ~(start < old)
    BY <1>2, <2>1
  <2>4. ~(old < start)
    <3> SUFFICES ASSUME old < start
                 PROVE  FALSE
      OBVIOUS
    <3>1. Units(talk.messages, old) < units
      BY <1>1, <1>2, <2>1, UnitsGrow
    <3>2. Units(talk.messages, old) \in Nat /\ units \in Nat
      BY <1>1, <1>2, <2>1, UnitsGrow
    <3>3. units > Units(talk.messages, old)
      BY <3>1, <3>2
    <3> QED BY <1>6, <2>1, <3>3 DEF WindowDropped
  <2>5. start = old
    BY <2>2, <2>3, <2>4
  <2>6. Len(sent.shown) <= Len(Shown(talk, start)) /\ \A k \in 1 .. Len(sent.shown) : k \in 1 .. Len(talk.messages) - start + 1
    BY <1>7, <1>8, <2>1, <2>5
  <2>7. \A k \in 1 .. Len(sent.shown) : sent.shown[k] = Shown(talk, start)[k]
    BY <1>7, <2>1, <2>5, <2>6
  <2>8. IsPrefix(sent.shown, Shown(talk, start))
    BY <1>5, <1>7, <2>6, <2>7, PrefixIs
  <2>9. sent.summaries = talk.summaries
    BY <1>5, <1>6, <1>10 DEF SentIsWindow
  <2> QED BY <1>3, <2>8, <2>9
<1> QED BY <1>9, <1>10

\* Saying something more leaves the window of the last request where it is.
LEMMA SayingKeeps ==
    ASSUME TalkInv, SentInv, NEW kind \in [role : {"user", "assistant", "tool"}, weight : {1, 2, 4}, bad : BOOLEAN],
           NEW t, SaveTalk(t, FALSE), sent' = sent, ~broken',
           t.messages = Append(talk.messages, Message(kind)),
           t.summaries = talk.summaries, t.version = talk.version, t.window = talk.window
    PROVE  SentInv'
<1>1. talk' = t /\ saved' = t /\ ~broken
  BY DEF SaveTalk, TalkInv
<1>2. /\ talk.version \in Nat /\ talk.summaries \in Nat /\ sent.version \in Nat /\ sent.version <= talk.version
      /\ sent.shown \in Seq(Forms) /\ (sent.version = talk.version /\ sent.shown # <<>> => SentIsWindow)
  BY <1>1 DEF SentInv
<1>3. ASSUME sent.version = talk.version, sent.shown # <<>>
      PROVE  SentIsWindow'
  <2> DEFINE m == Message(kind)
             old == talk.messages
  <2>1. old \in Seq(Messages) /\ m \in Messages /\ Len(old) \in Nat
    BY LenProperties DEF TalkInv, TalkShape, Message, Messages
  <2> HIDE DEF m
  <2>2. PICK start \in UnitStarts(old) :
            /\ talk.window = {Units(old, start)}
            /\ \A i \in UnitStarts(old) : i < start => ~Fits(talk, i)
            /\ Len(sent.shown) <= Len(old) - start + 1
            /\ \A k \in 1 .. Len(sent.shown) :
                   LET n == old[start + k - 1] IN sent.shown[k] = <<n.id, n.form>>
    BY <1>2, <1>3 DEF SentIsWindow
  <2>3. t.messages = Append(old, m)
    BY DEF m
  <2> HIDE DEF old
  <2>4. /\ start \in UnitStarts(t.messages) /\ Units(t.messages, start) = Units(old, start)
        /\ \A j \in UnitStarts(t.messages) : j < start => j \in UnitStarts(old)
    BY <2>1, <2>2, <2>3, WindowAfterAppend
  <2>5. start \in 1 .. Len(old)
    BY <2>1, <2>2, StartsAre
  <2>6. Len(t.messages) = Len(old) + 1 /\ \A i \in 1 .. Len(old) : t.messages[i] = old[i]
    BY <2>1, <2>3, AppendProperties
  <2>7. ASSUME NEW i \in UnitStarts(t.messages), i < start
        PROVE  ~Fits(t, i)
    <3>1. i \in UnitStarts(old) /\ ~Fits(talk, i)
      BY <2>2, <2>4, <2>7
    <3>2. /\ WeightFrom(old, i) \in Nat /\ WeightFrom(t.messages, i) \in Nat
          /\ WeightFrom(old, i) <= WeightFrom(t.messages, i)
      BY <2>1, <2>3, <3>1, WindowAfterAppend
    <3>3. ~(1 + talk.summaries + WeightFrom(old, i) <= Budget)
      BY <3>1 DEF Fits, old
    <3>4. Budget \in Nat
      BY ConversationAssumption
    <3>5. ~(1 + t.summaries + WeightFrom(t.messages, i) <= Budget)
      BY <1>2, <3>2, <3>3, <3>4
    <3>6. ~(start <= i)
      <4>1. i \in Nat /\ start \in Nat
        BY <2>1, <2>5, <3>1, StartsAre
      <4> QED BY <2>7, <4>1
    <3> QED BY <2>4, <3>5, <3>6 DEF Fits
  <2>8. Len(sent.shown) <= Len(t.messages) - start + 1
    <3>1. Len(sent.shown) \in Nat
      BY <1>2, LenProperties
    <3> QED BY <2>1, <2>2, <2>5, <2>6, <3>1
  <2>9. ASSUME NEW k \in 1 .. Len(sent.shown)
        PROVE  t.messages[start + k - 1] = old[start + k - 1]
    <3>1. Len(sent.shown) \in Nat
      BY <1>2, LenProperties
    <3>2. start + k - 1 \in 1 .. Len(old)
      BY <2>1, <2>2, <2>5, <3>1
    <3> QED BY <2>6, <3>2
  <2>10. sent.summaries = t.summaries
    BY <1>2, <1>3 DEF SentIsWindow
  <2> QED BY <1>1, <2>2, <2>4, <2>7, <2>8, <2>9, <2>10, ZenonT(30) DEF SentIsWindow
<1> QED BY <1>1, <1>2, <1>3 DEF SentInv

\* A request that was sent starts at its own window.
LEMMA SendingKeeps ==
    ASSUME TalkInv, SentInv, NEW fails \in BOOLEAN, BuildRequest(fails)
    PROVE  SentInv'
<1> DEFINE start == WindowStart(talk)
           units == Units(talk.messages, start)
           version == talk.version + (IF WindowDropped(units) THEN 1 ELSE 0)
           t == [talk EXCEPT !.window = {units}, !.version = version]
<1>1. talk.messages \in Seq(Messages) /\ talk.messages # <<>>
  BY DEF TalkInv, TalkShape, BuildRequest
<1>2. start \in UnitStarts(talk.messages) /\ \A i \in UnitStarts(talk.messages) : i < start => ~Fits(talk, i)
  BY <1>1, WindowStartIs
<1>3. /\ sent'.version = version /\ sent'.summaries = talk.summaries /\ sent'.shown = Shown(talk, start)
      /\ IF talk.window = {units} THEN ~fails /\ UNCHANGED <<talk, saved, broken>> ELSE SaveTalk(t, fails)
  BY DEF BuildRequest
<1>4. Shown(talk, start) \in Seq(Forms) /\ Len(Shown(talk, start)) = Len(talk.messages) - start + 1
      /\ \A k \in 1 .. Len(talk.messages) - start + 1 :
             LET m == talk.messages[start + k - 1] IN Shown(talk, start)[k] = <<m.id, m.form>>
  BY <1>1, <1>2, ShownIs
<1> HIDE DEF start
<1> SUFFICES ASSUME ~broken'
             PROVE  /\ saved' = talk' /\ talk'.version \in Nat /\ talk'.summaries \in Nat
                    /\ sent'.version \in Nat /\ sent'.version <= talk'.version
                    /\ SentIsWindow'
  BY <1>3, <1>4 DEF SentInv
<1>5. ~broken /\ saved = talk /\ talk.version \in Nat /\ talk.summaries \in Nat
  BY <1>3 DEF SentInv, SaveTalk, TalkInv
<1>6. version \in Nat /\ (talk.window = {units} => version = talk.version)
  <2>1. talk.window = {units} => ~WindowDropped(units)
    <3>1. units \in Nat
      <4>1. Len(talk.messages) \in Nat /\ UnitStarts(talk.messages) \subseteq 1 .. Len(talk.messages)
        BY <1>1, StartsAre
      <4>2. IsFiniteSet({i \in UnitStarts(talk.messages) : i < start})
        <5>1. IsFiniteSet(1 .. Len(talk.messages))
          BY <4>1, FS_Interval
        <5>2. {i \in UnitStarts(talk.messages) : i < start} \subseteq 1 .. Len(talk.messages)
          BY <4>1
        <5> QED BY <5>1, <5>2, FS_Subset
      <4> QED BY <4>2, FS_CardinalityType DEF Units
    <3>2. ~(units > units)
      BY <3>1
    <3> QED BY <3>2 DEF WindowDropped
  <2> QED BY <1>5, <2>1
<1>7. /\ talk'.messages = talk.messages /\ talk'.summaries = talk.summaries /\ talk'.window = {units}
      /\ talk'.version = version /\ saved' = talk'
  <2>1. CASE talk.window = {units}
    BY <1>3, <1>5, <1>6, <2>1
  <2>2. CASE talk.window # {units}
    <3>1. talk' = t /\ saved' = t
      BY <1>3, <2>2 DEF SaveTalk
    <3> HIDE DEF units, version
    <3>2. t.messages = talk.messages /\ t.summaries = talk.summaries /\ t.window = {units} /\ t.version = version
      BY DEF TalkInv, TalkShape
    <3> HIDE DEF t
    <3> QED BY <3>1, <3>2
  <2> QED BY <2>1, <2>2
<1> HIDE DEF version
<1>8. \A i : Fits(talk', i) = Fits(talk, i)
  BY <1>7 DEF Fits
<1>9. \A k \in 1 .. Len(sent'.shown) :
          LET m == talk'.messages[start + k - 1] IN sent'.shown[k] = <<m.id, m.form>>
  BY <1>3, <1>4, <1>7
<1>10. Len(sent'.shown) <= Len(talk'.messages) - start + 1
  <2>1. Len(sent'.shown) \in Nat
    BY <1>3, <1>4, LenProperties
  <2> QED BY <1>3, <1>4, <1>7, <2>1
<1>11. sent'.version <= talk'.version
  BY <1>3, <1>6, <1>7
<1>12. SentIsWindow'
  BY <1>2, <1>3, <1>7, <1>8, <1>9, <1>10 DEF SentIsWindow
<1> QED BY <1>3, <1>5, <1>6, <1>7, <1>11, <1>12

\* Every other step shortens the conversation under a new version, or leaves it.
LEMMA SentKeeps ==
    ASSUME TalkInv, SentInv, [TalkNext]_talkVars
    PROVE  SentInv'
<1> DEFINE kinds == [role : {"user", "assistant", "tool"}, weight : {1, 2, 4}, bad : BOOLEAN]
<1>1. CASE UNCHANGED <<talk, saved, sent, broken>>
  BY <1>1 DEF SentInv, SentIsWindow, Fits
<1>2. CASE \E fails \in BOOLEAN : BuildRequest(fails)
  BY <1>2, SendingKeeps
<1>3. CASE ~broken' /\ sent' = sent /\ \E kind \in kinds : \E t :
               /\ SaveTalk(t, FALSE) /\ t.messages = Append(talk.messages, Message(kind))
               /\ t.summaries = talk.summaries /\ t.version = talk.version /\ t.window = talk.window
  <2> HIDE DEF kinds
  <2>1. PICK kind \in kinds : \E t :
               /\ SaveTalk(t, FALSE) /\ t.messages = Append(talk.messages, Message(kind))
               /\ t.summaries = talk.summaries /\ t.version = talk.version /\ t.window = talk.window
    BY <1>3
  <2>2. PICK t : /\ SaveTalk(t, FALSE) /\ t.messages = Append(talk.messages, Message(kind))
                 /\ t.summaries = talk.summaries /\ t.version = talk.version /\ t.window = talk.window
    BY <2>1
  <2> QED BY <1>3, <2>2, SayingKeeps DEF kinds
<1>4. CASE broken' /\ sent' = sent
  BY <1>4 DEF SentInv
<1>5. CASE /\ ~broken' => ~broken /\ saved' = talk' /\ talk'.version = talk.version + 1
                          /\ talk'.summaries \in {talk.summaries, talk.summaries + 1}
           /\ sent' = sent
  <2>1. ~broken' => sent'.version < talk'.version
    BY <1>5 DEF SentInv
  <2>2. ~broken' => sent'.version # talk'.version
    BY <1>5, <2>1 DEF SentInv
  <2>3. ~broken' => talk'.version \in Nat /\ talk'.summaries \in Nat /\ sent'.version \in Nat /\ sent'.version <= talk'.version
    BY <1>5 DEF SentInv
  <2> QED BY <1>5, <2>2, <2>3 DEF SentInv
<1>6. broken \in BOOLEAN /\ talk = [messages |-> talk.messages, summaries |-> talk.summaries,
                                    taskStart |-> talk.taskStart, version |-> talk.version, window |-> talk.window]
  BY DEF TalkInv, TalkShape
<1>7. ASSUME NEW fails \in BOOLEAN, BeginTalkTask(fails)
      PROVE  SentInv'
  <2> DEFINE t == [talk EXCEPT !.taskStart = Len(talk.messages), !.messages = Append(@, Message(Asked))]
  <2>1. SaveTalk(t, fails) /\ sent' = sent
    BY <1>7 DEF BeginTalkTask
  <2>2. /\ t.messages = Append(talk.messages, Message(Asked))
        /\ t.summaries = talk.summaries /\ t.version = talk.version /\ t.window = talk.window
    BY <1>6
  <2> HIDE DEF t
  <2>3. CASE broken'
    BY <1>4, <2>1, <2>3
  <2>4. CASE ~broken'
    <3>1. ~fails
      BY <2>1, <2>4 DEF SaveTalk
    <3>2. SaveTalk(t, FALSE)
      BY <2>1, <3>1
    <3>3. Asked \in kinds
      BY DEF Asked
    <3> HIDE DEF kinds
    <3> QED BY <1>3, <2>1, <2>2, <2>4, <3>2, <3>3
  <2> QED BY <2>3, <2>4
<1>8. ASSUME NEW fails \in BOOLEAN, NEW kind \in Kinds, AppendMessage(kind, fails)
      PROVE  SentInv'
  <2> DEFINE t == [talk EXCEPT !.messages = Append(@, Message(kind))]
  <2>1. SaveTalk(t, fails) /\ sent' = sent
    BY <1>8 DEF AppendMessage
  <2>2. /\ t.messages = Append(talk.messages, Message(kind))
        /\ t.summaries = talk.summaries /\ t.version = talk.version /\ t.window = talk.window
    BY <1>6
  <2> HIDE DEF t
  <2>3. CASE broken'
    BY <1>4, <2>1, <2>3
  <2>4. CASE ~broken'
    <3>1. ~fails
      BY <2>1, <2>4 DEF SaveTalk
    <3>2. SaveTalk(t, FALSE)
      BY <2>1, <3>1
    <3>3. kind \in kinds
      BY ConversationAssumption
    <3> HIDE DEF kinds
    <3> QED BY <1>3, <2>1, <2>2, <2>4, <3>2, <3>3
  <2> QED BY <2>3, <2>4
<1>9. ASSUME NEW fails \in BOOLEAN, CompactTo(fails)
      PROVE  SentInv'
  <2>1. PICK t : /\ SaveTalk(t, fails) /\ sent' = sent
                 /\ t.summaries = talk.summaries + 1 /\ t.version = talk.version + 1
    BY <1>9 DEF CompactTo
  <2>2. talk' = t /\ (~fails => saved' = t) /\ broken' = (broken \/ fails)
    BY <2>1 DEF SaveTalk
  <2> QED BY <1>5, <2>1, <2>2
<1>10. ASSUME NEW fails \in BOOLEAN, NEW unarchived \in BOOLEAN, Maintain(fails, unarchived)
       PROVE  SentInv'
  <2>1. /\ talk' = [talk EXCEPT !.messages = Reclaimed(talk), !.version = @ + 1] /\ sent' = sent
        /\ saved' = IF fails THEN saved ELSE talk'
        /\ broken' = (broken \/ fails \/ unarchived)
    BY <1>10 DEF Maintain
  <2>2. talk'.version = talk.version + 1 /\ talk'.summaries = talk.summaries
    BY <1>6, <2>1
  <2> QED BY <1>5, <2>1, <2>2
<1>11. ASSUME NEW id, MarkSuperseded(id)
       PROVE  SentInv'
  BY <1>1, <1>11 DEF MarkSuperseded
<1>12. ASSUME ReopenTalk
       PROVE  SentInv'
  <2>1. talk' = saved /\ UNCHANGED <<saved, sent, broken>>
    BY <1>12 DEF ReopenTalk
  <2>2. CASE broken
    BY <1>4, <2>1, <2>2
  <2>3. CASE ~broken
    BY <1>1, <2>1, <2>3 DEF SentInv
  <2> QED BY <2>2, <2>3
<1>13. CASE UNCHANGED talkVars
  BY <1>1, <1>13 DEF talkVars
<1> QED BY <1>2, <1>7, <1>8, <1>9, <1>10, <1>11, <1>12, <1>13 DEF TalkNext

\* What the guard takes for one version is one growing text: while the files can be
\* written, a request with the version of the one before it begins with all of it,
\* whatever is said, reclaimed, summarised or opened again, for any budget and messages.
THEOREM RequestsAlwaysExtend == TalkSpec => RequestsExtend
<1> DEFINE Inv == TalkInv /\ SentInv
           Extends == ~broken' /\ sent'.version = sent.version =>
                          /\ sent.summaries = sent'.summaries \/ sent.shown = <<>>
                          /\ IsPrefix(sent.shown, sent'.shown)
<1>1. TalkInit => Inv
  <2> SUFFICES ASSUME TalkInit
               PROVE  TalkInv /\ SentInv
    OBVIOUS
  <2>1. /\ saved = talk /\ talk.version = 0 /\ talk.summaries = 0 /\ sent.version = 0 /\ sent.shown = <<>>
    BY DEF TalkInit
  <2> QED BY <2>1, TalkStarts DEF SentInv
<1>2. Inv /\ [TalkNext]_talkVars => Inv'
  BY TalkKeeps, SentKeeps
<1>3. Inv /\ [TalkNext]_talkVars => [Extends]_talkVars
  <2> SUFFICES ASSUME TalkInv, SentInv, TalkNext, ~broken', sent'.version = sent.version
               PROVE  /\ sent.summaries = sent'.summaries \/ sent.shown = <<>>
                      /\ IsPrefix(sent.shown, sent'.shown)
    OBVIOUS
  <2>1. CASE \E fails \in BOOLEAN : BuildRequest(fails)
    BY <2>1, RequestExtends
  <2>2. CASE sent' = sent
    <3>1. sent.shown \in Seq(Forms) /\ Len(sent.shown) \in Nat
      BY LenProperties DEF SentInv
    <3>2. IsPrefix(sent.shown, sent.shown)
      BY <3>1, PrefixIs
    <3> QED BY <2>2, <3>2
  <2>3. (\E fails \in BOOLEAN : BuildRequest(fails)) \/ sent' = sent
    BY DEF TalkNext, BeginTalkTask, CompactTo, AppendMessage, Maintain, MarkSuperseded, ReopenTalk
  <2> QED BY <2>1, <2>2, <2>3
<1> QED BY <1>1, <1>2, <1>3, PTL DEF TalkSpec, RequestsExtend

-----------------------------------------------------------------------------
(* The catalogue: renewing the list keeps what was chosen and added.       *)

CatalogSpec == CatalogInit /\ [][CatalogNext]_catalogVars

Entries == [id : Labels, name : Labels]
CatalogModels == [id : Labels, name : Labels, source : {"endpoint", "manual"}]

\* The entry a model replaces is the first of its id or its name.
LEMMA EntryForIs ==
    ASSUME NEW models \in Seq(CatalogModels), NEW model
    PROVE  LET i == EntryFor(models, model)
               Same(j) == models[j].id = model.id \/ models[j].name = model.name
           IN  \/ i = 0 /\ \A j \in DOMAIN models : ~Same(j)
               \/ i \in DOMAIN models /\ Same(i)
<1> DEFINE same == {i \in DOMAIN models : models[i].id = model.id \/ models[i].name = model.name}
<1>1. CASE same = {}
  BY <1>1 DEF EntryFor
<1>2. CASE same # {}
  <2>1. same \in SUBSET Nat
    <3>1. DOMAIN models = 1 .. Len(models) /\ Len(models) \in Nat
      BY LenProperties
    <3> QED BY <3>1
  <2>2. \E i \in same : \A j \in same : i <= j
    <3> HIDE DEF same
    <3> QED BY <1>2, <2>1, LeastNumber
  <2>3. EntryFor(models, model) = CHOOSE i \in same : \A j \in same : i <= j
    BY <1>2 DEF EntryFor
  <2>4. EntryFor(models, model) \in same
    <3> HIDE DEF same
    <3> QED BY <2>2, <2>3
  <2> QED BY <2>4
<1> QED BY <1>1, <1>2

\* A model more, or in the place of another.
LEMMA UpsertIs ==
    ASSUME NEW models \in Seq(CatalogModels), NEW model \in CatalogModels
    PROVE  LET i == EntryFor(models, model)
               after == UpsertModel(models, model)
               n == Len(models)
           IN  /\ after \in Seq(CatalogModels) /\ n \in Nat /\ DOMAIN models = 1 .. n
               /\ i = 0 => /\ DOMAIN after = 1 .. n + 1 /\ after[n + 1] = model
                           /\ \A j \in 1 .. n : after[j] = models[j]
               /\ i # 0 => /\ i \in 1 .. n /\ DOMAIN after = 1 .. n /\ after[i] = model
                           /\ \A j \in 1 .. n : j # i => after[j] = models[j]
<1> DEFINE i == EntryFor(models, model)
           after == UpsertModel(models, model)
           n == Len(models)
<1>1. n \in Nat /\ DOMAIN models = 1 .. n /\ models \in [1 .. n -> CatalogModels]
  BY LenProperties
<1>2. i = 0 \/ i \in 1 .. n
  BY <1>1, EntryForIs
<1>3. CASE i = 0
  <2>1. after = Append(models, model)
    BY <1>3 DEF UpsertModel
  <2>2. /\ Append(models, model) \in Seq(CatalogModels) /\ Len(Append(models, model)) = n + 1
        /\ Append(models, model)[n + 1] = model
        /\ \A j \in 1 .. n : Append(models, model)[j] = models[j]
    BY AppendProperties
  <2> HIDE DEF after, i
  <2>3. DOMAIN after = 1 .. n + 1
    BY <2>1, <2>2, LenProperties
  <2> QED BY <1>1, <1>3, <2>1, <2>2, <2>3 DEF after, i
<1>4. CASE i # 0
  <2>1. after = [models EXCEPT ![i] = model] /\ i \in 1 .. n
    BY <1>2, <1>4 DEF UpsertModel
  <2> HIDE DEF after, i
  <2>2. /\ after \in [1 .. n -> CatalogModels] /\ after[i] = model
        /\ \A j \in 1 .. n : j # i => after[j] = models[j]
    BY <1>1, <2>1
  <2>3. after \in Seq(CatalogModels)
    BY <1>1, <2>2, SeqDef
  <2> QED BY <1>1, <1>4, <2>1, <2>2, <2>3 DEF after, i
<1> QED BY <1>3, <1>4

\* Merging a list takes its models one by one.
MergeOf(run, models, listing) ==
    /\ run \in [0 .. Len(listing) -> Seq(CatalogModels)] /\ run[0] = models
    /\ \A i \in 1 .. Len(listing) : run[i] = UpsertModel(run[i - 1], Endpoint(listing[i]))

LEMMA UpsertedIs ==
    ASSUME NEW models \in Seq(CatalogModels), NEW listing \in Seq(Entries)
    PROVE  \E run : MergeOf(run, models, listing) /\ Upserted(models, listing) = run[Len(listing)]
<1> DEFINE n == Len(listing)
           X == Seq(CatalogModels)
           step == [i \in 1 .. n |-> [ms \in X |-> UpsertModel(ms, Endpoint(listing[i]))]]
           body(g) == [s \in SUBSET (1 .. n) |->
                          IF s = {} THEN models ELSE UpsertModel(g[s \ {Max(s)}], Endpoint(listing[Max(s)]))]
           iter == CHOOSE iter : iter = body(iter)
<1>1. n \in Nat /\ DOMAIN listing = 1 .. n /\ \A i \in 1 .. n : Endpoint(listing[i]) \in CatalogModels
  <2>1. n \in Nat /\ DOMAIN listing = 1 .. n /\ \A i \in 1 .. n : listing[i] \in Entries
    BY LenProperties, ElementOfSeq
  <2> QED BY <2>1 DEF Endpoint, Entries, CatalogModels
<1>2. Upserted(models, listing) = iter[1 .. n]
  BY <1>1 DEF Upserted, FoldLeft, MapThenFoldSet
<1> HIDE DEF n
<1>3. \A i \in 1 .. n : step[i] \in [X -> X] /\ \A ms \in X : step[i][ms] = UpsertModel(ms, Endpoint(listing[i]))
  BY <1>1, UpsertIs
<1> HIDE DEF step, X
<1>4. models \in X
  BY DEF X
<1>5. \E g : g = body(g)
  <2>1. FoldOf(models, step, n, X) # {}
    BY <1>1, <1>3, <1>4, FoldExists
  <2>2. PICK g \in [SUBSET (1 .. n) -> X] :
            \A s \in SUBSET (1 .. n) : g[s] = IF s = {} THEN models ELSE step[Max(s)][g[s \ {Max(s)}]]
    BY <2>1 DEF FoldOf
  <2>3. ASSUME NEW s \in SUBSET (1 .. n)
        PROVE  g[s] = IF s = {} THEN models ELSE UpsertModel(g[s \ {Max(s)}], Endpoint(listing[Max(s)]))
    <3>1. CASE s # {}
      <4>1. Max(s) \in 1 .. n /\ s \ {Max(s)} \in SUBSET (1 .. n)
        BY <1>1, <3>1, MaxIn
      <4> QED BY <1>3, <2>2, <3>1, <4>1
    <3> QED BY <2>2, <3>1
  <2>4. g = body(g)
    BY <2>3
  <2> QED BY <2>4
<1>6. iter = body(iter)
  <2> HIDE DEF body
  <2> QED BY <1>5
<1> HIDE DEF iter
<1>7. PICK run \in [0 .. n -> X] : run[0] = models /\ \A i \in 1 .. n : run[i] = step[i][run[i - 1]]
  <2> HIDE DEF body
  <2>1. RunOf(models, step, n, X) # {}
    BY <1>1, <1>3, <1>4, RunExists
  <2> QED BY <2>1 DEF RunOf
<1>8. \A i \in 1 .. n : run[i - 1] \in X /\ run[i] = UpsertModel(run[i - 1], Endpoint(listing[i]))
  <2> HIDE DEF body
  <2>1. \A i \in 1 .. n : i - 1 \in 0 .. n
    BY <1>1
  <2> QED BY <1>3, <1>7, <2>1
<1>9. iter[1 .. n] = run[n]
  <2> DEFINE P == {m \in 0 .. n : iter[1 .. m] = run[m]}
  <2>1. 0 \in P
    <3>1. 1 .. 0 = {} /\ {} \in SUBSET (1 .. n) /\ 0 \in 0 .. n
      BY <1>1, MaxIn
    <3>2. iter[{}] = models
      BY <1>6, <3>1
    <3> QED BY <1>7, <3>1, <3>2
  <2>2. ASSUME NEW m \in 0 .. n, m < n, m \in P
        PROVE  m + 1 \in P
    <3>1. m + 1 \in 1 .. n /\ (m + 1) - 1 = m /\ m + 1 \in 0 .. n
      BY <1>1, <2>2
    <3>2. /\ Max(1 .. m + 1) = m + 1 /\ (1 .. m + 1) \ {m + 1} = 1 .. m
          /\ 1 .. m + 1 \in SUBSET (1 .. n) /\ 1 .. m + 1 # {}
      BY <1>1, <3>1, MaxIn
    <3>3. iter[1 .. m + 1] = UpsertModel(iter[1 .. m], Endpoint(listing[m + 1]))
      BY <1>6, <3>2
    <3>4. run[m + 1] = UpsertModel(run[m], Endpoint(listing[m + 1]))
      BY <1>8, <3>1
    <3> QED BY <2>2, <3>1, <3>3, <3>4
  <2>3. 0 .. n \subseteq P
    <3> HIDE DEF P
    <3> QED BY <1>1, <2>1, <2>2, UpTo
  <2> QED BY <1>1, <2>3
<1>10. MergeOf(run, models, listing)
  <2> HIDE DEF body
  <2> QED BY <1>7, <1>8 DEF MergeOf, n, X
<1> QED BY <1>2, <1>9, <1>10 DEF n

\* No id twice.
Distinct(models) == \A i, j \in DOMAIN models : models[i].id = models[j].id => i = j

\* A model that takes no other's place, or one of its id, leaves the others.
LEMMA UpsertKeeps ==
    ASSUME NEW models \in Seq(CatalogModels), NEW model \in CatalogModels, Distinct(models),
           EntryFor(models, model) = 0 \/ models[EntryFor(models, model)].id = model.id
    PROVE  LET after == UpsertModel(models, model)
           IN  /\ after \in Seq(CatalogModels) /\ Distinct(after)
               /\ \E j \in DOMAIN after : after[j] = model
               /\ \A i \in DOMAIN models : \E j \in DOMAIN after :
                      /\ after[j].id = models[i].id
                      /\ models[i].id # model.id => after[j] = models[i]
<1> DEFINE i == EntryFor(models, model)
           after == UpsertModel(models, model)
           n == Len(models)
<1>1. /\ after \in Seq(CatalogModels) /\ n \in Nat /\ DOMAIN models = 1 .. n
      /\ i = 0 => /\ DOMAIN after = 1 .. n + 1 /\ after[n + 1] = model
                  /\ \A j \in 1 .. n : after[j] = models[j]
      /\ i # 0 => /\ i \in 1 .. n /\ DOMAIN after = 1 .. n /\ after[i] = model
                  /\ \A j \in 1 .. n : j # i => after[j] = models[j]
  BY UpsertIs
<1>2. i = 0 => \A j \in 1 .. n : models[j].id # model.id
  <2>1. 0 \notin 1 .. n
    BY <1>1
  <2> QED BY <1>1, <2>1, EntryForIs
<1>3. i = 0 \/ models[i].id = model.id
  OBVIOUS
<1>4. \A j, k \in 1 .. n : models[j].id = models[k].id => j = k
  BY <1>1 DEF Distinct
<1> HIDE DEF i, after, n
<1>5. CASE i = 0
  <2>1. n + 1 \in 1 .. n + 1 /\ \A j \in 1 .. n : j \in 1 .. n + 1
    BY <1>1
  <2>2. \A j \in 1 .. n + 1 : j = n + 1 \/ j \in 1 .. n
    BY <1>1
  <2>3. \A j, k \in 1 .. n + 1 : after[j].id = after[k].id => j = k
    BY <1>1, <1>2, <1>4, <1>5, <2>2
  <2>4. Distinct(after)
    BY <1>1, <1>5, <2>3 DEF Distinct
  <2> QED BY <1>1, <1>5, <2>1, <2>4 DEF i, after, n
<1>6. CASE i # 0
  <2>1. \A j \in 1 .. n : after[j].id = models[j].id
    BY <1>1, <1>3, <1>6
  <2>2. Distinct(after)
    BY <1>1, <1>4, <1>6, <2>1 DEF Distinct
  <2>3. \A j \in 1 .. n : models[j].id # model.id => after[j] = models[j]
    BY <1>1, <1>3, <1>6
  <2> QED BY <1>1, <1>6, <2>1, <2>2, <2>3 DEF i, after, n
<1> QED BY <1>5, <1>6

\* What is merged before an element of the list is the run up to it.
LEMMA MergedBefore ==
    ASSUME NEW models \in Seq(CatalogModels), NEW listing \in Seq(Entries), NEW run,
           MergeOf(run, models, listing), NEW k \in 1 .. Len(listing)
    PROVE  Upserted(models, SubSeq(listing, 1, k - 1)) = run[k - 1]
<1> DEFINE n == Len(listing)
           part == SubSeq(listing, 1, k - 1)
<1>1. n \in Nat /\ k - 1 \in 0 .. n /\ 1 \in 1 .. n + 1
  BY LenProperties
<1>2. part \in Seq(Entries) /\ Len(part) = k - 1 /\ \A i \in 1 .. k - 1 : part[i] = listing[i]
  <2>1. k - 1 \in 1 - 1 .. n
    BY <1>1
  <2>2. part \in Seq(Entries) /\ Len(part) = IF 1 <= k - 1 THEN (k - 1) - 1 + 1 ELSE 0
    BY <1>1, <2>1, SubSeqProperties
  <2>3. Len(part) = k - 1
    <3> HIDE DEF part
    <3> QED BY <1>1, <2>2
  <2>4. \A i \in 1 .. k - 1 : part[i] = listing[1 + i - 1]
    BY <1>1, <2>1, SubSeqProperties
  <2>5. \A i \in 1 .. k - 1 : 1 + i - 1 = i
    BY <1>1
  <2> HIDE DEF part
  <2> QED BY <2>2, <2>3, <2>4, <2>5
<1> HIDE DEF part, n
<1>3. PICK other : MergeOf(other, models, part) /\ Upserted(models, part) = other[k - 1]
  BY <1>2, UpsertedIs
<1> DEFINE P == {m \in 0 .. k - 1 : other[m] = run[m]}
<1>4. 0 \in P
  BY <1>1, <1>3 DEF MergeOf
<1>5. ASSUME NEW m \in 0 .. k - 1, m < k - 1, m \in P
      PROVE  m + 1 \in P
  <2>1. m + 1 \in 1 .. k - 1 /\ m + 1 \in 1 .. n /\ (m + 1) - 1 = m /\ m + 1 \in 0 .. k - 1
    BY <1>1, <1>5
  <2>2. other[m + 1] = UpsertModel(other[m], Endpoint(part[m + 1]))
    BY <1>2, <1>3, <2>1 DEF MergeOf
  <2>3. run[m + 1] = UpsertModel(run[m], Endpoint(listing[m + 1]))
    BY <2>1 DEF MergeOf, n
  <2> QED BY <1>2, <1>5, <2>1, <2>2, <2>3
<1>6. 0 .. k - 1 \subseteq P
  <2> HIDE DEF P
  <2>1. k - 1 \in Nat
    BY <1>1
  <2> QED BY <1>4, <1>5, <2>1, UpTo
<1>7. k - 1 \in 0 .. k - 1
  BY <1>1
<1>8. other[k - 1] = run[k - 1]
  BY <1>6, <1>7
<1> QED BY <1>3, <1>8 DEF part

\* Merging a list that changes no id keeps every model, and its source unless it is listed.
LEMMA MergeKeeps ==
    ASSUME NEW models \in Seq(CatalogModels), NEW listing \in Seq(Entries), Distinct(models),
           ~Crosses(models, listing)
    PROVE  LET after == Upserted(models, listing)
               fresh == {listing[i].id : i \in DOMAIN listing}
           IN  /\ after \in Seq(CatalogModels) /\ Distinct(after) /\ fresh \subseteq Ids(after)
               /\ \A i \in DOMAIN models : \E j \in DOMAIN after :
                      /\ after[j].id = models[i].id
                      /\ models[i].id \notin fresh => after[j] = models[i]
<1> DEFINE n == Len(listing)
           fresh == {listing[i].id : i \in DOMAIN listing}
<1>1. PICK run : MergeOf(run, models, listing) /\ Upserted(models, listing) = run[n]
  BY UpsertedIs
<1>2. n \in Nat /\ DOMAIN listing = 1 .. n /\ \A i \in 1 .. n : listing[i] \in Entries
  BY LenProperties, ElementOfSeq
<1>3. /\ run[0] = models /\ \A i \in 0 .. n : run[i] \in Seq(CatalogModels)
      /\ \A i \in 1 .. n : run[i] = UpsertModel(run[i - 1], Endpoint(listing[i]))
  BY <1>1, <1>2 DEF MergeOf
<1>4. ASSUME NEW k \in 1 .. n
      PROVE  LET i == EntryFor(run[k - 1], Endpoint(listing[k])) IN i = 0 \/ run[k - 1][i].id = listing[k].id
  <2>1. Upserted(models, SubSeq(listing, 1, k - 1)) = run[k - 1]
    BY <1>1, MergedBefore
  <2>2. LET before == Upserted(models, SubSeq(listing, 1, k - 1)) i == EntryFor(before, listing[k])
        IN  ~(i # 0 /\ before[i].id # listing[k].id)
    BY DEF Crosses
  <2>3. EntryFor(run[k - 1], Endpoint(listing[k])) = EntryFor(run[k - 1], listing[k])
    BY DEF EntryFor, Endpoint
  <2> QED BY <2>1, <2>2, <2>3
<1> DEFINE Stayed(m) == \A i \in DOMAIN models : \E j \in DOMAIN run[m] :
                          /\ run[m][j].id = models[i].id
                          /\ models[i].id \notin fresh => run[m][j] = models[i]
           Has(m) == \A k \in 1 .. m : \E j \in DOMAIN run[m] : run[m][j].id = listing[k].id
           P == {m \in 0 .. n : Distinct(run[m]) /\ Stayed(m) /\ Has(m)}
<1>5. 0 \in P
  <2>1. Stayed(0)
    BY <1>3
  <2>2. Has(0)
    OBVIOUS
  <2>3. Distinct(run[0]) /\ 0 \in 0 .. n
    BY <1>2, <1>3
  <2> HIDE DEF Stayed, Has
  <2> QED BY <2>1, <2>2, <2>3
<1>6. ASSUME NEW m \in 0 .. n, m < n, m \in P
      PROVE  m + 1 \in P
  <2> DEFINE model == Endpoint(listing[m + 1])
  <2>1. m + 1 \in 1 .. n /\ (m + 1) - 1 = m /\ m + 1 \in 0 .. n /\ \A k \in 1 .. m + 1 : k = m + 1 \/ k \in 1 .. m
    BY <1>2, <1>6
  <2>2. model \in CatalogModels /\ model.id = listing[m + 1].id /\ model.id \in fresh
    <3>1. listing[m + 1] \in Entries
      BY <1>2, <2>1
    <3> QED BY <1>2, <2>1, <3>1 DEF Endpoint, Entries, CatalogModels
  <2>3. run[m + 1] = UpsertModel(run[m], model) /\ run[m] \in Seq(CatalogModels)
    BY <1>3, <2>1
  <2>4. EntryFor(run[m], model) = 0 \/ run[m][EntryFor(run[m], model)].id = model.id
    BY <1>4, <2>1, <2>2
  <2>5. Distinct(run[m]) /\ Stayed(m) /\ Has(m)
    BY <1>6
  <2> HIDE DEF model, fresh
  <2>6. /\ Distinct(run[m + 1])
        /\ \E j \in DOMAIN run[m + 1] : run[m + 1][j] = model
        /\ \A i \in DOMAIN run[m] : \E j \in DOMAIN run[m + 1] :
               /\ run[m + 1][j].id = run[m][i].id
               /\ run[m][i].id # model.id => run[m + 1][j] = run[m][i]
    <3>1. Distinct(run[m]) /\ model \in CatalogModels /\ run[m] \in Seq(CatalogModels)
      BY <2>2, <2>3, <2>5
    <3> HIDE DEF Stayed, Has
    <3>2. LET after == UpsertModel(run[m], model)
          IN  /\ after \in Seq(CatalogModels) /\ Distinct(after)
              /\ \E j \in DOMAIN after : after[j] = model
              /\ \A i \in DOMAIN run[m] : \E j \in DOMAIN after :
                     /\ after[j].id = run[m][i].id
                     /\ run[m][i].id # model.id => after[j] = run[m][i]
      BY <2>4, <3>1, UpsertKeeps
    <3> QED BY <2>3, <3>2
  <2>7. Stayed(m + 1)
    <3> SUFFICES ASSUME NEW i \in DOMAIN models
                 PROVE  \E j \in DOMAIN run[m + 1] :
                            /\ run[m + 1][j].id = models[i].id
                            /\ models[i].id \notin fresh => run[m + 1][j] = models[i]
      OBVIOUS
    <3>1. PICK l \in DOMAIN run[m] : run[m][l].id = models[i].id /\ (models[i].id \notin fresh => run[m][l] = models[i])
      BY <2>5
    <3>2. PICK j \in DOMAIN run[m + 1] : /\ run[m + 1][j].id = run[m][l].id
                                         /\ run[m][l].id # model.id => run[m + 1][j] = run[m][l]
      BY <2>6
    <3>3. models[i].id \notin fresh => run[m + 1][j] = models[i]
      BY <2>2, <3>1, <3>2
    <3> QED BY <3>1, <3>2, <3>3
  <2>8. ASSUME NEW k \in 1 .. m + 1
        PROVE  \E j \in DOMAIN run[m + 1] : run[m + 1][j].id = listing[k].id
    <3>1. CASE k = m + 1
      BY <2>2, <2>6, <3>1
    <3>2. CASE k \in 1 .. m
      <4>1. PICK l \in DOMAIN run[m] : run[m][l].id = listing[k].id
        BY <2>5, <3>2
      <4>2. \E j \in DOMAIN run[m + 1] : run[m + 1][j].id = run[m][l].id
        BY <2>6
      <4> QED BY <4>1, <4>2
    <3> QED BY <2>1, <3>1, <3>2
  <2> QED BY <2>1, <2>6, <2>7, <2>8
<1>7. n \in P
  <2>1. 0 .. n \subseteq P
    <3> HIDE DEF P
    <3> QED BY <1>2, <1>5, <1>6, UpTo
  <2> QED BY <1>2, <2>1
<1>8. fresh \subseteq Ids(run[n])
  <2>1. Has(n)
    BY <1>7
  <2> QED BY <1>2, <2>1 DEF Ids
<1>9. Distinct(run[n]) /\ Stayed(n) /\ run[n] \in Seq(CatalogModels)
  BY <1>2, <1>3, <1>7
<1> QED BY <1>1, <1>8, <1>9

\* What is left of a list when the next of its models is looked at.
LeftAfter(ms, model, fresh, active) == IF IsStale(model, fresh) /\ model.id # active THEN ms ELSE Append(ms, model)

\* Pruning a list looks at its models one by one.
PruneOf(run, models, fresh, active) ==
    /\ run \in [0 .. Len(models) -> Seq(CatalogModels)] /\ run[0] = <<>>
    /\ \A i \in 1 .. Len(models) : run[i] = LeftAfter(run[i - 1], models[i], fresh, active)

LEMMA WithoutStaleIs ==
    ASSUME NEW models \in Seq(CatalogModels), NEW fresh, NEW active
    PROVE  \E run : PruneOf(run, models, fresh, active) /\ WithoutStale(models, fresh, active) = run[Len(models)]
<1> DEFINE n == Len(models)
           X == Seq(CatalogModels)
           step == [i \in 1 .. n |-> [ms \in X |-> LeftAfter(ms, models[i], fresh, active)]]
           body(g) == [s \in SUBSET (1 .. n) |->
                          IF s = {} THEN <<>> ELSE LeftAfter(g[s \ {Max(s)}], models[Max(s)], fresh, active)]
           iter == CHOOSE iter : iter = body(iter)
<1>1. n \in Nat /\ DOMAIN models = 1 .. n /\ \A i \in 1 .. n : models[i] \in CatalogModels
  BY LenProperties, ElementOfSeq
<1>2. WithoutStale(models, fresh, active) = iter[1 .. n]
  BY <1>1 DEF WithoutStale, FoldLeft, MapThenFoldSet, LeftAfter
<1> HIDE DEF n
<1>3. \A i \in 1 .. n : step[i] \in [X -> X] /\ \A ms \in X : step[i][ms] = LeftAfter(ms, models[i], fresh, active)
  <2>1. \A ms \in X, i \in 1 .. n : LeftAfter(ms, models[i], fresh, active) \in X
    BY <1>1, AppendProperties DEF LeftAfter
  <2> HIDE DEF X
  <2> QED BY <2>1
<1>4. <<>> \in X
  BY EmptySeq
<1> HIDE DEF step, X
<1>5. \E g : g = body(g)
  <2>1. FoldOf(<<>>, step, n, X) # {}
    BY <1>1, <1>3, <1>4, FoldExists
  <2>2. PICK g \in [SUBSET (1 .. n) -> X] :
            \A s \in SUBSET (1 .. n) : g[s] = IF s = {} THEN <<>> ELSE step[Max(s)][g[s \ {Max(s)}]]
    BY <2>1 DEF FoldOf
  <2>3. ASSUME NEW s \in SUBSET (1 .. n)
        PROVE  g[s] = IF s = {} THEN <<>> ELSE LeftAfter(g[s \ {Max(s)}], models[Max(s)], fresh, active)
    <3>1. CASE s # {}
      <4>1. Max(s) \in 1 .. n /\ s \ {Max(s)} \in SUBSET (1 .. n)
        BY <1>1, <3>1, MaxIn
      <4> QED BY <1>3, <2>2, <3>1, <4>1
    <3> QED BY <2>2, <3>1
  <2>4. g = body(g)
    BY <2>3
  <2> QED BY <2>4
<1>6. iter = body(iter)
  <2> HIDE DEF body
  <2> QED BY <1>5
<1> HIDE DEF iter
<1>7. PICK run \in [0 .. n -> X] : run[0] = <<>> /\ \A i \in 1 .. n : run[i] = step[i][run[i - 1]]
  <2> HIDE DEF body
  <2>1. RunOf(<<>>, step, n, X) # {}
    BY <1>1, <1>3, <1>4, RunExists
  <2> QED BY <2>1 DEF RunOf
<1>8. \A i \in 1 .. n : run[i - 1] \in X /\ run[i] = LeftAfter(run[i - 1], models[i], fresh, active)
  <2> HIDE DEF body
  <2>1. \A i \in 1 .. n : i - 1 \in 0 .. n
    BY <1>1
  <2> QED BY <1>3, <1>7, <2>1
<1>9. iter[1 .. n] = run[n]
  <2> DEFINE P == {m \in 0 .. n : iter[1 .. m] = run[m]}
  <2>1. 0 \in P
    <3>1. 1 .. 0 = {} /\ {} \in SUBSET (1 .. n) /\ 0 \in 0 .. n
      BY <1>1, MaxIn
    <3>2. iter[{}] = <<>>
      BY <1>6, <3>1
    <3> QED BY <1>7, <3>1, <3>2
  <2>2. ASSUME NEW m \in 0 .. n, m < n, m \in P
        PROVE  m + 1 \in P
    <3>1. m + 1 \in 1 .. n /\ (m + 1) - 1 = m /\ m + 1 \in 0 .. n
      BY <1>1, <2>2
    <3>2. /\ Max(1 .. m + 1) = m + 1 /\ (1 .. m + 1) \ {m + 1} = 1 .. m
          /\ 1 .. m + 1 \in SUBSET (1 .. n) /\ 1 .. m + 1 # {}
      BY <1>1, <3>1, MaxIn
    <3>3. iter[1 .. m + 1] = LeftAfter(iter[1 .. m], models[m + 1], fresh, active)
      BY <1>6, <3>2
    <3>4. run[m + 1] = LeftAfter(run[m], models[m + 1], fresh, active)
      BY <1>8, <3>1
    <3> QED BY <2>2, <3>1, <3>3, <3>4
  <2>3. 0 .. n \subseteq P
    <3> HIDE DEF P
    <3> QED BY <1>1, <2>1, <2>2, UpTo
  <2> QED BY <1>1, <2>3
<1>10. PruneOf(run, models, fresh, active)
  <2> HIDE DEF body
  <2> QED BY <1>7, <1>8 DEF PruneOf, n, X
<1> QED BY <1>2, <1>9, <1>10 DEF n

\* Pruning leaves the active model and every model that is not stale, and no id twice.
LEMMA PruneKeeps ==
    ASSUME NEW models \in Seq(CatalogModels), NEW fresh, NEW active, Distinct(models)
    PROVE  LET after == WithoutStale(models, fresh, active)
           IN  /\ after \in Seq(CatalogModels) /\ Distinct(after)
               /\ \A i \in DOMAIN models : ~IsStale(models[i], fresh) \/ models[i].id = active =>
                      \E j \in DOMAIN after : after[j] = models[i]
<1> DEFINE n == Len(models)
           Stays(i) == ~IsStale(models[i], fresh) \/ models[i].id = active
<1>1. PICK run : PruneOf(run, models, fresh, active) /\ WithoutStale(models, fresh, active) = run[n]
  BY WithoutStaleIs
<1>2. n \in Nat /\ DOMAIN models = 1 .. n /\ \A i \in 1 .. n : models[i] \in CatalogModels
  BY LenProperties, ElementOfSeq
<1>3. /\ run[0] = <<>> /\ \A i \in 0 .. n : run[i] \in Seq(CatalogModels)
      /\ \A i \in 1 .. n : run[i] = IF Stays(i) THEN Append(run[i - 1], models[i]) ELSE run[i - 1]
  BY <1>1, <1>2 DEF PruneOf, LeftAfter
<1> DEFINE From(m) == \A j \in DOMAIN run[m] : \E i \in 1 .. m : run[m][j].id = models[i].id
           Stayed(m) == \A i \in 1 .. m : Stays(i) => \E j \in DOMAIN run[m] : run[m][j] = models[i]
           P == {m \in 0 .. n : Distinct(run[m]) /\ From(m) /\ Stayed(m)}
<1>4. 0 \in P
  <2>1. DOMAIN run[0] = {} /\ 1 .. 0 = {} /\ 0 \in 0 .. n
    BY <1>2, <1>3
  <2>2. From(0) /\ Stayed(0) /\ Distinct(run[0])
    BY <2>1 DEF Distinct
  <2> HIDE DEF From, Stayed
  <2> QED BY <2>1, <2>2
<1> HIDE DEF Stays
<1>5. ASSUME NEW m \in 0 .. n, m < n, m \in P
      PROVE  m + 1 \in P
  <2>1. /\ m + 1 \in 1 .. n /\ (m + 1) - 1 = m /\ m + 1 \in 0 .. n
        /\ \A k \in 1 .. m + 1 : k = m + 1 \/ k \in 1 .. m
        /\ \A k \in 1 .. m : k \in 1 .. m + 1 /\ k \in 1 .. n /\ k # m + 1
        /\ m + 1 \in 1 .. m + 1
    BY <1>2, <1>5
  <2>2. Distinct(run[m]) /\ From(m) /\ Stayed(m)
    BY <1>5
  <2>3. CASE Stays(m + 1)
    <3> DEFINE l == Len(run[m])
    <3>1. run[m + 1] = Append(run[m], models[m + 1])
      BY <1>3, <2>1, <2>3
    <3>2. run[m] \in Seq(CatalogModels) /\ models[m + 1] \in CatalogModels
      BY <1>2, <1>3, <2>1
    <3>3. /\ l \in Nat /\ DOMAIN run[m] = 1 .. l /\ DOMAIN run[m + 1] = 1 .. l + 1
          /\ run[m + 1][l + 1] = models[m + 1] /\ \A j \in 1 .. l : run[m + 1][j] = run[m][j]
      <4>1. /\ Append(run[m], models[m + 1]) \in Seq(CatalogModels)
            /\ Len(Append(run[m], models[m + 1])) = l + 1
            /\ Append(run[m], models[m + 1])[l + 1] = models[m + 1]
            /\ \A j \in 1 .. l : Append(run[m], models[m + 1])[j] = run[m][j]
        BY <3>2, AppendProperties
      <4>2. DOMAIN Append(run[m], models[m + 1]) = 1 .. l + 1
        BY <4>1, LenProperties
      <4> QED BY <3>1, <3>2, <4>1, <4>2, LenProperties
    <3> HIDE DEF l
    <3>4. \A j \in 1 .. l + 1 : j = l + 1 \/ j \in 1 .. l
      BY <3>3
    <3>5. l + 1 \in 1 .. l + 1 /\ \A j \in 1 .. l : j \in 1 .. l + 1
      BY <3>3
    <3>6. \A j \in 1 .. l : run[m + 1][j].id # models[m + 1].id
      <4> SUFFICES ASSUME NEW j \in 1 .. l
                   PROVE  run[m + 1][j].id # models[m + 1].id
        OBVIOUS
      <4>1. PICK i \in 1 .. m : run[m][j].id = models[i].id
        BY <2>2, <3>3
      <4>2. models[i].id # models[m + 1].id
        BY <1>2, <2>1 DEF Distinct
      <4> QED BY <3>3, <4>1, <4>2
    <3>7. Distinct(run[m + 1])
      <4>1. ASSUME NEW j \in 1 .. l + 1, NEW k \in 1 .. l + 1, run[m + 1][j].id = run[m + 1][k].id
            PROVE  j = k
        <5>1. CASE j = l + 1 \/ k = l + 1
          BY <3>3, <3>4, <3>6, <4>1, <5>1
        <5>2. CASE j \in 1 .. l /\ k \in 1 .. l
          BY <2>2, <3>3, <4>1, <5>2, ZenonT(30) DEF Distinct
        <5> QED BY <3>4, <5>1, <5>2
      <4> QED BY <3>3, <4>1 DEF Distinct
    <3>8. ASSUME NEW j \in DOMAIN run[m + 1]
          PROVE  \E i \in 1 .. m + 1 : run[m + 1][j].id = models[i].id
      <4>1. CASE j = l + 1
        BY <2>1, <3>3, <4>1
      <4>2. CASE j \in 1 .. l
        <5>1. PICK i \in 1 .. m : run[m][j].id = models[i].id
          BY <2>2, <3>3, <4>2
        <5> QED BY <2>1, <3>3, <4>2, <5>1
      <4> QED BY <3>3, <3>4, <4>1, <4>2
    <3>9. ASSUME NEW i \in 1 .. m + 1, Stays(i)
          PROVE  \E j \in DOMAIN run[m + 1] : run[m + 1][j] = models[i]
      <4>1. CASE i = m + 1
        BY <3>3, <3>5, <4>1
      <4>2. CASE i \in 1 .. m
        <5>1. PICK j \in DOMAIN run[m] : run[m][j] = models[i]
          BY <2>2, <3>9, <4>2
        <5> QED BY <3>3, <3>5, <5>1
      <4> QED BY <2>1, <4>1, <4>2
    <3> QED BY <2>1, <3>7, <3>8, <3>9
  <2>4. CASE ~Stays(m + 1)
    <3>1. run[m + 1] = run[m]
      BY <1>3, <2>1, <2>4
    <3>2. From(m + 1)
      BY <2>1, <2>2, <3>1
    <3>3. Stayed(m + 1)
      BY <2>1, <2>2, <2>4, <3>1
    <3>4. Distinct(run[m + 1])
      BY <2>2, <3>1
    <3> HIDE DEF From, Stayed
    <3> QED BY <2>1, <3>2, <3>3, <3>4
  <2> QED BY <2>3, <2>4
<1>6. n \in P
  <2>1. 0 .. n \subseteq P
    <3> HIDE DEF P
    <3> QED BY <1>2, <1>4, <1>5, UpTo
  <2> QED BY <1>2, <2>1
<1>7. Distinct(run[n]) /\ Stayed(n) /\ run[n] \in Seq(CatalogModels)
  BY <1>2, <1>3, <1>6
<1> QED BY <1>1, <1>2, <1>7 DEF Stays

\* Settings a session can work with: no id twice, an active model of the list, and no
\* choice where there is no model.
SoundSettings ==
    {s \in [models : Seq(CatalogModels), active : Labels \union {NoModel}, pinned : BOOLEAN] :
        /\ Distinct(s.models)
        /\ s.models # <<>> => s.active \in Ids(s.models)
        /\ s.models = <<>> => s.active = NoModel /\ ~s.pinned}

\* They need no other active model.
LEMMA SoundStays ==
    ASSUME NEW s \in SoundSettings
    PROVE  AutoAssignModels(s) = s /\ Valid(s)
<1>1. CASE s.models = <<>>
  BY <1>1 DEF AutoAssignModels, SoundSettings, Valid, Distinct
<1>2. CASE s.models # <<>>
  <2>1. s.active \in Ids(s.models)
    BY <1>2 DEF SoundSettings
  <2>2. Exists(s.models, s.active)
    BY <2>1 DEF Exists, Ids
  <2> QED BY <2>2 DEF AutoAssignModels, SoundSettings, Valid, Distinct
<1> QED BY <1>1, <1>2

\* A list that is not empty has a model to prefer.
LEMMA PreferredIs ==
    ASSUME NEW models \in Seq(CatalogModels), models # <<>>
    PROVE  Preferred(models) \in Ids(models)
<1> DEFINE n == Len(models)
           R(j) == Rank[models[j].name]
           best == {i \in DOMAIN models : \A j \in DOMAIN models : R(j) <= R(i)}
           P == {m \in 0 .. n : m = 0 \/ \E i \in 1 .. m : \A j \in 1 .. m : R(j) <= R(i)}
<1>1. n \in Nat /\ DOMAIN models = 1 .. n /\ n # 0 /\ \A i \in 1 .. n : R(i) \in Nat
  <2>1. n \in Nat /\ DOMAIN models = 1 .. n /\ \A i \in 1 .. n : models[i] \in CatalogModels
    BY LenProperties, ElementOfSeq
  <2>2. n # 0
    BY EmptySeq
  <2>3. ASSUME NEW i \in 1 .. n
        PROVE  R(i) \in Nat
    <3>1. models[i].name \in Labels
      BY <2>1 DEF CatalogModels
    <3> QED BY <3>1, CatalogAssumption
  <2> QED BY <2>1, <2>2, <2>3
<1> HIDE DEF R
<1>2. 0 \in P
  BY <1>1
<1>3. ASSUME NEW m \in 0 .. n, m < n, m \in P
      PROVE  m + 1 \in P
  <2>1. /\ m + 1 \in 0 .. n /\ m + 1 \in 1 .. n /\ m + 1 \in 1 .. m + 1
        /\ \A j \in 1 .. m + 1 : j = m + 1 \/ j \in 1 .. m
        /\ \A j \in 1 .. m : j \in 1 .. m + 1 /\ j \in 1 .. n
    BY <1>1, <1>3
  <2>2. CASE m = 0
    <3>1. \A j \in 1 .. m + 1 : j = m + 1
      BY <2>2
    <3>2. \A j \in 1 .. m + 1 : R(j) <= R(m + 1)
      BY <1>1, <2>1, <3>1
    <3> QED BY <2>1, <3>2
  <2>3. CASE m # 0
    <3>1. PICK i \in 1 .. m : \A j \in 1 .. m : R(j) <= R(i)
      BY <1>3, <2>3
    <3>2. CASE R(m + 1) <= R(i)
      <4>1. \A j \in 1 .. m + 1 : R(j) <= R(i)
        BY <2>1, <3>1, <3>2
      <4> QED BY <2>1, <4>1
    <3>3. CASE ~(R(m + 1) <= R(i))
      <4>1. \A j \in 1 .. m + 1 : R(j) <= R(m + 1)
        BY <1>1, <2>1, <3>1, <3>3
      <4> QED BY <2>1, <4>1
    <3> QED BY <3>2, <3>3
  <2> QED BY <2>2, <2>3
<1>4. n \in P
  <2>1. 0 .. n \subseteq P
    <3> HIDE DEF P
    <3> QED BY <1>1, <1>2, <1>3, UpTo
  <2> QED BY <1>1, <2>1, SMTT(30)
<1>5. best # {} /\ best \in SUBSET Nat
  BY <1>1, <1>4, SMTT(30)
<1>6. \E i \in best : \A j \in best : i <= j
  <2> HIDE DEF best
  <2> QED BY <1>5, LeastNumber
<1>7. (CHOOSE i \in best : \A j \in best : i <= j) \in best
  <2> HIDE DEF best
  <2> QED BY <1>6
<1>8. Preferred(models) = models[CHOOSE i \in best : \A j \in best : i <= j].id
  BY DEF Preferred, R
<1> DEFINE first == CHOOSE i \in best : \A j \in best : i <= j
<1>9. first \in DOMAIN models
  BY <1>7
<1> HIDE DEF first, best
<1>10. Preferred(models) = models[first].id
  BY <1>8 DEF first
<1> QED BY <1>9, <1>10 DEF Ids

\* A list with no active model, or with one of it, gets one of it, and keeps the one it had.
LEMMA AssignedIsSound ==
    ASSUME NEW s \in [models : Seq(CatalogModels), active : Labels \union {NoModel}, pinned : BOOLEAN],
           Distinct(s.models), s.active \in Ids(s.models) \/ s.active = NoModel,
           s.models = <<>> => s.active = NoModel /\ ~s.pinned
    PROVE  LET t == AssignModels(s)
           IN  /\ t \in SoundSettings /\ t.models = s.models /\ t.pinned = s.pinned
               /\ s.active \in Ids(s.models) => t.active = s.active
<1> DEFINE models == s.models
           fresh == {i \in DOMAIN models : {models[i].id, models[i].name} \cap M3Labels # {}}
           t == AssignModels(s)
<1>1. models \in Seq(CatalogModels) /\ DOMAIN models \subseteq Nat /\ Ids(models) \subseteq Labels
  <2>1. models \in Seq(CatalogModels)
    OBVIOUS
  <2>2. DOMAIN models = 1 .. Len(models) /\ \A i \in 1 .. Len(models) : models[i] \in CatalogModels
    BY <2>1, LenProperties, ElementOfSeq
  <2> QED BY <2>1, <2>2 DEF Ids, CatalogModels
<1>2. NoModel \notin Labels
  BY CatalogAssumption
<1>3. \A id \in Ids(models) : /\ [s EXCEPT !.active = id] \in SoundSettings
                              /\ [s EXCEPT !.active = id].models = models
                              /\ [s EXCEPT !.active = id].pinned = s.pinned
  <2> SUFFICES ASSUME NEW id \in Ids(models)
               PROVE  /\ [s EXCEPT !.active = id] \in SoundSettings
                      /\ [s EXCEPT !.active = id].models = models
                      /\ [s EXCEPT !.active = id].pinned = s.pinned
    OBVIOUS
  <2>1. id \in Labels /\ models # <<>>
    <3>1. models # <<>>
      BY EmptySeq DEF Ids
    <3> QED BY <1>1, <3>1
  <2> DEFINE other == [s EXCEPT !.active = id]
  <2>2. /\ other \in [models : Seq(CatalogModels), active : Labels \union {NoModel}, pinned : BOOLEAN]
        /\ other.models = models /\ other.active = id /\ other.pinned = s.pinned
    BY <2>1
  <2> HIDE DEF other
  <2>3. other \in SoundSettings
    BY <2>1, <2>2 DEF SoundSettings
  <2> QED BY <2>2, <2>3 DEF other
<1>4. CASE s.active = NoModel /\ fresh # {}
  <2>1. t = [s EXCEPT !.active = models[CHOOSE i \in fresh : \A j \in fresh : i <= j].id]
    BY <1>4 DEF AssignModels
  <2>2. fresh \in SUBSET Nat
    BY <1>1
  <2> DEFINE first == CHOOSE i \in fresh : \A j \in fresh : i <= j
  <2>3. first \in fresh
    <3> HIDE DEF fresh
    <3>1. \E i \in fresh : \A j \in fresh : i <= j
      BY <1>4, <2>2, LeastNumber
    <3> QED BY <3>1
  <2>4. models[first].id \in Ids(models)
    <3>1. first \in DOMAIN models
      BY <2>3
    <3> HIDE DEF first
    <3> QED BY <3>1 DEF Ids
  <2>5. s.active \notin Ids(models)
    BY <1>1, <1>2, <1>4
  <2> HIDE DEF first
  <2>6. t = [s EXCEPT !.active = models[first].id]
    BY <2>1 DEF first
  <2> HIDE DEF t
  <2> QED BY <1>3, <2>4, <2>5, <2>6 DEF t
<1>5. CASE ~(s.active = NoModel /\ fresh # {})
  <2>1. t = AutoAssignModels(s)
    BY <1>5 DEF AssignModels
  <2>2. CASE models = <<>> \/ s.active \in Ids(models)
    <3>1. s \in SoundSettings
      <4>1. models = <<>> => s.active \notin Ids(models)
        BY <1>1, <1>2
      <4>2. models # <<>> => s.active \in Ids(models)
        BY <2>2
      <4> QED BY <4>2 DEF SoundSettings
    <3> QED BY <2>1, <3>1, SoundStays
  <2>3. CASE models # <<>> /\ s.active \notin Ids(models)
    <3>1. s.active = NoModel
      BY <2>3
    <3>2. ~Exists(models, s.active)
      <4>1. DOMAIN models = 1 .. Len(models) /\ \A i \in 1 .. Len(models) : models[i] \in CatalogModels
        BY <1>1, LenProperties, ElementOfSeq
      <4>2. \A i \in DOMAIN models : models[i].id \in Labels /\ models[i].name \in Labels
        BY <4>1 DEF CatalogModels
      <4> QED BY <1>2, <3>1, <4>2 DEF Exists
    <3>3. t = [s EXCEPT !.active = Preferred(models)]
      BY <2>1, <2>3, <3>2 DEF AutoAssignModels
    <3>4. Preferred(models) \in Ids(models)
      BY <1>1, <2>3, PreferredIs
    <3> QED BY <1>3, <2>3, <3>3, <3>4
  <2> QED BY <2>2, <2>3
<1> QED BY <1>4, <1>5

\* Merging what the gateway lists, if no entry changes its id: the settings stay sound,
\* their choice stays, and so do the models set by hand that are not listed.
LEMMA DiscoveredIsSound ==
    ASSUME NEW held \in SoundSettings, NEW listing \in Seq(Entries), ~Crosses(held.models, listing)
    PROVE  LET s == AddDiscoveredModels(held, listing)
               fresh == {listing[i].id : i \in DOMAIN listing}
           IN  /\ s \in SoundSettings /\ s.pinned = held.pinned
               /\ held.models # <<>> => s.active = held.active
               /\ \A i \in DOMAIN held.models :
                      held.models[i].source = "manual" /\ held.models[i].id \notin fresh =>
                          \E j \in DOMAIN s.models : s.models[j] = held.models[i]
<1> DEFINE fresh == {listing[i].id : i \in DOMAIN listing}
           all == Upserted(held.models, listing)
           merged == [held EXCEPT !.models = all]
           left == WithoutStale(all, fresh, held.active)
           pruned == PruneStale(merged, listing)
           CatalogRecord == [models : Seq(CatalogModels), active : Labels \union {NoModel}, pinned : BOOLEAN]
<1>1. /\ held \in CatalogRecord /\ Distinct(held.models) /\ held.models \in Seq(CatalogModels)
      /\ held.models # <<>> => held.active \in Ids(held.models)
      /\ held.models = <<>> => held.active = NoModel /\ ~held.pinned
  BY DEF SoundSettings
<1>2. /\ all \in Seq(CatalogModels) /\ Distinct(all) /\ fresh \subseteq Ids(all)
      /\ \A i \in DOMAIN held.models : \E j \in DOMAIN all :
             /\ all[j].id = held.models[i].id
             /\ held.models[i].id \notin fresh => all[j] = held.models[i]
  BY <1>1, MergeKeeps
<1>3. /\ left \in Seq(CatalogModels) /\ Distinct(left)
      /\ \A i \in DOMAIN all : ~IsStale(all[i], fresh) \/ all[i].id = held.active =>
             \E j \in DOMAIN left : left[j] = all[i]
  <2>1. all \in Seq(CatalogModels) /\ Distinct(all)
    BY <1>2
  <2> HIDE DEF all, fresh
  <2> QED BY <2>1, PruneKeeps, SMTT(30)
<1> HIDE DEF all, left
<1>4. merged \in CatalogRecord /\ merged.models = all /\ merged.active = held.active /\ merged.pinned = held.pinned
  BY <1>1, <1>2
<1>5. /\ pruned \in CatalogRecord /\ pruned.active = held.active /\ pruned.pinned = held.pinned
      /\ pruned.models = IF listing = <<>> THEN all ELSE left
  <2>1. CASE listing = <<>>
    BY <1>4, <2>1 DEF PruneStale
  <2>2. CASE listing # <<>>
    <3>1. pruned = [merged EXCEPT !.models = left]
      BY <1>4, <2>2 DEF PruneStale, left
    <3> HIDE DEF merged, pruned
    <3> QED BY <1>3, <1>4, <2>2, <3>1
  <2> QED BY <2>1, <2>2
<1> HIDE DEF merged, pruned, CatalogRecord
<1>6. /\ Distinct(pruned.models) /\ pruned.models \in Seq(CatalogModels)
      /\ \A i \in DOMAIN all : ~IsStale(all[i], fresh) \/ all[i].id = held.active =>
             \E j \in DOMAIN pruned.models : pruned.models[j] = all[i]
  BY <1>2, <1>3, <1>5
<1>7. held.models # <<>> => held.active \in Ids(pruned.models)
  <2> SUFFICES ASSUME held.models # <<>>
               PROVE  held.active \in Ids(pruned.models)
    OBVIOUS
  <2>1. PICK i \in DOMAIN held.models : held.models[i].id = held.active
    BY <1>1 DEF Ids
  <2>2. PICK j \in DOMAIN all : all[j].id = held.active
    BY <1>2, <2>1
  <2> QED BY <1>6, <2>2 DEF Ids
<1>8. held.models = <<>> /\ listing # <<>> => pruned.models # <<>>
  <2> SUFFICES ASSUME listing # <<>>
               PROVE  pruned.models # <<>>
    OBVIOUS
  <2>1. 1 \in DOMAIN listing
    <3>1. Len(listing) \in Nat /\ Len(listing) # 0 /\ DOMAIN listing = 1 .. Len(listing)
      BY LenProperties, EmptySeq
    <3> QED BY <3>1
  <2>2. listing[1].id \in fresh
    BY <2>1
  <2>3. PICK j \in DOMAIN all : all[j].id = listing[1].id
    BY <1>2, <2>2 DEF Ids
  <2>4. ~IsStale(all[j], fresh)
    BY <2>2, <2>3 DEF IsStale
  <2>5. PICK k \in DOMAIN pruned.models : pruned.models[k] = all[j]
    BY <1>6, <2>4
  <2> QED BY <2>5, EmptySeq
<1>9. held.models # <<>> => pruned.models # <<>>
  BY <1>7, EmptySeq DEF Ids
<1>10. pruned.models = <<>> => pruned.active = NoModel /\ ~pruned.pinned
  BY <1>1, <1>5, <1>9
<1>11. pruned.active \in Ids(pruned.models) \/ pruned.active = NoModel
  BY <1>1, <1>5, <1>7
<1> DEFINE s == AssignModels(pruned)
<1>12. /\ s \in SoundSettings /\ s.models = pruned.models /\ s.pinned = pruned.pinned
       /\ pruned.active \in Ids(pruned.models) => s.active = pruned.active
  BY <1>5, <1>6, <1>10, <1>11, AssignedIsSound DEF CatalogRecord
<1>13. AddDiscoveredModels(held, listing) = s
  BY DEF AddDiscoveredModels, merged, pruned, all
<1> HIDE DEF s
<1>14. ASSUME NEW i \in DOMAIN held.models, held.models[i].source = "manual", held.models[i].id \notin fresh
       PROVE  \E j \in DOMAIN s.models : s.models[j] = held.models[i]
  <2>1. PICK k \in DOMAIN all : all[k] = held.models[i]
    BY <1>2, <1>14
  <2>2. ~IsStale(all[k], fresh)
    BY <1>14, <2>1 DEF IsStale
  <2> QED BY <1>6, <1>12, <2>1, <2>2
<1> QED BY <1>5, <1>7, <1>12, <1>13, <1>14

\* A model set by hand under a label that takes no other's place is the active one.
LEMMA SetIsSound ==
    ASSUME NEW s \in SoundSettings, NEW label \in Labels,
           LET model == [id |-> label, name |-> label, source |-> "manual"]
               i == EntryFor(s.models, model)
           IN  i = 0 \/ s.models[i].id = label
    PROVE  LET model == [id |-> label, name |-> label, source |-> "manual"]
               after == UpsertModel(s.models, model)
               set == [models |-> after, active |-> label, pinned |-> TRUE]
           IN  /\ set \in SoundSettings
               /\ \E j \in DOMAIN after : after[j] = model
               /\ \A i \in DOMAIN s.models : s.models[i].id # label =>
                      \E j \in DOMAIN after : after[j] = s.models[i]
<1> DEFINE model == [id |-> label, name |-> label, source |-> "manual"]
           after == UpsertModel(s.models, model)
           set == [models |-> after, active |-> label, pinned |-> TRUE]
<1>1. model \in CatalogModels /\ model.id = label
  BY DEF CatalogModels
<1>2. s.models \in Seq(CatalogModels) /\ Distinct(s.models)
  BY DEF SoundSettings
<1>3. EntryFor(s.models, model) = 0 \/ s.models[EntryFor(s.models, model)].id = model.id
  OBVIOUS
<1> HIDE DEF model
<1>4. /\ after \in Seq(CatalogModels) /\ Distinct(after)
      /\ \E j \in DOMAIN after : after[j] = model
      /\ \A i \in DOMAIN s.models : \E j \in DOMAIN after :
             /\ after[j].id = s.models[i].id
             /\ s.models[i].id # model.id => after[j] = s.models[i]
  BY <1>1, <1>2, <1>3, UpsertKeeps
<1> HIDE DEF after
<1>5. label \in Ids(after) /\ after # <<>>
  <2>1. PICK j \in DOMAIN after : after[j] = model
    BY <1>4
  <2> QED BY <1>1, <2>1, EmptySeq DEF Ids
<1>6. set \in SoundSettings
  BY <1>4, <1>5 DEF SoundSettings
<1>7. \A i \in DOMAIN s.models : s.models[i].id # label => \E j \in DOMAIN after : after[j] = s.models[i]
  BY <1>1, <1>4
<1> QED BY <1>4, <1>6, <1>7 DEF model, after

Phases == {"closed", "opening", "discovering", "open"}

\* Is a model set by hand, under this label, in a list?
ByHand(models, label) == \E i \in DOMAIN models : models[i].id = label /\ models[i].source = "manual"

AppsTyped ==
    /\ settings \in SoundSettings
    /\ apps \in [Apps -> [at : Phases, held : SoundSettings, behind : BOOLEAN]]

\* A choice that is pinned is one the user made.
PinnedIsAdded ==
    /\ settings.pinned => settings.active \in added
    /\ \A p \in Apps : apps[p].held.pinned => apps[p].held.active \in added

\* What the user set and the gateway has not listed is in the file, and in every
\* process that has read the file as it is.
AddedIsHeld ==
    ~lapsed => \A a \in added \ listed :
        /\ ByHand(settings.models, a)
        /\ \A p \in Apps : apps[p].at # "closed" /\ ~apps[p].behind => ByHand(apps[p].held.models, a)

CatalogInv == ~crossed => AppsTyped /\ ~refused /\ PinnedIsAdded /\ AddedIsHeld

LEMMA CatalogStarts == CatalogInit => CatalogInv
<1> SUFFICES ASSUME CatalogInit
             PROVE  AppsTyped /\ ~refused /\ PinnedIsAdded /\ AddedIsHeld
  BY DEF CatalogInv
<1> DEFINE none == [models |-> <<>>, active |-> NoModel, pinned |-> FALSE]
<1>1. none \in SoundSettings
  <2>1. <<>> \in Seq(CatalogModels) /\ DOMAIN <<>> = {}
    BY EmptySeq
  <2>2. Distinct(<<>>)
    BY <2>1 DEF Distinct
  <2> QED BY <2>1, <2>2 DEF SoundSettings
<1>2. settings = none /\ apps = [p \in Apps |-> [at |-> "closed", held |-> none, behind |-> FALSE]]
  BY DEF CatalogInit, Closed
<1>3. ~none.pinned
  OBVIOUS
<1> HIDE DEF none
<1>4. AppsTyped
  BY <1>1, <1>2 DEF AppsTyped, Phases
<1>5. ~refused /\ ~lapsed /\ added = {}
  BY DEF CatalogInit
<1> QED BY <1>2, <1>3, <1>4, <1>5 DEF PinnedIsAdded, AddedIsHeld

\* What holds of the list is what the run of it checks.
LEMMA KeptIfInOrder == CatalogInv => CatalogIsKept
<1> SUFFICES ASSUME CatalogInv
             PROVE  RefreshStrandsNothing /\ AddedIsKept
  BY DEF CatalogIsKept
<1>1. RefreshStrandsNothing
  <2> SUFFICES ASSUME ~crossed
               PROVE  /\ ~refused
                      /\ \A s \in {settings} \union {apps[p].held : p \in Apps} : s.models # <<>> => Usable(s)
                      /\ (settings.pinned /\ ~lapsed) => settings.active \in added
    BY DEF RefreshStrandsNothing
  <2>1. AppsTyped /\ ~refused /\ PinnedIsAdded
    BY DEF CatalogInv
  <2>2. \A s \in SoundSettings : s.models # <<>> => Usable(s)
    BY DEF SoundSettings, Usable
  <2>3. {settings} \union {apps[p].held : p \in Apps} \subseteq SoundSettings
    BY <2>1 DEF AppsTyped
  <2> QED BY <2>1, <2>2, <2>3 DEF PinnedIsAdded
<1>2. AddedIsKept
  <2> SUFFICES ASSUME ~crossed, ~lapsed, NEW a \in added, a \notin listed
               PROVE  a \in Ids(settings.models)
    BY DEF AddedIsKept
  <2>1. ByHand(settings.models, a)
    BY DEF CatalogInv, AddedIsHeld
  <2> QED BY <2>1 DEF ByHand, Ids
<1> QED BY <1>1, <1>2

\* A write of sound settings: the file has them, the others are behind.
LEMMA SaveKeeps ==
    ASSUME AppsTyped, ~refused, NEW p \in Apps, NEW s \in SoundSettings, NEW at \in Phases, SaveSettings(p, s, at)
    PROVE  /\ settings' = s /\ ~refused' /\ lapsed' = (lapsed \/ apps[p].behind)
           /\ apps' = [q \in Apps |-> IF q = p THEN [at |-> at, held |-> s, behind |-> FALSE]
                                      ELSE IF apps[q].at = "closed" THEN apps[q] ELSE [apps[q] EXCEPT !.behind = TRUE]]
           /\ AppsTyped'
<1>1. AutoAssignModels(s) = s /\ Valid(s)
  BY SoundStays
<1>2. /\ settings' = s /\ ~refused' /\ lapsed' = (lapsed \/ apps[p].behind)
      /\ apps' = [q \in Apps |-> IF q = p THEN [at |-> at, held |-> s, behind |-> FALSE]
                                 ELSE IF apps[q].at = "closed" THEN apps[q] ELSE [apps[q] EXCEPT !.behind = TRUE]]
  BY <1>1 DEF SaveSettings
<1>3. AppsTyped'
  <2> DEFINE App == [at : Phases, held : SoundSettings, behind : BOOLEAN]
  <2>1. \A q \in Apps : apps[q] \in App
    BY DEF AppsTyped
  <2>2. \A a \in App : [a EXCEPT !.behind = TRUE] \in App
    OBVIOUS
  <2>3. [at |-> at, held |-> s, behind |-> FALSE] \in App
    OBVIOUS
  <2> HIDE DEF App
  <2>4. apps' \in [Apps -> App]
    BY <1>2, <2>1, <2>2, <2>3
  <2> QED BY <1>2, <2>4 DEF AppsTyped, App
<1> QED BY <1>2, <1>3

\* After a write by one process, the rest of the invariant is a matter of what it wrote.
LEMMA WriteKeeps ==
    ASSUME AppsTyped, PinnedIsAdded, ~refused, added' = added, listed \subseteq listed',
           NEW p \in Apps, NEW s \in SoundSettings, NEW at \in Phases, SaveSettings(p, s, at),
           s.pinned => s.active \in added,
           ~lapsed' => \A a \in added \ listed' : ByHand(s.models, a)
    PROVE  AppsTyped' /\ ~refused' /\ PinnedIsAdded' /\ AddedIsHeld'
<1> DEFINE App == [at : Phases, held : SoundSettings, behind : BOOLEAN]
<1>1. /\ settings' = s /\ ~refused' /\ AppsTyped'
      /\ apps' = [q \in Apps |-> IF q = p THEN [at |-> at, held |-> s, behind |-> FALSE]
                                 ELSE IF apps[q].at = "closed" THEN apps[q] ELSE [apps[q] EXCEPT !.behind = TRUE]]
  BY SaveKeeps
<1>2. \A q \in Apps : apps[q] \in App
  BY DEF AppsTyped
<1>3. \A a \in App : [a EXCEPT !.behind = TRUE].held = a.held /\ [a EXCEPT !.behind = TRUE].behind
  OBVIOUS
<1> HIDE DEF App
<1>4. apps'[p].held = s
  BY <1>1
<1>5. \A q \in Apps : q # p => apps'[q].held = apps[q].held /\ (apps'[q].at = "closed" \/ apps'[q].behind)
  <2> SUFFICES ASSUME NEW q \in Apps, q # p
               PROVE  apps'[q].held = apps[q].held /\ (apps'[q].at = "closed" \/ apps'[q].behind)
    OBVIOUS
  <2>1. apps'[q] = IF apps[q].at = "closed" THEN apps[q] ELSE [apps[q] EXCEPT !.behind = TRUE]
    BY <1>1
  <2> QED BY <1>2, <1>3, <2>1
<1>6. PinnedIsAdded'
  BY <1>1, <1>4, <1>5 DEF PinnedIsAdded
<1>7. AddedIsHeld'
  BY <1>1, <1>4, <1>5 DEF AddedIsHeld
<1> QED BY <1>1, <1>6, <1>7

\* The answer of the gateway, merged and written.
LEMMA DiscoverKeeps ==
    ASSUME CatalogInv, NEW p \in Apps, NEW l \in Listings, Discover(p, l)
    PROVE  CatalogInv'
<1> SUFFICES ASSUME ~crossed'
             PROVE  AppsTyped' /\ ~refused' /\ PinnedIsAdded' /\ AddedIsHeld'
  BY DEF CatalogInv
<1> DEFINE held == apps[p].held
           s == AddDiscoveredModels(held, l)
           at == IF apps[p].at = "discovering" THEN "closed" ELSE "open"
           fresh == {l[i].id : i \in DOMAIN l}
<1>1. ~crossed /\ ~Crosses(held.models, l) /\ listed' = listed \union fresh /\ added' = added /\ SaveSettings(p, s, at)
  BY DEF Discover
<1>2. AppsTyped /\ ~refused /\ PinnedIsAdded /\ AddedIsHeld
  BY <1>1 DEF CatalogInv
<1>3. held \in SoundSettings /\ l \in Seq(Entries) /\ at \in Phases
  BY <1>2, CatalogAssumption DEF AppsTyped, Entries, Phases
<1>4. /\ s \in SoundSettings /\ s.pinned = held.pinned
      /\ held.models # <<>> => s.active = held.active
      /\ \A i \in DOMAIN held.models :
             held.models[i].source = "manual" /\ held.models[i].id \notin fresh =>
                 \E j \in DOMAIN s.models : s.models[j] = held.models[i]
  <2> HIDE DEF held
  <2> QED BY <1>1, <1>3, DiscoveredIsSound
<1>5. apps[p].at # "closed"
  BY DEF Discover
<1>6. held.pinned => held.models # <<>> /\ held.active \in added
  BY <1>2, <1>3 DEF PinnedIsAdded, SoundSettings
<1>7. lapsed' = (lapsed \/ apps[p].behind)
  BY <1>1, <1>2, <1>3, <1>4, SaveKeeps
<1>8. ASSUME ~lapsed', NEW a \in added \ listed'
      PROVE  ByHand(s.models, a)
  <2>1. a \in added \ listed /\ a \notin fresh
    BY <1>1, <1>8
  <2>2. ByHand(held.models, a)
    BY <1>2, <1>5, <1>7, <1>8, <2>1 DEF AddedIsHeld
  <2>3. PICK i \in DOMAIN held.models : held.models[i].id = a /\ held.models[i].source = "manual"
    BY <2>2 DEF ByHand
  <2>4. PICK j \in DOMAIN s.models : s.models[j] = held.models[i]
    BY <1>4, <2>1, <2>3
  <2> HIDE DEF s, held
  <2> QED BY <2>3, <2>4 DEF ByHand
<1>9. s.pinned => s.active \in added
  BY <1>4, <1>6
<1> HIDE DEF s, at, held, fresh
<1>10. listed \subseteq listed'
  BY <1>1
<1> QED BY <1>1, <1>2, <1>3, <1>4, <1>8, <1>9, <1>10, WriteKeeps

\* A setting of an open process changed.
LEMMA SaveHeldKeeps ==
    ASSUME CatalogInv, NEW p \in Apps, SaveHeld(p)
    PROVE  CatalogInv'
<1> SUFFICES ASSUME ~crossed'
             PROVE  AppsTyped' /\ ~refused' /\ PinnedIsAdded' /\ AddedIsHeld'
  BY DEF CatalogInv
<1>1. /\ ~crossed /\ listed' = listed /\ added' = added
      /\ apps[p].at = "open" /\ SaveSettings(p, apps[p].held, "open")
  BY DEF SaveHeld
<1>2. AppsTyped /\ ~refused /\ PinnedIsAdded /\ AddedIsHeld
  BY <1>1 DEF CatalogInv
<1>3. apps[p].held \in SoundSettings /\ "open" \in Phases
  BY <1>2 DEF AppsTyped, Phases
<1>4. lapsed' = (lapsed \/ apps[p].behind)
  BY <1>1, <1>2, <1>3, SaveKeeps
<1>5. ~lapsed' => \A a \in added \ listed' : ByHand(apps[p].held.models, a)
  BY <1>1, <1>2, <1>4 DEF AddedIsHeld
<1>6. apps[p].held.pinned => apps[p].held.active \in added
  BY <1>2 DEF PinnedIsAdded
<1> QED BY <1>1, <1>2, <1>3, <1>5, <1>6, WriteKeeps

\* `config set model`.
LEMMA SetModelKeeps ==
    ASSUME CatalogInv, NEW label \in Labels, SetModel(label)
    PROVE  CatalogInv'
<1> SUFFICES ASSUME ~crossed'
             PROVE  AppsTyped' /\ ~refused' /\ PinnedIsAdded' /\ AddedIsHeld'
  BY DEF CatalogInv
<1> DEFINE model == [id |-> label, name |-> label, source |-> "manual"]
           after == UpsertModel(settings.models, model)
           set == [models |-> after, active |-> label, pinned |-> TRUE]
           App == [at : Phases, held : SoundSettings, behind : BOOLEAN]
<1>1. ~crossed
  BY DEF SetModel
<1>2. AppsTyped /\ ~refused /\ PinnedIsAdded /\ AddedIsHeld
  BY <1>1 DEF CatalogInv
<1>3. settings \in SoundSettings /\ AutoAssignModels(settings) = settings
  BY <1>2, SoundStays DEF AppsTyped
<1>4. LET i == EntryFor(settings.models, model) IN i = 0 \/ settings.models[i].id = label
  BY <1>3 DEF SetModel
<1>5. /\ set \in SoundSettings
      /\ \E j \in DOMAIN after : after[j] = model
      /\ \A i \in DOMAIN settings.models : settings.models[i].id # label =>
             \E j \in DOMAIN after : after[j] = settings.models[i]
  BY <1>3, <1>4, SetIsSound
<1>6. Valid(set)
  BY <1>5, SoundStays
<1>7. /\ settings' = set /\ added' = added \union {label} /\ ~refused' /\ lapsed' = lapsed /\ listed' = listed
      /\ apps' = [q \in Apps |-> IF apps[q].at = "closed" THEN apps[q] ELSE [apps[q] EXCEPT !.behind = TRUE]]
  BY <1>2, <1>3, <1>6 DEF SetModel
<1>8. \A q \in Apps : apps[q] \in App
  BY <1>2 DEF AppsTyped
<1>9. \A a \in App : /\ [a EXCEPT !.behind = TRUE] \in App /\ [a EXCEPT !.behind = TRUE].held = a.held
                     /\ [a EXCEPT !.behind = TRUE].behind
  OBVIOUS
<1> HIDE DEF App
<1>10. \A q \in Apps : /\ apps'[q] \in App /\ apps'[q].held = apps[q].held
                       /\ apps'[q].at = "closed" \/ apps'[q].behind
  <2> SUFFICES ASSUME NEW q \in Apps
               PROVE  /\ apps'[q] \in App /\ apps'[q].held = apps[q].held
                      /\ apps'[q].at = "closed" \/ apps'[q].behind
    OBVIOUS
  <2>1. apps'[q] = IF apps[q].at = "closed" THEN apps[q] ELSE [apps[q] EXCEPT !.behind = TRUE]
    BY <1>7
  <2> QED BY <1>8, <1>9, <2>1
<1>11. settings'.models = after /\ settings'.active = label
  BY <1>7
<1> HIDE DEF set, after, model
<1>12. AppsTyped'
  <2>1. apps' \in [Apps -> App]
    BY <1>7, <1>10
  <2> QED BY <1>5, <1>7, <2>1 DEF AppsTyped, App
<1>13. PinnedIsAdded'
  BY <1>2, <1>7, <1>10, <1>11 DEF PinnedIsAdded
<1>14. ASSUME ~lapsed', NEW a \in added' \ listed'
       PROVE  ByHand(after, a)
  <2>1. CASE a = label
    BY <1>5, <2>1 DEF ByHand, model
  <2>2. CASE a # label
    <3>1. ByHand(settings.models, a)
      BY <1>2, <1>7, <1>14, <2>2 DEF AddedIsHeld
    <3>2. PICK i \in DOMAIN settings.models : settings.models[i].id = a /\ settings.models[i].source = "manual"
      BY <3>1 DEF ByHand
    <3>3. PICK j \in DOMAIN after : after[j] = settings.models[i]
      BY <1>5, <2>2, <3>2
    <3> QED BY <3>2, <3>3 DEF ByHand
  <2> QED BY <2>1, <2>2
<1>15. AddedIsHeld'
  BY <1>10, <1>11, <1>14 DEF AddedIsHeld
<1> QED BY <1>7, <1>12, <1>13, <1>15

\* A process opens, gives up asking, switches its model or closes: the file stays.
LEMMA ProcessKeeps ==
    ASSUME CatalogInv, NEW p \in Apps,
           \/ \E at \in {"opening", "discovering"} : LoadSettings(p, at)
           \/ OfflineStart(p) \/ CloseApp(p)
           \/ \E id \in Labels : SwitchModel(p, id)
    PROVE  CatalogInv'
<1> SUFFICES ASSUME ~crossed'
             PROVE  AppsTyped' /\ ~refused' /\ PinnedIsAdded' /\ AddedIsHeld'
  BY DEF CatalogInv
<1> DEFINE App == [at : Phases, held : SoundSettings, behind : BOOLEAN]
<1>1. /\ ~crossed /\ UNCHANGED <<settings, listed, added, lapsed, refused>>
  BY DEF LoadSettings, OfflineStart, CloseApp, SwitchModel
<1>2. AppsTyped /\ ~refused /\ PinnedIsAdded /\ AddedIsHeld
  BY <1>1 DEF CatalogInv
<1>3. settings \in SoundSettings /\ AutoAssignModels(settings) = settings /\ apps \in [Apps -> App]
  BY <1>2, SoundStays DEF AppsTyped
<1>4. Closed \in App /\ Closed.at = "closed" /\ ~Closed.held.pinned
  <2>1. <<>> \in Seq(CatalogModels) /\ DOMAIN <<>> = {} /\ Distinct(<<>>)
    BY EmptySeq DEF Distinct
  <2>2. [models |-> <<>>, active |-> NoModel, pinned |-> FALSE] \in SoundSettings
    BY <2>1 DEF SoundSettings
  <2> QED BY <2>2 DEF Closed, Phases
<1>5. PICK app \in App :
          /\ apps' = [apps EXCEPT ![p] = app]
          /\ app.held.pinned => app.held.active \in added
          /\ ~lapsed => \A a \in added \ listed : app.at # "closed" /\ ~app.behind => ByHand(app.held.models, a)
  <2>1. CASE \E at \in {"opening", "discovering"} : LoadSettings(p, at)
    <3>1. PICK at \in {"opening", "discovering"} :
              apps' = [apps EXCEPT ![p] = [at |-> at, held |-> settings, behind |-> FALSE]]
      BY <1>3, <2>1 DEF LoadSettings
    <3>2. [at |-> at, held |-> settings, behind |-> FALSE] \in App
      BY <1>3 DEF Phases
    <3> QED BY <1>2, <3>1, <3>2 DEF PinnedIsAdded, AddedIsHeld
  <2>2. CASE OfflineStart(p)
    <3>1. CASE apps[p].at = "opening"
      <4>1. apps' = [apps EXCEPT ![p] = [apps[p] EXCEPT !.at = "open"]]
        BY <1>3, <2>2, <3>1 DEF OfflineStart
      <4>2. /\ [apps[p] EXCEPT !.at = "open"] \in App /\ [apps[p] EXCEPT !.at = "open"].held = apps[p].held
            /\ [apps[p] EXCEPT !.at = "open"].behind = apps[p].behind
        BY <1>3 DEF Phases
      <4> QED BY <1>2, <3>1, <4>1, <4>2 DEF PinnedIsAdded, AddedIsHeld
    <3>2. CASE apps[p].at # "opening"
      BY <1>4, <2>2, <3>2 DEF OfflineStart
    <3> QED BY <3>1, <3>2
  <2>3. CASE CloseApp(p)
    BY <1>4, <2>3 DEF CloseApp
  <2>4. CASE \E id \in Labels : SwitchModel(p, id)
    <3>1. PICK id \in Labels : SwitchModel(p, id)
      BY <2>4
    <3> DEFINE held == [apps[p].held EXCEPT !.active = id]
               app == [apps[p] EXCEPT !.held = held]
    <3>2. apps[p] \in App /\ apps[p].held \in SoundSettings
      BY <1>3
    <3>3. /\ apps' = [apps EXCEPT ![p] = app]
          /\ ~apps[p].held.pinned /\ id \in Ids(apps[p].held.models)
      BY <1>3, <3>1 DEF SwitchModel
    <3>4. /\ held \in SoundSettings /\ held.models = apps[p].held.models /\ ~held.pinned
      <4>1. apps[p].held.models # <<>>
        BY <3>3, EmptySeq DEF Ids
      <4>2. /\ held \in [models : Seq(CatalogModels), active : Labels \union {NoModel}, pinned : BOOLEAN]
            /\ held.models = apps[p].held.models /\ held.pinned = apps[p].held.pinned /\ held.active = id
        BY <3>2 DEF SoundSettings
      <4>3. Distinct(apps[p].held.models)
        BY <3>2 DEF SoundSettings
      <4> HIDE DEF held
      <4> QED BY <3>3, <4>1, <4>2, <4>3 DEF SoundSettings
    <3> HIDE DEF held
    <3>5. app \in App /\ app.held = held /\ app.at = apps[p].at /\ app.behind = apps[p].behind
      BY <3>2, <3>4
    <3> HIDE DEF app
    <3> QED BY <1>2, <3>3, <3>4, <3>5 DEF AddedIsHeld
  <2> QED BY <2>1, <2>2, <2>3, <2>4
<1> HIDE DEF App
<1>6. apps'[p] = app /\ \A q \in Apps : q # p => apps'[q] = apps[q]
  BY <1>3, <1>5
<1>7. AppsTyped'
  <2>1. apps' \in [Apps -> App]
    BY <1>3, <1>5
  <2> QED BY <1>1, <1>3, <2>1 DEF AppsTyped, App
<1>8. PinnedIsAdded'
  BY <1>1, <1>2, <1>5, <1>6 DEF PinnedIsAdded
<1>9. AddedIsHeld'
  BY <1>1, <1>2, <1>5, <1>6 DEF AddedIsHeld
<1> QED BY <1>1, <1>2, <1>7, <1>8, <1>9

\* Renewing the list of models keeps what the sessions and the user chose: while no entry
\* has been replaced by one of its name under another id, no write is refused, every list
\* that is not empty has its active model, and a pinned choice is one the user made; and
\* while no process has written over another, a model the user set stays in the file until
\* the gateway has listed it.
THEOREM CatalogAlwaysKept == CatalogSpec => []CatalogIsKept
<1>1. CatalogInit => CatalogInv
  BY CatalogStarts
<1>2. CatalogInv /\ [CatalogNext]_catalogVars => CatalogInv'
  <2> SUFFICES ASSUME CatalogInv, [CatalogNext]_catalogVars
               PROVE  CatalogInv'
    OBVIOUS
  <2>1. CASE UNCHANGED catalogVars
    BY <2>1 DEF catalogVars, CatalogInv, AppsTyped, PinnedIsAdded, AddedIsHeld
  <2>2. CASE \E p \in Apps, l \in Listings : Discover(p, l)
    BY <2>2, DiscoverKeeps
  <2>3. CASE \E p \in Apps : SaveHeld(p)
    BY <2>3, SaveHeldKeeps
  <2>4. CASE \E label \in Labels : SetModel(label)
    BY <2>4, SetModelKeeps
  <2>5. CASE \E p \in Apps : \/ \E at \in {"opening", "discovering"} : LoadSettings(p, at)
                             \/ OfflineStart(p) \/ CloseApp(p)
                             \/ \E id \in Labels : SwitchModel(p, id)
    BY <2>5, ProcessKeeps
  <2> QED BY <2>1, <2>2, <2>3, <2>4, <2>5 DEF CatalogNext
<1>3. CatalogInv => CatalogIsKept
  BY KeptIfInOrder
<1> QED BY <1>1, <1>2, <1>3, PTL DEF CatalogSpec

-----------------------------------------------------------------------------
(* The ledger on disk: what an append acknowledged is read back.           *)

(* What is kept of a sequence. *)

KeptOf(e, S) == IF e \in S THEN <<e>> ELSE <<>>
KeptLists(s, S) == [j \in DOMAIN s |-> KeptOf(s[j], S)]

LEMMA KeptIs ==
    ASSUME NEW T, NEW s \in Seq(T), NEW S
    PROVE  /\ OnlyIn(s, S) = FlattenSeq(KeptLists(s, S))
           /\ KeptLists(s, S) \in Seq(Seq(T)) /\ Len(KeptLists(s, S)) = Len(s)
           /\ \A j \in 1 .. Len(s) : KeptLists(s, S)[j] = KeptOf(s[j], S)
           /\ OnlyIn(s, S) \in Seq(T)
<1>1. DOMAIN s = 1 .. Len(s) /\ Len(s) \in Nat /\ \A j \in 1 .. Len(s) : s[j] \in T
  BY LenProperties, ElementOfSeq
<1>2. \A e \in T : KeptOf(e, S) \in Seq(T)
  BY DEF KeptOf
<1>3. KeptLists(s, S) = [j \in 1 .. Len(s) |-> KeptOf(s[j], S)]
  BY <1>1 DEF KeptLists
<1>4. KeptLists(s, S) \in Seq(Seq(T)) /\ Len(KeptLists(s, S)) = Len(s)
      /\ \A j \in 1 .. Len(s) : KeptLists(s, S)[j] = KeptOf(s[j], S)
  BY <1>1, <1>2, <1>3
<1>5. OnlyIn(s, S) = FlattenSeq(KeptLists(s, S))
  BY DEF OnlyIn, KeptLists, KeptOf
<1>6. OnlyIn(s, S) \in Seq(T)
  <2> DEFINE k == KeptLists(s, S)
  <2>1. k \in Seq(Seq(T))
    BY <1>4
  <2> HIDE DEF k
  <2>2. FlattenSeq(k) \in Seq(T)
    BY <2>1, FlattenRun
  <2> QED BY <1>5, <2>2 DEF k
<1> QED BY <1>4, <1>5, <1>6

LEMMA KeptAppended ==
    ASSUME NEW T, NEW s \in Seq(T), NEW e \in T, NEW S
    PROVE  OnlyIn(Append(s, e), S) = OnlyIn(s, S) \o KeptOf(e, S)
<1> DEFINE t == Append(s, e)
           k == KeptLists(s, S)
           l == KeptLists(t, S)
           x == KeptOf(e, S)
<1>1. t \in Seq(T) /\ Len(t) = Len(s) + 1 /\ Len(s) \in Nat /\ t[Len(s) + 1] = e
      /\ \A i \in 1 .. Len(s) : t[i] = s[i]
  BY AppendProperties, LenProperties
<1> HIDE DEF t
<1>2. k \in Seq(Seq(T)) /\ Len(k) = Len(s) /\ \A j \in 1 .. Len(s) : k[j] = KeptOf(s[j], S)
  BY KeptIs
<1>3. l \in Seq(Seq(T)) /\ Len(l) = Len(t) /\ \A j \in 1 .. Len(t) : l[j] = KeptOf(t[j], S)
  BY <1>1, KeptIs
<1>4. x \in Seq(T)
  BY DEF KeptOf
<1>5. OnlyIn(s, S) = FlattenSeq(k) /\ OnlyIn(t, S) = FlattenSeq(l)
  BY <1>1, KeptIs
<1> HIDE DEF k, l, x
<1>6. Len(l) = Len(k) + 1 /\ (\A i \in 1 .. Len(k) : l[i] = k[i]) /\ l[Len(k) + 1] = x
  <2>1. Len(l) = Len(k) + 1 /\ Len(k) = Len(s)
    BY <1>1, <1>2, <1>3
  <2>2. ASSUME NEW i \in 1 .. Len(s)
        PROVE  l[i] = k[i]
    <3>1. i \in 1 .. Len(t) /\ t[i] = s[i]
      BY <1>1
    <3>2. l[i] = KeptOf(t[i], S) /\ k[i] = KeptOf(s[i], S)
      BY <1>2, <1>3, <3>1
    <3> QED BY <3>1, <3>2
  <2>3. l[Len(s) + 1] = x
    <3>1. Len(s) + 1 \in 1 .. Len(t)
      BY <1>1
    <3>2. l[Len(s) + 1] = KeptOf(t[Len(s) + 1], S)
      BY <1>3, <3>1
    <3> QED BY <1>1, <3>2 DEF x
  <2> QED BY <2>1, <2>2, <2>3
<1>7. FlattenSeq(l) = FlattenSeq(k) \o x
  BY <1>2, <1>3, <1>4, <1>6, ListGrows
<1> QED BY <1>5, <1>7 DEF t, x

LEMMA KeptNone ==
    ASSUME NEW T, NEW s \in Seq(T), NEW S, \A j \in 1 .. Len(s) : s[j] \notin S
    PROVE  OnlyIn(s, S) = <<>>
<1> DEFINE k == KeptLists(s, S)
<1>1. k \in Seq(Seq(T)) /\ Len(k) = Len(s) /\ \A j \in 1 .. Len(s) : k[j] = KeptOf(s[j], S)
  BY KeptIs
<1>2. OnlyIn(s, S) = FlattenSeq(k)
  BY KeptIs
<1>3. \A j \in 1 .. Len(k) : k[j] = <<>>
  BY <1>1 DEF KeptOf
<1> HIDE DEF k
<1> QED BY <1>1, <1>2, <1>3, FlattenEmpties

LEMMA KeptSame ==
    ASSUME NEW T, NEW s \in Seq(T), NEW S, NEW R, \A j \in 1 .. Len(s) : s[j] \in S <=> s[j] \in R
    PROVE  OnlyIn(s, S) = OnlyIn(s, R)
<1> DEFINE k == KeptLists(s, S)
           l == KeptLists(s, R)
<1>1. k \in Seq(Seq(T)) /\ Len(k) = Len(s) /\ \A j \in 1 .. Len(s) : k[j] = KeptOf(s[j], S)
  BY KeptIs
<1>2. l \in Seq(Seq(T)) /\ Len(l) = Len(s) /\ \A j \in 1 .. Len(s) : l[j] = KeptOf(s[j], R)
  BY KeptIs
<1>3. OnlyIn(s, S) = FlattenSeq(k) /\ OnlyIn(s, R) = FlattenSeq(l)
  BY KeptIs
<1>4. \A j \in 1 .. Len(s) : KeptOf(s[j], S) = KeptOf(s[j], R)
  BY DEF KeptOf
<1> HIDE DEF k, l
<1>5. Len(k) = Len(l) /\ \A j \in 1 .. Len(k) : k[j] = l[j]
  BY <1>1, <1>2, <1>4
<1>6. k = l
  BY <1>1, <1>2, <1>5, SeqEqual
<1> QED BY <1>3, <1>6

LEMMA KeptJoined ==
    ASSUME NEW T, NEW s \in Seq(T), NEW t \in Seq(T), NEW S
    PROVE  OnlyIn(s \o t, S) = OnlyIn(s, S) \o OnlyIn(t, S)
<1> DEFINE c == s \o t
           k == KeptLists(s, S)
           l == KeptLists(t, S)
           g == KeptLists(c, S)
           j == k \o l
<1>1. c \in Seq(T) /\ Len(c) = Len(s) + Len(t) /\ Len(s) \in Nat /\ Len(t) \in Nat
      /\ \A i \in 1 .. Len(s) + Len(t) : c[i] = IF i <= Len(s) THEN s[i] ELSE t[i - Len(s)]
  BY ConcatProperties, LenProperties
<1> HIDE DEF c
<1>2. k \in Seq(Seq(T)) /\ Len(k) = Len(s) /\ \A i \in 1 .. Len(s) : k[i] = KeptOf(s[i], S)
  BY KeptIs
<1>3. l \in Seq(Seq(T)) /\ Len(l) = Len(t) /\ \A i \in 1 .. Len(t) : l[i] = KeptOf(t[i], S)
  BY KeptIs
<1>4. g \in Seq(Seq(T)) /\ Len(g) = Len(c) /\ \A i \in 1 .. Len(c) : g[i] = KeptOf(c[i], S)
  BY <1>1, KeptIs
<1>5. OnlyIn(s, S) = FlattenSeq(k) /\ OnlyIn(t, S) = FlattenSeq(l) /\ OnlyIn(c, S) = FlattenSeq(g)
  BY <1>1, KeptIs
<1> HIDE DEF k, l, g
<1>6. j \in Seq(Seq(T)) /\ Len(j) = Len(k) + Len(l)
      /\ \A i \in 1 .. Len(k) + Len(l) : j[i] = IF i <= Len(k) THEN k[i] ELSE l[i - Len(k)]
  <2> DEFINE X == Seq(T)
  <2>1. k \in Seq(X) /\ l \in Seq(X)
    BY <1>2, <1>3
  <2> HIDE DEF X
  <2>2. j \in Seq(X) /\ Len(j) = Len(k) + Len(l)
        /\ \A i \in 1 .. Len(k) + Len(l) : j[i] = IF i <= Len(k) THEN k[i] ELSE l[i - Len(k)]
    BY <2>1, ConcatProperties
  <2> QED BY <2>2 DEF X
<1>7. FlattenSeq(j) = FlattenSeq(k) \o FlattenSeq(l)
  BY <1>2, <1>3, FlattenJoined
<1> HIDE DEF j
<1>8. ASSUME NEW i \in 1 .. Len(g)
      PROVE  g[i] = j[i]
  <2>1. i \in 1 .. Len(s) + Len(t) /\ g[i] = KeptOf(c[i], S)
    BY <1>1, <1>4
  <2>2. CASE i <= Len(s)
    <3>1. i \in 1 .. Len(s)
      BY <1>1, <2>1, <2>2
    <3>2. c[i] = s[i] /\ k[i] = KeptOf(s[i], S)
      BY <1>1, <1>2, <2>1, <2>2, <3>1
    <3>3. j[i] = k[i]
      BY <1>2, <1>3, <1>6, <2>1, <2>2
    <3> QED BY <2>1, <3>2, <3>3
  <2>3. CASE ~(i <= Len(s))
    <3>1. i - Len(s) \in 1 .. Len(t)
      BY <1>1, <2>1, <2>3
    <3>2. c[i] = t[i - Len(s)] /\ l[i - Len(s)] = KeptOf(t[i - Len(s)], S)
      BY <1>1, <1>3, <2>1, <2>3, <3>1
    <3>3. j[i] = l[i - Len(s)]
      BY <1>2, <1>3, <1>6, <2>1, <2>3
    <3> QED BY <2>1, <3>2, <3>3
  <2> QED BY <2>2, <2>3
<1>9. Len(g) = Len(j)
  BY <1>1, <1>2, <1>3, <1>4, <1>6
<1>10. g = j
  BY <1>4, <1>6, <1>8, <1>9, SeqEqual
<1> QED BY <1>5, <1>7, <1>10 DEF c

-----------------------------------------------------------------------------
(* The lines of a file are read token by token. *)

TokenRead(lines, token) ==
    IF token = EndOfLine THEN Append(lines, <<>>)
    ELSE [lines EXCEPT ![Len(lines)] = Append(@, token)]

SomeLines(T) == {lines \in Seq(Seq(T)) : lines # <<>>}

LEMMA TokenReadIs ==
    ASSUME NEW T, NEW lines \in SomeLines(T), NEW token \in T
    PROVE  /\ TokenRead(lines, token) \in SomeLines(T) /\ Len(lines) \in Nat \ {0}
           /\ lines[Len(lines)] \in Seq(T)
           /\ token = EndOfLine => TokenRead(lines, token) = Append(lines, <<>>)
           /\ token # EndOfLine => LastLonger(lines, TokenRead(lines, token), Len(lines) - 1, <<token>>)
<1> DEFINE n == Len(lines)
           last == lines[n]
           x == Append(last, token)
           r == TokenRead(lines, token)
<1>1. n \in Nat \ {0} /\ lines \in Seq(Seq(T))
  BY EmptySeq, LenProperties DEF SomeLines
<1>2. n \in 1 .. n /\ last \in Seq(T)
  BY <1>1, ElementOfSeq
<1>3. CASE token = EndOfLine
  <2>1. r = Append(lines, <<>>)
    BY <1>3 DEF TokenRead
  <2>2. Append(lines, <<>>) \in Seq(Seq(T)) /\ Append(lines, <<>>) # <<>>
    <3>1. <<>> \in Seq(T)
      BY EmptySeq
    <3> QED BY <1>1, <3>1, AppendProperties
  <2> QED BY <1>1, <1>2, <1>3, <2>1, <2>2 DEF SomeLines
<1>4. CASE token # EndOfLine
  <2>1. r = [lines EXCEPT ![n] = x]
    BY <1>4 DEF TokenRead
  <2>2. x \in Seq(T) /\ x = last \o <<token>>
    BY <1>2, AppendProperties
  <2> HIDE DEF x, r
  <2>3. r \in Seq(Seq(T)) /\ Len(r) = n /\ \A j \in 1 .. n : r[j] = IF j = n THEN x ELSE lines[j]
    BY <1>1, <1>2, <2>1, <2>2, ExceptSeq
  <2>4. r # <<>>
    BY <1>1, <2>3, EmptySeq
  <2>5. (n - 1) + 1 = n /\ \A i \in 1 .. n - 1 : i \in 1 .. n /\ i # n
    BY <1>1
  <2>6. LastLonger(lines, r, n - 1, <<token>>)
    BY <1>2, <2>2, <2>3, <2>5 DEF LastLonger
  <2> QED BY <1>1, <1>2, <1>4, <2>3, <2>4, <2>6 DEF r, SomeLines
<1> QED BY <1>3, <1>4

\* The lines of a file, as the last value of such a run.
LinesOf(run, tokens, T) ==
    /\ run \in [0 .. Len(tokens) -> SomeLines(T)] /\ run[0] = << <<>> >>
    /\ \A k \in 1 .. Len(tokens) : run[k] = TokenRead(run[k - 1], tokens[k])

LEMMA LinesAreRun ==
    ASSUME NEW T, NEW tokens \in Seq(T)
    PROVE  \E run : LinesOf(run, tokens, T) /\ Lines(tokens) = run[Len(tokens)]
<1> DEFINE n == Len(tokens)
           X == SomeLines(T)
           base == << <<>> >>
           step == [i \in 1 .. n |-> [a \in X |-> TokenRead(a, tokens[i])]]
           body(g) == [s \in SUBSET (1 .. n) |->
                          IF s = {} THEN base ELSE TokenRead(g[s \ {Max(s)}], tokens[Max(s)])]
           iter == CHOOSE iter : iter = body(iter)
<1>1. n \in Nat /\ DOMAIN tokens = 1 .. n /\ \A i \in 1 .. n : tokens[i] \in T
  BY LenProperties, ElementOfSeq
<1>2. Lines(tokens) = iter[1 .. n]
  BY <1>1 DEF Lines, FoldLeft, MapThenFoldSet, TokenRead
<1>3. base \in X
  BY DEF SomeLines
<1> HIDE DEF n, X, base
<1>4. \A i \in 1 .. n : step[i] \in [X -> X]
  BY <1>1, TokenReadIs DEF X
<1>5. \A i \in 1 .. n : \A a \in X : step[i][a] = TokenRead(a, tokens[i])
  BY <1>1
<1> HIDE DEF step
<1>6. \E g : g = body(g)
  <2>1. FoldOf(base, step, n, X) # {}
    BY <1>1, <1>3, <1>4, FoldExists
  <2>2. PICK g \in [SUBSET (1 .. n) -> X] :
            \A s \in SUBSET (1 .. n) : g[s] = IF s = {} THEN base ELSE step[Max(s)][g[s \ {Max(s)}]]
    BY <2>1 DEF FoldOf
  <2>3. ASSUME NEW s \in SUBSET (1 .. n)
        PROVE  g[s] = IF s = {} THEN base ELSE TokenRead(g[s \ {Max(s)}], tokens[Max(s)])
    <3>1. CASE s # {}
      <4>1. Max(s) \in 1 .. n /\ s \ {Max(s)} \in SUBSET (1 .. n)
        BY <1>1, <3>1, MaxIn
      <4>2. g[s \ {Max(s)}] \in X
        BY <2>2, <4>1
      <4> QED BY <1>5, <2>2, <3>1, <4>1, <4>2
    <3> QED BY <2>2, <3>1
  <2>4. g = body(g)
    BY <2>3
  <2> QED BY <2>4
<1>7. iter = body(iter)
  <2> HIDE DEF body
  <2> QED BY <1>6
<1> HIDE DEF iter
<1>8. PICK run \in [0 .. n -> X] : run[0] = base /\ \A i \in 1 .. n : run[i] = step[i][run[i - 1]]
  <2> HIDE DEF body
  <2>1. RunOf(base, step, n, X) # {}
    BY <1>1, <1>3, <1>4, RunExists
  <2> QED BY <2>1 DEF RunOf
<1>9. \A i \in 1 .. n : run[i - 1] \in X /\ run[i] = TokenRead(run[i - 1], tokens[i])
  <2> HIDE DEF body
  <2>1. \A i \in 1 .. n : i - 1 \in 0 .. n
    BY <1>1
  <2> QED BY <1>5, <1>8, <2>1
<1>10. iter[1 .. n] = run[n]
  <2> DEFINE P == {m \in 0 .. n : iter[1 .. m] = run[m]}
  <2>1. 0 \in P
    <3>1. 1 .. 0 = {} /\ {} \in SUBSET (1 .. n) /\ 0 \in 0 .. n
      BY <1>1, MaxIn
    <3>2. iter[{}] = base
      BY <1>7, <3>1
    <3> QED BY <1>8, <3>1, <3>2
  <2>2. ASSUME NEW m \in 0 .. n, m < n, m \in P
        PROVE  m + 1 \in P
    <3>1. m + 1 \in 1 .. n /\ (m + 1) - 1 = m /\ m + 1 \in 0 .. n
      <4> HIDE DEF P
      <4> QED BY <1>1, <2>2
    <3>2. /\ Max(1 .. m + 1) = m + 1 /\ (1 .. m + 1) \ {m + 1} = 1 .. m
          /\ 1 .. m + 1 \in SUBSET (1 .. n) /\ 1 .. m + 1 # {}
      BY <1>1, <3>1, MaxIn
    <3>3. iter[1 .. m + 1] = TokenRead(iter[1 .. m], tokens[m + 1])
      BY <1>7, <3>2
    <3>4. run[m + 1] = TokenRead(run[m], tokens[m + 1])
      BY <1>9, <3>1
    <3>5. iter[1 .. m] = run[m]
      BY <2>2
    <3> QED BY <3>1, <3>3, <3>4, <3>5
  <2>3. 0 .. n \subseteq P
    <3> HIDE DEF P
    <3> QED BY <1>1, <2>1, <2>2, UpTo
  <2> QED BY <1>1, <2>3
<1>11. LinesOf(run, tokens, T)
  BY <1>8, <1>9 DEF LinesOf, n, X, base
<1> QED BY <1>2, <1>10, <1>11 DEF n

-----------------------------------------------------------------------------
(* What is read of a file whose lines have one token at most. *)

RecordsTo(a) == [kind : {"record"}, seq : 1 .. a, id : 1 .. a]
TokensTo(a) == RecordsTo(a) \cup {Fragment, EndOfLine}

\* A line ends behind a record.
EndsRecords(tokens) ==
    \A i \in 1 .. Len(tokens) : tokens[i] = EndOfLine => i > 1 /\ tokens[i - 1].kind = "record"

LEMMA KindsOfTokens ==
    ASSUME NEW a, NEW token \in TokensTo(a)
    PROVE  /\ token \in RecordsTo(a) <=> token.kind = "record"
           /\ token = EndOfLine => token.kind # "record"
BY DEF TokensTo, RecordsTo, Fragment, EndOfLine

DecodedOf(line) == IF Decodes(line) THEN line ELSE <<>>
DecodedLists(lines) == [n \in DOMAIN lines |-> DecodedOf(lines[n])]

LEMMA DecodedIs ==
    ASSUME NEW T, NEW lines \in Seq(Seq(T))
    PROVE  /\ DecodedIn(lines) = FlattenSeq(DecodedLists(lines))
           /\ DecodedLists(lines) \in Seq(Seq(T)) /\ Len(DecodedLists(lines)) = Len(lines)
           /\ \A j \in 1 .. Len(lines) : DecodedLists(lines)[j] = DecodedOf(lines[j])
           /\ DecodedIn(lines) \in Seq(T)
<1> DEFINE X == Seq(T)
<1>1. DOMAIN lines = 1 .. Len(lines) /\ Len(lines) \in Nat /\ \A j \in 1 .. Len(lines) : lines[j] \in X
  BY LenProperties, ElementOfSeq
<1>2. \A e \in X : DecodedOf(e) \in X
  BY EmptySeq DEF DecodedOf
<1>3. DecodedLists(lines) = [j \in 1 .. Len(lines) |-> DecodedOf(lines[j])]
  BY <1>1 DEF DecodedLists
<1> HIDE DEF X
<1>4. DecodedLists(lines) \in Seq(X) /\ Len(DecodedLists(lines)) = Len(lines)
      /\ \A j \in 1 .. Len(lines) : DecodedLists(lines)[j] = DecodedOf(lines[j])
  BY <1>1, <1>2, <1>3
<1>5. DecodedIn(lines) = FlattenSeq(DecodedLists(lines))
  BY DEF DecodedIn, DecodedLists, DecodedOf
<1>6. DecodedIn(lines) \in Seq(T)
  <2> DEFINE k == DecodedLists(lines)
  <2>1. k \in Seq(Seq(T))
    BY <1>4 DEF X
  <2> HIDE DEF k
  <2>2. FlattenSeq(k) \in Seq(T)
    BY <2>1, FlattenRun
  <2> QED BY <1>5, <2>2 DEF k
<1> QED BY <1>4, <1>5, <1>6 DEF X

LEMMA DecodedAppended ==
    ASSUME NEW T, NEW lines \in Seq(Seq(T))
    PROVE  DecodedIn(Append(lines, <<>>)) = DecodedIn(lines)
<1> DEFINE X == Seq(T)
           t == Append(lines, <<>>)
           k == DecodedLists(lines)
           l == DecodedLists(t)
           x == <<>>
<1>1. x \in X /\ lines \in Seq(X)
  BY EmptySeq
<1> HIDE DEF X
<1>2. t \in Seq(X) /\ Len(t) = Len(lines) + 1 /\ Len(lines) \in Nat /\ t[Len(lines) + 1] = x
      /\ \A i \in 1 .. Len(lines) : t[i] = lines[i]
  BY <1>1, AppendProperties, LenProperties
<1> HIDE DEF t
<1>3. k \in Seq(Seq(T)) /\ Len(k) = Len(lines) /\ \A j \in 1 .. Len(lines) : k[j] = DecodedOf(lines[j])
  BY DecodedIs
<1>4. l \in Seq(Seq(T)) /\ Len(l) = Len(t) /\ \A j \in 1 .. Len(t) : l[j] = DecodedOf(t[j])
  BY <1>2, DecodedIs DEF X
<1>5. DecodedIn(lines) = FlattenSeq(k) /\ DecodedIn(t) = FlattenSeq(l)
  BY <1>2, DecodedIs DEF X
<1>6. DecodedOf(x) = x
  BY DEF DecodedOf, Decodes
<1> HIDE DEF k, l
<1>7. Len(l) = Len(k) + 1 /\ (\A i \in 1 .. Len(k) : l[i] = k[i]) /\ l[Len(k) + 1] = x
  BY <1>2, <1>3, <1>4, <1>6
<1>8. FlattenSeq(l) = FlattenSeq(k) \o x
  BY <1>1, <1>3, <1>4, <1>7, ListGrows DEF X
<1>9. FlattenSeq(k) \in Seq(T)
  BY <1>3, FlattenRun
<1>10. FlattenSeq(k) \o x = FlattenSeq(k)
  BY <1>9, ConcatEmptySeq
<1> QED BY <1>5, <1>8, <1>10 DEF t

RecordOf(token) == IF token.kind = "record" THEN <<token>> ELSE <<>>

LEMMA DecodedGrows ==
    ASSUME NEW T, NEW lines \in Seq(Seq(T)), NEW read \in Seq(Seq(T)), NEW m \in Nat, NEW token \in T,
           LastLonger(lines, read, m, <<token>>), lines[m + 1] = <<>>
    PROVE  DecodedIn(read) = DecodedIn(lines) \o RecordOf(token)
<1> DEFINE k == DecodedLists(lines)
           l == DecodedLists(read)
           x == RecordOf(token)
<1>1. Len(lines) = m + 1 /\ Len(read) = m + 1 /\ \A i \in 1 .. m : read[i] = lines[i]
  BY DEF LastLonger
<1>2. read[m + 1] = <<token>>
  BY DEF LastLonger
<1>3. k \in Seq(Seq(T)) /\ Len(k) = Len(lines) /\ \A j \in 1 .. Len(lines) : k[j] = DecodedOf(lines[j])
  BY DecodedIs
<1>4. l \in Seq(Seq(T)) /\ Len(l) = Len(read) /\ \A j \in 1 .. Len(read) : l[j] = DecodedOf(read[j])
  BY DecodedIs
<1>5. DecodedIn(lines) = FlattenSeq(k) /\ DecodedIn(read) = FlattenSeq(l)
  BY DecodedIs
<1>6. DecodedOf(<<>>) = <<>> /\ DecodedOf(<<token>>) = x
  BY DEF DecodedOf, Decodes, RecordOf
<1>7. x \in Seq(T) /\ <<>> \o x = x
  BY DEF RecordOf
<1> HIDE DEF k, l, x
<1>8. m + 1 \in 1 .. m + 1 /\ \A i \in 1 .. m : i \in 1 .. m + 1
  OBVIOUS
<1>9. k[m + 1] = <<>> /\ l[m + 1] = x
  BY <1>1, <1>2, <1>3, <1>4, <1>6, <1>8
<1>10. LastLonger(k, l, m, x)
  BY <1>1, <1>3, <1>4, <1>7, <1>8, <1>9 DEF LastLonger
<1>11. FlattenSeq(l) = FlattenSeq(k) \o x
  BY <1>3, <1>4, <1>7, <1>10, LastGrows
<1> QED BY <1>5, <1>11 DEF x

LEMMA KeptOne ==
    ASSUME NEW T, NEW e \in T, NEW A, \A r \in A : r.kind = "record"
    PROVE  RecordOf(e) \in Seq(T) /\ OnlyIn(RecordOf(e), A) = KeptOf(e, A)
<1> DEFINE none == <<>>
<1>1. none \in Seq(T) /\ Len(none) = 0 /\ <<e>> = Append(none, e)
  OBVIOUS
<1>2. \A j \in 1 .. Len(none) : none[j] \notin A
  BY <1>1
<1> HIDE DEF none
<1>3. OnlyIn(none, A) = <<>>
  BY <1>1, <1>2, KeptNone
<1>4. CASE e.kind = "record"
  <2>1. RecordOf(e) = Append(none, e)
    BY <1>1, <1>4 DEF RecordOf
  <2>2. OnlyIn(Append(none, e), A) = OnlyIn(none, A) \o KeptOf(e, A)
    BY <1>1, KeptAppended
  <2>3. <<>> \o KeptOf(e, A) = KeptOf(e, A)
    BY DEF KeptOf
  <2>4. RecordOf(e) \in Seq(T)
    BY <1>1, <2>1, AppendProperties
  <2> QED BY <1>3, <2>1, <2>2, <2>3, <2>4
<1>5. CASE e.kind # "record"
  <2>1. RecordOf(e) = none /\ KeptOf(e, A) = <<>>
    BY <1>5 DEF RecordOf, KeptOf, none
  <2> QED BY <1>1, <1>3, <2>1
<1> QED BY <1>4, <1>5

\* The lines read so far, when none had more than one token: all but the last are
\* records, and nothing of A is missing or out of its place.
ReadsAs(lines, kept, A, last) ==
    /\ \A i \in 1 .. Len(lines) - 1 : Decodes(lines[i])
    /\ lines[Len(lines)] = last
    /\ OnlyIn(DecodedIn(lines), A) = kept

LEMMA LineEnds ==
    ASSUME NEW T, NEW lines \in SomeLines(T), NEW kept \in Seq(T), NEW A, NEW e \in T,
           \A r \in A : r.kind = "record", e.kind = "record", ReadsAs(lines, kept, A, <<e>>)
    PROVE  ReadsAs(Append(lines, <<>>), kept \o KeptOf(EndOfLine, A), A, <<>>)
<1> DEFINE n == Len(lines)
           read == Append(lines, <<>>)
<1>1. lines \in Seq(Seq(T)) /\ n \in Nat \ {0}
  BY EmptySeq, LenProperties DEF SomeLines
<1>2. Len(read) = n + 1 /\ read[n + 1] = <<>> /\ \A i \in 1 .. n : read[i] = lines[i]
  BY <1>1
<1>3. DecodedIn(read) = DecodedIn(lines)
  BY <1>1, DecodedAppended
<1>4. EndOfLine \notin A
  BY DEF EndOfLine
<1>5. kept \o KeptOf(EndOfLine, A) = kept
  BY <1>4, ConcatEmptySeq DEF KeptOf
<1>6. \A i \in 1 .. n : Decodes(lines[i])
  <2>1. Decodes(<<e>>)
    BY DEF Decodes
  <2>2. Decodes(lines[n]) /\ \A i \in 1 .. n - 1 : Decodes(lines[i])
    BY <2>1 DEF ReadsAs
  <2>3. \A i \in 1 .. n : i = n \/ i \in 1 .. n - 1
    BY <1>1
  <2> QED BY <2>2, <2>3
<1> HIDE DEF n, read
<1>7. \A i \in 1 .. (n + 1) - 1 : Decodes(read[i])
  <2>1. (n + 1) - 1 = n
    BY <1>1
  <2>2. \A i \in 1 .. n : Decodes(read[i])
    BY <1>2, <1>6
  <2> QED BY <2>1, <2>2
<1> QED BY <1>2, <1>3, <1>5, <1>7 DEF ReadsAs, read

LEMMA LineStarts ==
    ASSUME NEW T, NEW lines \in SomeLines(T), NEW kept \in Seq(T), NEW A, NEW e \in T,
           \A r \in A : r.kind = "record", e # EndOfLine, ReadsAs(lines, kept, A, <<>>)
    PROVE  ReadsAs(TokenRead(lines, e), kept \o KeptOf(e, A), A, <<e>>)
<1> DEFINE n == Len(lines)
           m == n - 1
           read == TokenRead(lines, e)
<1>1. lines \in Seq(Seq(T)) /\ n \in Nat \ {0} /\ m \in Nat /\ m + 1 = n
  BY EmptySeq, LenProperties DEF SomeLines
<1>2. read \in Seq(Seq(T)) /\ LastLonger(lines, read, m, <<e>>)
  <2>1. TokenRead(lines, e) \in SomeLines(T) /\ LastLonger(lines, TokenRead(lines, e), Len(lines) - 1, <<e>>)
    BY TokenReadIs
  <2> QED BY <2>1 DEF SomeLines
<1> HIDE DEF m, read
<1>3. lines[m + 1] = <<>>
  BY <1>1 DEF ReadsAs
<1>4. DecodedIn(read) = DecodedIn(lines) \o RecordOf(e)
  <2>1. m \in Nat /\ lines \in Seq(Seq(T)) /\ e \in T
    BY <1>1
  <2> QED BY <2>1, <1>2, <1>3, DecodedGrows
<1>5. DecodedIn(lines) \in Seq(T)
  BY <1>1, DecodedIs
<1>6. RecordOf(e) \in Seq(T) /\ OnlyIn(RecordOf(e), A) = KeptOf(e, A)
  BY KeptOne
<1>7. OnlyIn(DecodedIn(lines) \o RecordOf(e), A) = OnlyIn(DecodedIn(lines), A) \o OnlyIn(RecordOf(e), A)
  <2> DEFINE s == DecodedIn(lines)
             t == RecordOf(e)
  <2>1. s \in Seq(T) /\ t \in Seq(T)
    BY <1>5, <1>6
  <2> HIDE DEF s, t
  <2>2. OnlyIn(s \o t, A) = OnlyIn(s, A) \o OnlyIn(t, A)
    BY <2>1, KeptJoined
  <2> QED BY <2>2 DEF s, t
<1>8. OnlyIn(DecodedIn(lines), A) = kept
  BY DEF ReadsAs
<1>9. OnlyIn(DecodedIn(read), A) = kept \o KeptOf(e, A)
  BY <1>4, <1>6, <1>7, <1>8
<1>10. Len(read) = n /\ \A i \in 1 .. m : read[i] = lines[i]
  BY <1>1, <1>2 DEF LastLonger
<1>11. read[n] = <<e>>
  <2>1. read[m + 1] = lines[m + 1] \o <<e>>
    BY <1>2 DEF LastLonger
  <2>2. <<>> \o <<e>> = <<e>>
    OBVIOUS
  <2> QED BY <1>1, <1>3, <2>1, <2>2
<1>12. \A i \in 1 .. Len(read) - 1 : Decodes(read[i])
  <2>1. \A i \in 1 .. m : Decodes(lines[i])
    BY DEF ReadsAs, m
  <2> QED BY <1>1, <1>10, <2>1
<1> QED BY <1>9, <1>10, <1>11, <1>12 DEF ReadsAs, read

Short(lines) == \A i \in 1 .. Len(lines) : Len(lines[i]) <= 1

LEMMA ShortBefore ==
    ASSUME NEW T, NEW lines \in Seq(Seq(T)), NEW read \in Seq(Seq(T)), NEW m \in Nat, NEW e,
           LastLonger(lines, read, m, <<e>>), Short(read)
    PROVE  Short(lines) /\ lines[m + 1] = <<>>
<1> DEFINE y == lines[m + 1]
<1>1. Len(lines) = m + 1 /\ Len(read) = m + 1 /\ \A i \in 1 .. m : read[i] = lines[i]
  BY DEF LastLonger
<1>2. m + 1 \in 1 .. m + 1 /\ \A i \in 1 .. m + 1 : i = m + 1 \/ i \in 1 .. m
  OBVIOUS
<1>3. y \in Seq(T)
  BY <1>1, <1>2, ElementOfSeq
<1>4. read[m + 1] = y \o <<e>>
  BY DEF LastLonger
<1> HIDE DEF y
<1>5. Len(y \o <<e>>) = Len(y) + 1 /\ Len(y) \in Nat
  BY <1>3
<1>6. Len(read[m + 1]) <= 1
  BY <1>1, <1>2 DEF Short
<1>7. Len(y) = 0
  BY <1>4, <1>5, <1>6
<1>8. y = <<>>
  BY <1>3, <1>7, EmptySeq
<1>9. \A i \in 1 .. m : Len(lines[i]) <= 1
  BY <1>1, <1>2 DEF Short
<1> QED BY <1>1, <1>2, <1>7, <1>8, <1>9 DEF Short, y

LastOf(tokens, k) == IF k = 0 \/ tokens[k] = EndOfLine THEN <<>> ELSE <<tokens[k]>>

\* One token more.
LEMMA ReadOn ==
    ASSUME NEW T, NEW tokens \in Seq(T), EndsRecords(tokens), NEW A, \A r \in A : r.kind = "record",
           NEW k \in 0 .. Len(tokens), k < Len(tokens),
           NEW lines \in SomeLines(T), NEW kept \in Seq(T),
           Short(lines) => ReadsAs(lines, kept, A, LastOf(tokens, k)),
           Short(TokenRead(lines, tokens[k + 1]))
    PROVE  ReadsAs(TokenRead(lines, tokens[k + 1]), kept \o KeptOf(tokens[k + 1], A), A, LastOf(tokens, k + 1))
<1> DEFINE e == tokens[k + 1]
           read == TokenRead(lines, e)
           m == Len(lines) - 1
<1>1. k + 1 \in 1 .. Len(tokens) /\ (k + 1) - 1 = k /\ k + 1 # 0 /\ e \in T
  BY LenProperties, ElementOfSeq
<1>2. lines \in Seq(Seq(T)) /\ Len(lines) \in Nat \ {0} /\ read \in Seq(Seq(T))
      /\ (e = EndOfLine => read = Append(lines, <<>>))
      /\ (e # EndOfLine => LastLonger(lines, read, m, <<e>>))
  <2> HIDE DEF e
  <2> QED BY <1>1, TokenReadIs DEF SomeLines
<1>3. Short(read)
  OBVIOUS
<1>4. CASE e = EndOfLine
  <2>1. k > 1 - 1 /\ tokens[k].kind = "record"
    <3>1. k + 1 > 1 /\ tokens[(k + 1) - 1].kind = "record"
      BY <1>1, <1>4 DEF EndsRecords
    <3> QED BY <1>1, <3>1
  <2>2. k \in 1 .. Len(tokens)
    BY <1>1, <2>1
  <2>3. LastOf(tokens, k) = <<tokens[k]>> /\ tokens[k] \in T
    <3>1. tokens[k] # EndOfLine
      BY <2>1 DEF EndOfLine
    <3> QED BY <2>2, <3>1, ElementOfSeq DEF LastOf
  <2>4. read = Append(lines, <<>>)
    BY <1>2, <1>4
  <2>5. Short(lines)
    <3>1. Len(Append(lines, <<>>)) = Len(lines) + 1
          /\ \A i \in 1 .. Len(lines) : Append(lines, <<>>)[i] = lines[i] /\ i \in 1 .. Len(lines) + 1
      BY <1>2
    <3> QED BY <1>3, <2>4, <3>1 DEF Short
  <2>6. ReadsAs(lines, kept, A, <<tokens[k]>>)
    BY <2>3, <2>5
  <2>7. ReadsAs(Append(lines, <<>>), kept \o KeptOf(EndOfLine, A), A, <<>>)
    BY <2>1, <2>3, <2>6, LineEnds
  <2>8. LastOf(tokens, k + 1) = <<>>
    BY <1>4 DEF LastOf
  <2> QED BY <1>4, <2>4, <2>7, <2>8
<1>5. CASE e # EndOfLine
  <2>1. m \in Nat /\ m + 1 = Len(lines)
    BY <1>2
  <2>2. LastLonger(lines, read, m, <<e>>)
    BY <1>2, <1>5
  <2> HIDE DEF m, read
  <2>3. Short(lines) /\ lines[m + 1] = <<>>
    <3>1. m \in Nat
      BY <2>1
    <3> QED BY <1>2, <1>3, <2>2, <3>1, ShortBefore
  <2>4. ReadsAs(lines, kept, A, <<>>)
    <3>1. ReadsAs(lines, kept, A, LastOf(tokens, k))
      BY <2>3
    <3>2. LastOf(tokens, k) = <<>>
      BY <2>1, <2>3, <3>1 DEF ReadsAs
    <3> QED BY <3>1, <3>2
  <2>5. ReadsAs(TokenRead(lines, e), kept \o KeptOf(e, A), A, <<e>>)
    <3> HIDE DEF e
    <3> QED BY <1>1, <1>5, <2>4, LineStarts
  <2>6. LastOf(tokens, k + 1) = <<e>>
    BY <1>1, <1>5 DEF LastOf
  <2> QED BY <2>5, <2>6
<1> QED BY <1>4, <1>5

\* What is read of a file whose lines have one token at most: it can be read, and what
\* is read of it keeps every record, in its place.
LEMMA SeparateRead ==
    ASSUME NEW T, NEW tokens \in Seq(T), EndsRecords(tokens), NEW A, \A r \in A : r.kind = "record",
           Short(Lines(tokens))
    PROVE  Readable(tokens) /\ OnlyIn(ReadLog(tokens), A) = OnlyIn(tokens, A)
<1> DEFINE n == Len(tokens)
           chosen == KeptLists(tokens, A)
<1>1. n \in Nat /\ \A k \in 1 .. n : tokens[k] \in T
  BY LenProperties, ElementOfSeq
<1>2. PICK run : LinesOf(run, tokens, T) /\ Lines(tokens) = run[Len(tokens)]
  BY LinesAreRun
<1>3. run \in [0 .. n -> SomeLines(T)] /\ run[0] = << <<>> >>
      /\ \A k \in 1 .. n : run[k] = TokenRead(run[k - 1], tokens[k])
  BY <1>2 DEF LinesOf
<1>4. /\ OnlyIn(tokens, A) = FlattenSeq(chosen) /\ chosen \in Seq(Seq(T)) /\ Len(chosen) = n
      /\ \A j \in 1 .. n : chosen[j] = KeptOf(tokens[j], A)
  BY KeptIs
<1> HIDE DEF chosen
<1>5. PICK kept \in [0 .. Len(chosen) -> Seq(T)] :
          /\ kept[0] = <<>> /\ kept[Len(chosen)] = FlattenSeq(chosen)
          /\ \A k \in 1 .. Len(chosen) : kept[k] = kept[k - 1] \o chosen[k]
  BY <1>4, FlattenRun
<1>6. kept \in [0 .. n -> Seq(T)] /\ kept[0] = <<>> /\ kept[n] = OnlyIn(tokens, A)
      /\ \A k \in 1 .. n : kept[k] = kept[k - 1] \o KeptOf(tokens[k], A)
  BY <1>4, <1>5
<1> HIDE DEF n
<1> DEFINE P == {k \in 0 .. n : Short(run[k]) => ReadsAs(run[k], kept[k], A, LastOf(tokens, k))}
<1>7. 0 \in P
  <2> DEFINE first == << <<>> >>
  <2>1. first \in Seq(Seq(T)) /\ Len(first) = 1 /\ first[1] = <<>>
    OBVIOUS
  <2>2. DecodedIn(first) = <<>>
    <3>1. /\ DecodedIn(first) = FlattenSeq(DecodedLists(first))
          /\ DecodedLists(first) \in Seq(Seq(T)) /\ Len(DecodedLists(first)) = Len(first)
          /\ \A j \in 1 .. Len(first) : DecodedLists(first)[j] = DecodedOf(first[j])
      <4> HIDE DEF first
      <4> QED BY <2>1, DecodedIs
    <3>2. \A j \in 1 .. Len(DecodedLists(first)) : DecodedLists(first)[j] = <<>>
      <4>1. \A j \in 1 .. 1 : j = 1
        OBVIOUS
      <4> HIDE DEF first
      <4> QED BY <2>1, <3>1, <4>1 DEF DecodedOf
    <3> HIDE DEF first
    <3> DEFINE d == DecodedLists(first)
    <3>3. d \in Seq(Seq(T)) /\ \A j \in 1 .. Len(d) : d[j] = <<>>
      BY <3>1, <3>2
    <3> HIDE DEF d
    <3>4. FlattenSeq(d) = <<>>
      BY <3>3, FlattenEmpties
    <3> QED BY <3>1, <3>4 DEF d
  <2>3. OnlyIn(DecodedIn(first), A) = <<>>
    <3> DEFINE none == <<>>
    <3>1. none \in Seq(T) /\ \A j \in 1 .. Len(none) : none[j] \notin A
      OBVIOUS
    <3> HIDE DEF none
    <3>2. OnlyIn(none, A) = <<>>
      BY <3>1, KeptNone
    <3> QED BY <2>2, <3>2 DEF none
  <2>4. \A i \in 1 .. Len(first) - 1 : Decodes(first[i])
    OBVIOUS
  <2>5. LastOf(tokens, 0) = <<>> /\ first[Len(first)] = <<>>
    BY <2>1 DEF LastOf
  <2> HIDE DEF first
  <2>6. ReadsAs(first, <<>>, A, LastOf(tokens, 0))
    BY <2>3, <2>4, <2>5 DEF ReadsAs
  <2>7. run[0] = first /\ 0 \in 0 .. n
    BY <1>1, <1>3 DEF first
  <2> QED BY <1>6, <2>6, <2>7
<1>8. ASSUME NEW k \in 0 .. n, k < n, k \in P
      PROVE  k + 1 \in P
  <2>1. k + 1 \in 1 .. n /\ (k + 1) - 1 = k /\ k + 1 \in 0 .. n
    <3> HIDE DEF P
    <3> QED BY <1>1, <1>8
  <2>2. run[k] \in SomeLines(T) /\ kept[k] \in Seq(T)
    <3> HIDE DEF P
    <3> QED BY <1>3, <1>6
  <2>3. run[k + 1] = TokenRead(run[k], tokens[k + 1])
    <3> HIDE DEF P
    <3> QED BY <1>3, <2>1
  <2>4. kept[k + 1] = kept[k] \o KeptOf(tokens[k + 1], A)
    <3> HIDE DEF P
    <3> QED BY <1>6, <2>1
  <2>5. Short(run[k]) => ReadsAs(run[k], kept[k], A, LastOf(tokens, k))
    BY <1>8
  <2>6. ASSUME Short(run[k + 1])
        PROVE  ReadsAs(run[k + 1], kept[k + 1], A, LastOf(tokens, k + 1))
    <3> HIDE DEF P
    <3>1. Short(TokenRead(run[k], tokens[k + 1]))
      BY <2>3, <2>6
    <3>2. k \in 0 .. Len(tokens) /\ k < Len(tokens)
      BY <1>8 DEF n
    <3>3. ReadsAs(TokenRead(run[k], tokens[k + 1]), kept[k] \o KeptOf(tokens[k + 1], A), A, LastOf(tokens, k + 1))
      BY <2>2, <2>5, <3>1, <3>2, ReadOn
    <3> QED BY <2>3, <2>4, <3>3
  <2> QED BY <2>1, <2>6
<1>9. 0 .. n \subseteq P
  <2> HIDE DEF P
  <2> QED BY <1>1, <1>7, <1>8, UpTo
<1>10. ReadsAs(Lines(tokens), OnlyIn(tokens, A), A, LastOf(tokens, n))
  <2>1. n \in P /\ Lines(tokens) = run[n]
    BY <1>1, <1>2, <1>9 DEF n
  <2> QED BY <1>6, <2>1
<1>11. OnlyIn(ReadLog(tokens), A) = OnlyIn(tokens, A)
  BY <1>10 DEF ReadsAs, ReadLog
<1>12. Readable(tokens)
  <2> DEFINE lines == Lines(tokens)
             x == LastOf(tokens, n)
  <2>1. lines \in Seq(Seq(T)) /\ Len(lines) \in Nat \ {0}
    <3>1. lines \in SomeLines(T)
      BY <1>1, <1>2, <1>3 DEF n
    <3> HIDE DEF lines
    <3> QED BY <3>1, EmptySeq, LenProperties DEF SomeLines
  <2>2. \A i \in 1 .. Len(lines) - 1 : Decodes(lines[i])
    BY <1>10 DEF ReadsAs
  <2>3. DOMAIN lines = 1 .. Len(lines)
    BY <2>1, LenProperties
  <2> HIDE DEF lines
  <2>4. \A i \in 1 .. Len(lines) : i \in 1 .. Len(lines) - 1 \/ i + 1 .. Len(lines) = {}
    BY <2>1
  <2>5. \A i \in DOMAIN lines : lines[i] = <<>> \/ Decodes(lines[i])
                                \/ \A j \in i + 1 .. Len(lines) : lines[j] = <<>>
    BY <2>2, <2>3, <2>4
  <2> QED BY <2>5 DEF Readable, lines
<1> QED BY <1>11, <1>12

-----------------------------------------------------------------------------
(* What an append, an fsync and a loss of power do to the file. *)

\* The file, how much of it is on the disk, what was acknowledged and how many appends
\* began: the file keeps what was acknowledged, and all of it is on the disk.
LogIs(tokens, safe, done, a) ==
    /\ tokens \in Seq(TokensTo(a)) /\ safe \in 0 .. Len(tokens) /\ done \in Seq(RecordsTo(a))
    /\ EndsRecords(tokens)
    /\ OnlyIn(tokens, ToSet(done)) = done
    /\ \A i \in safe + 1 .. Len(tokens) : tokens[i] \notin ToSet(done)

\* What was acknowledged is among the records so far.
LEMMA DoneAre ==
    ASSUME NEW a \in Nat, NEW done \in Seq(RecordsTo(a))
    PROVE  /\ \A r \in ToSet(done) : r \in RecordsTo(a) /\ r.kind = "record" /\ r.id \in 1 .. a
           /\ \A j \in 1 .. Len(done) : done[j] \in ToSet(done)
<1>1. DOMAIN done = 1 .. Len(done) /\ \A j \in 1 .. Len(done) : done[j] \in RecordsTo(a)
  BY LenProperties, ElementOfSeq
<1>2. \A r \in RecordsTo(a) : r.kind = "record" /\ r.id \in 1 .. a
  BY DEF RecordsTo
<1>3. ToSet(done) = {done[j] : j \in 1 .. Len(done)}
  BY <1>1 DEF ToSet
<1> QED BY <1>1, <1>2, <1>3

\* One append more began.
LEMMA LogWider ==
    ASSUME NEW a \in Nat, NEW tokens, NEW safe, NEW done, LogIs(tokens, safe, done, a)
    PROVE  LogIs(tokens, safe, done, a + 1)
<1>1. RecordsTo(a) \subseteq RecordsTo(a + 1)
  <2>1. 1 .. a \subseteq 1 .. a + 1
    OBVIOUS
  <2> QED BY <2>1 DEF RecordsTo
<1>2. TokensTo(a) \subseteq TokensTo(a + 1)
  BY <1>1 DEF TokensTo
<1>3. tokens \in Seq(TokensTo(a + 1))
  <2> DEFINE X == TokensTo(a)
             Y == TokensTo(a + 1)
  <2>1. tokens \in Seq(X) /\ X \subseteq Y
    BY <1>2 DEF LogIs
  <2> HIDE DEF X, Y
  <2>2. tokens \in Seq(Y)
    BY <2>1
  <2> QED BY <2>2 DEF Y
<1>4. done \in Seq(RecordsTo(a + 1))
  <2> DEFINE X == RecordsTo(a)
             Y == RecordsTo(a + 1)
  <2>1. done \in Seq(X) /\ X \subseteq Y
    BY <1>1 DEF LogIs
  <2> HIDE DEF X, Y
  <2>2. done \in Seq(Y)
    BY <2>1
  <2> QED BY <2>2 DEF Y
<1> QED BY <1>3, <1>4 DEF LogIs

\* A token that was not acknowledged is written at the end.
LEMMA TokenAppended ==
    ASSUME NEW a \in Nat, NEW tokens, NEW safe, NEW done, LogIs(tokens, safe, done, a),
           NEW e \in TokensTo(a), e \notin ToSet(done),
           e = EndOfLine => Len(tokens) > 0 /\ tokens[Len(tokens)].kind = "record"
    PROVE  LogIs(Append(tokens, e), safe, done, a)
<1> DEFINE X == TokensTo(a)
           n == Len(tokens)
           t == Append(tokens, e)
           S == ToSet(done)
<1>1. tokens \in Seq(X) /\ e \in X
  BY DEF LogIs
<1> HIDE DEF X
<1>2. t \in Seq(X) /\ Len(t) = n + 1 /\ n \in Nat /\ t[n + 1] = e /\ \A i \in 1 .. n : t[i] = tokens[i]
  BY <1>1, AppendProperties, LenProperties
<1>3. OnlyIn(t, S) = done
  <2>1. OnlyIn(t, S) = OnlyIn(tokens, S) \o KeptOf(e, S)
    BY <1>1, KeptAppended
  <2>2. OnlyIn(tokens, S) = done /\ done \in Seq(RecordsTo(a)) /\ KeptOf(e, S) = <<>>
    BY DEF LogIs, KeptOf
  <2> QED BY <2>1, <2>2, ConcatEmptySeq
<1> HIDE DEF t
<1>4. EndsRecords(t)
  <2>1. ASSUME NEW i \in 1 .. Len(t), t[i] = EndOfLine
        PROVE  i > 1 /\ t[i - 1].kind = "record"
    <3>1. CASE i \in 1 .. n
      <4>1. i > 1 /\ tokens[i - 1].kind = "record"
        BY <1>2, <2>1, <3>1 DEF LogIs, EndsRecords
      <4>2. i - 1 \in 1 .. n
        BY <1>2, <3>1, <4>1
      <4> QED BY <1>2, <4>1, <4>2
    <3>2. CASE i = n + 1
      <4>1. e = EndOfLine
        BY <1>2, <2>1, <3>2
      <4>2. n > 0 /\ tokens[n].kind = "record"
        BY <4>1
      <4>3. n \in 1 .. n /\ i - 1 = n /\ i > 1
        BY <1>2, <3>2, <4>2
      <4> QED BY <1>2, <4>2, <4>3
    <3> QED BY <1>2, <2>1, <3>1, <3>2
  <2> QED BY <2>1 DEF EndsRecords
<1>5. safe \in 0 .. Len(t)
  BY <1>2 DEF LogIs
<1>6. \A i \in safe + 1 .. Len(t) : t[i] \notin S
  <2>1. safe \in 0 .. n /\ \A i \in safe + 1 .. n : tokens[i] \notin S
    BY DEF LogIs
  <2>2. \A i \in safe + 1 .. n + 1 : i = n + 1 \/ (i \in safe + 1 .. n /\ i \in 1 .. n)
    BY <1>2, <2>1
  <2> QED BY <1>2, <2>1, <2>2
<1>7. done \in Seq(RecordsTo(a))
  BY DEF LogIs
<1> QED BY <1>2, <1>3, <1>4, <1>5, <1>6, <1>7 DEF LogIs, t, X

\* All of the file is on the disk.
LEMMA LogSafe ==
    ASSUME NEW a \in Nat, NEW tokens, NEW safe, NEW done, LogIs(tokens, safe, done, a)
    PROVE  LogIs(tokens, Len(tokens), done, a)
<1>1. Len(tokens) \in Nat
  BY LenProperties DEF LogIs
<1>2. Len(tokens) \in 0 .. Len(tokens) /\ Len(tokens) + 1 .. Len(tokens) = {}
  BY <1>1
<1> QED BY <1>2 DEF LogIs

\* The end of the file is lost, behind what is on the disk.
LEMMA LogCut ==
    ASSUME NEW a \in Nat, NEW tokens, NEW safe, NEW done, LogIs(tokens, safe, done, a),
           NEW kept \in safe .. Len(tokens)
    PROVE  /\ LogIs(SubSeq(tokens, 1, kept), kept, done, a)
           /\ Len(SubSeq(tokens, 1, kept)) = kept
<1> DEFINE X == TokensTo(a)
           n == Len(tokens)
           t == SubSeq(tokens, 1, kept)
           u == SubSeq(tokens, kept + 1, n)
           S == ToSet(done)
<1>1. tokens \in Seq(X) /\ n \in Nat /\ safe \in 0 .. n
  BY LenProperties DEF LogIs
<1> HIDE DEF X
<1>2. kept \in 0 .. n
  BY <1>1
<1>3. t \in Seq(X) /\ Len(t) = kept /\ \A i \in 1 .. kept : t[i] = tokens[i]
  BY <1>1, <1>2
<1>4. u \in Seq(X) /\ Len(u) = n - kept /\ \A i \in 1 .. n - kept : u[i] = tokens[kept + i]
  BY <1>1, <1>2
<1> HIDE DEF t, u
<1>5. t \o u = tokens
  <2> DEFINE c == t \o u
  <2>1. c \in Seq(X) /\ Len(c) = kept + (n - kept)
        /\ \A i \in 1 .. kept + (n - kept) : c[i] = IF i <= kept THEN t[i] ELSE u[i - kept]
    <3>1. c \in Seq(X) /\ Len(c) = Len(t) + Len(u)
          /\ \A i \in 1 .. Len(t) + Len(u) : c[i] = IF i <= Len(t) THEN t[i] ELSE u[i - Len(t)]
      <4>1. t \in Seq(X) /\ u \in Seq(X)
        BY <1>3, <1>4
      <4> QED BY <4>1, ConcatProperties
    <3>2. Len(t) = kept /\ Len(u) = n - kept
      BY <1>3, <1>4
    <3> HIDE DEF c, n
    <3> QED BY <3>1, <3>2
  <2>2. Len(c) = n
    BY <1>1, <1>2, <2>1
  <2> HIDE DEF c
  <2>3. ASSUME NEW i \in 1 .. n
        PROVE  c[i] = tokens[i]
    <3>1. CASE i <= kept
      BY <1>1, <1>2, <1>3, <2>1, <3>1
    <3>2. CASE ~(i <= kept)
      <4>1. i - kept \in 1 .. n - kept /\ kept + (i - kept) = i /\ i \in 1 .. kept + (n - kept)
        BY <1>1, <1>2, <3>2
      <4>2. c[i] = u[i - kept]
        BY <2>1, <3>2, <4>1
      <4>3. u[i - kept] = tokens[kept + (i - kept)]
        BY <1>4, <4>1
      <4> QED BY <4>1, <4>2, <4>3
    <3> QED BY <3>1, <3>2
  <2>4. c = tokens
    BY <1>1, <2>1, <2>2, <2>3, SeqEqual
  <2> QED BY <2>4 DEF c
<1>6. OnlyIn(u, S) = <<>>
  <2>1. \A i \in safe + 1 .. n : tokens[i] \notin S
    BY DEF LogIs
  <2>2. \A i \in 1 .. n - kept : kept + i \in safe + 1 .. n
    BY <1>1, <1>2
  <2>3. \A i \in 1 .. Len(u) : u[i] \notin S
    BY <1>4, <2>1, <2>2
  <2> HIDE DEF S
  <2> QED BY <1>4, <2>3, KeptNone
<1>7. OnlyIn(t, S) = done
  <2>1. OnlyIn(t \o u, S) = OnlyIn(t, S) \o OnlyIn(u, S)
    BY <1>3, <1>4, KeptJoined
  <2>2. OnlyIn(t, S) \in Seq(X)
    BY <1>3, KeptIs
  <2>3. OnlyIn(t, S) \o <<>> = OnlyIn(t, S)
    BY <2>2, ConcatEmptySeq
  <2>4. OnlyIn(tokens, S) = done
    BY DEF LogIs
  <2> QED BY <1>5, <1>6, <2>1, <2>3, <2>4
<1>8. EndsRecords(t)
  <2>1. ASSUME NEW i \in 1 .. kept, t[i] = EndOfLine
        PROVE  i > 1 /\ t[i - 1].kind = "record"
    <3>1. i \in 1 .. n
      BY <1>1, <1>2
    <3>2. i > 1 /\ tokens[i - 1].kind = "record"
      BY <1>3, <2>1, <3>1 DEF LogIs, EndsRecords
    <3>3. i - 1 \in 1 .. kept
      BY <1>2, <3>2
    <3> QED BY <1>3, <3>2, <3>3
  <2> QED BY <1>3, <2>1 DEF EndsRecords
<1>9. kept \in 0 .. Len(t) /\ kept + 1 .. Len(t) = {}
  BY <1>2, <1>3
<1>10. done \in Seq(RecordsTo(a))
  BY DEF LogIs
<1> QED BY <1>3, <1>7, <1>8, <1>9, <1>10 DEF LogIs, t, X

\* The line of a record is written behind the file.
LEMMA LineAppended ==
    ASSUME NEW a \in Nat, NEW tokens, NEW safe, NEW done, LogIs(tokens, safe, done, a),
           NEW w \in RecordsTo(a + 1), w.id = a + 1
    PROVE  /\ LogIs(Append(tokens, w), safe, done, a + 1)
           /\ LogIs(Append(Append(tokens, w), EndOfLine), safe, done, a + 1)
           /\ w \notin ToSet(done)
<1> DEFINE b == a + 1
           t == Append(tokens, w)
           f == Append(t, EndOfLine)
           n == Len(tokens)
<1>1. b \in Nat /\ LogIs(tokens, safe, done, b)
  BY LogWider
<1>2. \A r \in ToSet(done) : r.kind = "record" /\ r.id \in 1 .. a
  <2>1. done \in Seq(RecordsTo(a))
    BY DEF LogIs
  <2> QED BY <2>1, DoneAre
<1>3. w \notin ToSet(done) /\ EndOfLine \notin ToSet(done)
  <2>1. a + 1 \notin 1 .. a
    OBVIOUS
  <2> QED BY <1>2, <2>1 DEF EndOfLine
<1>4. w \in TokensTo(b) /\ EndOfLine \in TokensTo(b) /\ w.kind = "record" /\ w # EndOfLine
  BY DEF TokensTo, RecordsTo, EndOfLine
<1>5. tokens \in Seq(TokensTo(b))
  BY <1>1 DEF LogIs
<1> HIDE DEF b
<1>6. LogIs(t, safe, done, b)
  BY <1>1, <1>3, <1>4, TokenAppended
<1>7. Len(t) > 0 /\ t[Len(t)].kind = "record"
  <2> DEFINE X == TokensTo(b)
  <2>1. tokens \in Seq(X) /\ w \in X
    BY <1>4, <1>5
  <2> HIDE DEF X
  <2>2. Len(t) = n + 1 /\ n \in Nat /\ t[n + 1] = w
    BY <2>1
  <2> HIDE DEF t, n
  <2> QED BY <1>4, <2>2
<1> HIDE DEF t
<1>8. LogIs(f, safe, done, b)
  BY <1>1, <1>3, <1>4, <1>6, <1>7, TokenAppended
<1> QED BY <1>3, <1>6, <1>8 DEF b, t

\* The file ends with the line of the record of the last append, which is not
\* acknowledged and is nowhere else in it.
PendingOf(tokens, done, a, b, w) ==
    /\ b \in Nat /\ a = b + 1 /\ w \in RecordsTo(a) /\ w.id = a
    /\ done \in Seq(RecordsTo(b))
    /\ \E before \in Seq(TokensTo(b)) : tokens = Append(Append(before, w), EndOfLine)

\* The append returns.
LEMMA LineAcknowledged ==
    ASSUME NEW a \in Nat, NEW tokens, NEW safe, NEW done, LogIs(tokens, safe, done, a),
           NEW b, NEW w, PendingOf(tokens, done, a, b, w)
    PROVE  LogIs(tokens, Len(tokens), Append(done, w), a) /\ tokens[Len(tokens) - 1] = w
<1> DEFINE X == TokensTo(a)
           S == ToSet(done)
           more == Append(done, w)
           R == ToSet(more)
<1>1. b \in Nat /\ a = b + 1 /\ w \in RecordsTo(a) /\ w.id = a /\ done \in Seq(RecordsTo(b))
  BY DEF PendingOf
<1>2. PICK before \in Seq(TokensTo(b)) : tokens = Append(Append(before, w), EndOfLine)
  BY DEF PendingOf
<1> DEFINE n == Len(before)
           t == Append(before, w)
<1>3. RecordsTo(b) \subseteq RecordsTo(a) /\ TokensTo(b) \subseteq X /\ w \in X /\ EndOfLine \in X
  <2>1. 1 .. b \subseteq 1 .. a
    BY <1>1
  <2> QED BY <1>1, <2>1 DEF RecordsTo, TokensTo
<1>4. \A e \in TokensTo(b) : e # w
  <2>1. a \notin 1 .. b
    BY <1>1
  <2>2. \A e \in RecordsTo(b) : e.id \in 1 .. b
    BY DEF RecordsTo
  <2>3. w.kind = "record"
    BY <1>1 DEF RecordsTo
  <2> QED BY <1>1, <2>1, <2>2, <2>3 DEF TokensTo, Fragment, EndOfLine
<1>5. before \in Seq(X) /\ n \in Nat /\ \A i \in 1 .. n : before[i] # w
  <2> DEFINE Y == TokensTo(b)
  <2>1. before \in Seq(Y) /\ Y \subseteq X /\ \A e \in Y : e # w
    BY <1>3, <1>4
  <2> HIDE DEF X, Y
  <2> QED BY <2>1, LenProperties, ElementOfSeq
<1>6. more \in Seq(RecordsTo(a)) /\ R = S \cup {w}
  <2> DEFINE Y == RecordsTo(a)
             Z == RecordsTo(b)
  <2>1. done \in Seq(Z) /\ Z \subseteq Y /\ w \in Y
    BY <1>1, <1>3
  <2> HIDE DEF Y, Z
  <2>2. done \in Seq(Y) /\ more \in Seq(Y) /\ Len(more) = Len(done) + 1 /\ Len(done) \in Nat
        /\ more[Len(done) + 1] = w /\ \A i \in 1 .. Len(done) : more[i] = done[i]
    BY <2>1
  <2>3. DOMAIN done = 1 .. Len(done) /\ DOMAIN more = 1 .. Len(done) + 1
    BY <2>2, LenProperties
  <2>4. \A i \in 1 .. Len(done) + 1 : i = Len(done) + 1 \/ i \in 1 .. Len(done)
    BY <2>2
  <2>5. \A i \in 1 .. Len(done) : i \in 1 .. Len(done) + 1
    BY <2>2
  <2>6. Len(done) + 1 \in 1 .. Len(done) + 1
    BY <2>2
  <2> HIDE DEF more
  <2>7. S = {done[i] : i \in 1 .. Len(done)} /\ R = {more[i] : i \in 1 .. Len(done) + 1}
    BY <2>3 DEF ToSet
  <2>8. R = S \cup {w}
    BY <2>2, <2>4, <2>5, <2>6, <2>7
  <2> QED BY <2>2, <2>8 DEF Y
<1>7. w \notin S /\ EndOfLine \notin S /\ EndOfLine # w
  <2>1. \A r \in S : r.kind = "record" /\ r.id \in 1 .. b
    BY <1>1, DoneAre
  <2>2. a \notin 1 .. b
    BY <1>1
  <2>3. w.kind = "record"
    BY <1>1 DEF RecordsTo
  <2> QED BY <1>1, <2>1, <2>2, <2>3 DEF EndOfLine
<1> HIDE DEF X, S, R, more
<1>8. t \in Seq(X) /\ Len(t) = n + 1 /\ t[n + 1] = w
  BY <1>3, <1>5
<1>9. tokens \in Seq(X) /\ Len(tokens) = n + 2 /\ tokens[n + 1] = w
  <2>1. tokens = Append(t, EndOfLine)
    BY <1>2
  <2> HIDE DEF t, n
  <2>2. n + 1 \in 1 .. n + 1
    BY <1>5
  <2> QED BY <1>3, <1>5, <1>8, <2>1, <2>2
<1>10. OnlyIn(tokens, R) = OnlyIn(before, R) \o <<w>> /\ OnlyIn(tokens, S) = OnlyIn(before, S)
  <2>1. OnlyIn(t, R) = OnlyIn(before, R) \o KeptOf(w, R) /\ OnlyIn(t, S) = OnlyIn(before, S) \o KeptOf(w, S)
    BY <1>3, <1>5, KeptAppended
  <2>2. OnlyIn(Append(t, EndOfLine), R) = OnlyIn(t, R) \o KeptOf(EndOfLine, R)
        /\ OnlyIn(Append(t, EndOfLine), S) = OnlyIn(t, S) \o KeptOf(EndOfLine, S)
    <3> HIDE DEF t
    <3> QED BY <1>3, <1>8, KeptAppended
  <2>3. KeptOf(w, R) = <<w>> /\ KeptOf(w, S) = <<>> /\ KeptOf(EndOfLine, R) = <<>> /\ KeptOf(EndOfLine, S) = <<>>
    BY <1>6, <1>7 DEF KeptOf
  <2>4. OnlyIn(t, R) \in Seq(X) /\ OnlyIn(t, S) \in Seq(X) /\ OnlyIn(before, S) \in Seq(X)
    <3> HIDE DEF t
    <3> QED BY <1>5, <1>8, KeptIs
  <2> HIDE DEF t
  <2>5. OnlyIn(t, R) \o <<>> = OnlyIn(t, R) /\ OnlyIn(t, S) \o <<>> = OnlyIn(t, S)
        /\ OnlyIn(before, S) \o <<>> = OnlyIn(before, S)
    BY <2>4, ConcatEmptySeq
  <2>6. tokens = Append(t, EndOfLine)
    BY <1>2 DEF t
  <2> QED BY <2>1, <2>2, <2>3, <2>5, <2>6
<1>11. OnlyIn(before, R) = OnlyIn(before, S)
  <2>1. \A i \in 1 .. n : before[i] \in R <=> before[i] \in S
    BY <1>5, <1>6
  <2> QED BY <1>5, <2>1, KeptSame
<1>12. OnlyIn(tokens, R) = more
  <2>1. OnlyIn(tokens, S) = done
    BY DEF LogIs, S
  <2>2. done \o <<w>> = more
    <3>1. done \in Seq(RecordsTo(b))
      BY <1>1
    <3> QED BY <3>1, AppendIsConcat DEF more
  <2> QED BY <1>10, <1>11, <2>1, <2>2
<1>13. EndsRecords(tokens)
  BY DEF LogIs
<1>14. Len(tokens) \in 0 .. Len(tokens) /\ Len(tokens) + 1 .. Len(tokens) = {} /\ Len(tokens) - 1 = n + 1
  BY <1>5, <1>9
<1> QED BY <1>6, <1>9, <1>12, <1>13, <1>14 DEF LogIs, R, more, X

\* What is decoded of a file is records, and the highest number of them is theirs.
LEMMA ReadIsRecords ==
    ASSUME NEW a \in Nat, NEW tokens \in Seq(TokensTo(a))
    PROVE  HighestSeq(ReadLog(tokens)) \in 0 .. a
<1> DEFINE X == TokensTo(a)
           R == RecordsTo(a)
           lines == Lines(tokens)
           k == DecodedLists(lines)
           read == ReadLog(tokens)
<1>1. lines \in Seq(Seq(X))
  <2>1. PICK run : LinesOf(run, tokens, X) /\ Lines(tokens) = run[Len(tokens)]
    BY LinesAreRun
  <2>2. Len(tokens) \in 0 .. Len(tokens)
    BY LenProperties
  <2>3. run \in [0 .. Len(tokens) -> SomeLines(X)]
    BY <2>1 DEF LinesOf
  <2>4. run[Len(tokens)] \in SomeLines(X)
    BY <2>2, <2>3
  <2> QED BY <2>1, <2>4 DEF SomeLines
<1> HIDE DEF lines
<1>2. /\ read = FlattenSeq(k) /\ k \in Seq(Seq(X)) /\ Len(k) = Len(lines)
      /\ \A j \in 1 .. Len(lines) : k[j] = DecodedOf(lines[j])
  <2> HIDE DEF X
  <2> QED BY <1>1, DecodedIs DEF ReadLog, lines
<1>3. \A j \in 1 .. Len(lines) : lines[j] \in Seq(X)
  BY <1>1, ElementOfSeq
<1>4. \A line \in Seq(X) : DecodedOf(line) \in Seq(R)
  <2>1. ASSUME NEW line \in Seq(X), Decodes(line)
        PROVE  line \in Seq(R)
    <3>1. Len(line) = 1 /\ line[1].kind = "record"
      BY <2>1 DEF Decodes
    <3>2. 1 \in 1 .. Len(line)
      BY <3>1
    <3>3. line[1] \in X
      BY <3>2, ElementOfSeq
    <3>4. line[1] \in R
      BY <3>1, <3>3, KindsOfTokens
    <3> HIDE DEF X, R
    <3>5. line = <<line[1]>>
      BY <3>1
    <3>6. <<line[1]>> \in Seq(R)
      BY <3>4
    <3> QED BY <3>5, <3>6
  <2>2. <<>> \in Seq(R)
    BY EmptySeq
  <2> HIDE DEF X, R
  <2> QED BY <2>1, <2>2 DEF DecodedOf
<1> HIDE DEF k, read, X, R
<1>5. k \in Seq(Seq(R))
  <2> DEFINE Y == Seq(R)
             Z == Seq(X)
  <2>1. k \in Seq(Z) /\ \A j \in 1 .. Len(k) : k[j] \in Y
    BY <1>2, <1>3, <1>4
  <2> HIDE DEF Y, Z
  <2>2. k \in Seq(Y)
    BY <2>1
  <2> QED BY <2>2 DEF Y
<1>6. read \in Seq(R)
  BY <1>2, <1>5, FlattenRun
<1>7. \A r \in ToSet(read) : r.seq \in 1 .. a
  <2>1. ToSet(read) \subseteq R
    <3>1. DOMAIN read = 1 .. Len(read) /\ \A j \in 1 .. Len(read) : read[j] \in R
      BY <1>6, LenProperties, ElementOfSeq
    <3> QED BY <3>1 DEF ToSet
  <2> QED BY <2>1 DEF R, RecordsTo
<1> DEFINE N == {0} \cup {r.seq : r \in ToSet(read)}
<1>8. N \in SUBSET Nat /\ N # {} /\ \A i \in N : i <= a /\ i \in 0 .. a
  BY <1>7
<1>9. \E i \in N : \A j \in N : j <= i
  <2> HIDE DEF N
  <2> QED BY <1>8, GreatestNumber
<1>10. \E i \in N : \A r \in ToSet(read) : r.seq <= i
  <2>1. \A r \in ToSet(read) : r.seq \in N
    OBVIOUS
  <2> HIDE DEF N
  <2> QED BY <1>9, <2>1
<1>11. HighestSeq(read) = CHOOSE i \in N : \A r \in ToSet(read) : r.seq <= i
  BY DEF HighestSeq
<1> HIDE DEF N
<1>12. HighestSeq(read) \in N
  BY <1>10, <1>11
<1> QED BY <1>8, <1>12 DEF read

-----------------------------------------------------------------------------
(* The invariant. *)

LogHolds == LogIs(file, synced, acked, appends)
PendingHolds == logState = "sync" => \E b, w : PendingOf(file, acked, appends, b, w)
NumbersHold == appends \in Nat /\ requestSeq \in 0 .. appends

LogInv == LogHolds /\ PendingHolds /\ NumbersHold

LEMMA LogStarts == LogInit => LogInv
<1> SUFFICES ASSUME LogInit
             PROVE  LogInv
  OBVIOUS
<1> DEFINE none == <<>>
<1>1. none \in Seq(TokensTo(0)) /\ none \in Seq(RecordsTo(0)) /\ Len(none) = 0
      /\ \A j \in 1 .. Len(none) : none[j] \notin ToSet(none)
  OBVIOUS
<1> HIDE DEF none
<1>2. OnlyIn(none, ToSet(none)) = none
  <2>1. OnlyIn(none, ToSet(none)) = <<>>
    BY <1>1, KeptNone
  <2> QED BY <2>1 DEF none
<1>3. LogIs(none, 0, none, 0)
  <2>1. 1 .. Len(none) = {} /\ 0 + 1 .. Len(none) = {} /\ 0 \in 0 .. Len(none)
    BY <1>1
  <2>2. EndsRecords(none)
    BY <2>1 DEF EndsRecords
  <2> QED BY <1>1, <1>2, <2>1, <2>2 DEF LogIs
<1>4. file = none /\ synced = 0 /\ acked = none /\ appends = 0 /\ requestSeq = 0 /\ logState = "down"
  BY DEF LogInit, none
<1> QED BY <1>3, <1>4 DEF LogInv, LogHolds, PendingHolds, NumbersHold

LEMMA LogKeeps == LogInv /\ [LogNext]_logVars => LogInv'
<1> SUFFICES ASSUME LogInv, [LogNext]_logVars
             PROVE  LogInv'
  OBVIOUS
<1> USE DEF logVars, logDisk, ledgerState
<1>1. LogIs(file, synced, acked, appends) /\ appends \in Nat /\ requestSeq \in 0 .. appends
      /\ (logState = "sync" => \E b, w : PendingOf(file, acked, appends, b, w))
  BY DEF LogInv, LogHolds, PendingHolds, NumbersHold
<1> DEFINE w == NewRecord
           a == appends + 1
<1>2. ASSUME BeginAppend
      PROVE  /\ appends' = a /\ a \in Nat /\ requestSeq \in 0 .. a
             /\ w \in RecordsTo(a) /\ w.id = a
             /\ LogIs(Append(file, w), synced, acked, a)
             /\ LogIs(Append(Append(file, w), EndOfLine), synced, acked, a)
             /\ LogIs(Append(file, Fragment), synced, acked, a)
  <2>1. appends' = a /\ a \in Nat /\ requestSeq \in 0 .. a
    BY <1>1, <1>2 DEF BeginAppend
  <2>2. w \in RecordsTo(a) /\ w.id = a
    <3>1. requestSeq + 1 \in 1 .. a /\ a \in 1 .. a
      BY <1>1
    <3> QED BY <3>1 DEF RecordsTo, NewRecord, Record
  <2>3. LogIs(Append(file, w), synced, acked, a) /\ LogIs(Append(Append(file, w), EndOfLine), synced, acked, a)
    <3> HIDE DEF w
    <3> QED BY <1>1, <2>2, LineAppended
  <2>4. LogIs(Append(file, Fragment), synced, acked, a)
    <3>1. LogIs(file, synced, acked, a)
      BY <1>1, LogWider
    <3>2. \A r \in ToSet(acked) : r.kind = "record"
      <4>1. acked \in Seq(RecordsTo(appends))
        BY <1>1 DEF LogIs
      <4> QED BY <1>1, <4>1, DoneAre
    <3>3. Fragment \notin ToSet(acked) /\ Fragment # EndOfLine /\ Fragment \in TokensTo(a)
      BY <3>2 DEF Fragment, EndOfLine, TokensTo
    <3> HIDE DEF a
    <3> QED BY <2>1, <3>1, <3>3, TokenAppended
  <2> QED BY <2>1, <2>2, <2>3, <2>4
<1>3. CASE Resume
  <2>1. file' = file /\ synced' = synced /\ acked' = acked /\ appends' = appends /\ logState' = "up"
        /\ requestSeq' = HighestSeq(ReadLog(file))
    BY <1>3 DEF Resume
  <2>2. HighestSeq(ReadLog(file)) \in 0 .. appends
    <3>1. file \in Seq(TokensTo(appends))
      BY <1>1 DEF LogIs
    <3> QED BY <1>1, <3>1, ReadIsRecords
  <2> QED BY <1>1, <2>1, <2>2 DEF LogInv, LogHolds, PendingHolds, NumbersHold
<1>4. CASE Refuse
  BY <1>1, <1>4 DEF Refuse, LogInv, LogHolds, PendingHolds, NumbersHold
<1>5. CASE Write
  <2>1. BeginAppend /\ file' = file \o <<w, EndOfLine>> /\ logState' = "sync" /\ synced' = synced
        /\ requestSeq' = requestSeq /\ acked' = acked
    BY <1>5 DEF Write
  <2>2. /\ appends' = a /\ a \in Nat /\ requestSeq \in 0 .. a
        /\ w \in RecordsTo(a) /\ w.id = a
        /\ LogIs(Append(Append(file, w), EndOfLine), synced, acked, a)
    BY <1>2, <2>1
  <2>3. file \in Seq(TokensTo(appends)) /\ acked \in Seq(RecordsTo(appends))
    BY <1>1 DEF LogIs
  <2>4. file \o <<w, EndOfLine>> = Append(Append(file, w), EndOfLine)
    <3> HIDE DEF w
    <3> QED BY <2>3
  <2>5. PendingOf(Append(Append(file, w), EndOfLine), acked, a, appends, w)
    <3> HIDE DEF w
    <3> QED BY <1>1, <2>2, <2>3 DEF PendingOf
  <2> HIDE DEF w, a
  <2>6. PendingOf(file', acked', appends', appends, w)
    BY <2>1, <2>2, <2>4, <2>5
  <2>7. LogIs(file', synced', acked', appends') /\ appends' \in Nat /\ requestSeq' \in 0 .. appends'
    BY <2>1, <2>2, <2>4
  <2> QED BY <2>6, <2>7 DEF LogInv, LogHolds, PendingHolds, NumbersHold
<1>6. CASE ShortWrite
  <2>1. BeginAppend /\ synced' = synced /\ logState' = logState
        /\ requestSeq' = requestSeq /\ acked' = acked
    BY <1>6 DEF ShortWrite
  <2>2. logState' # "sync"
    BY <2>1 DEF BeginAppend
  <2>3. PICK part \in {Fragment, w} : file' = Append(file, part)
    BY <1>6 DEF ShortWrite
  <2> HIDE DEF w, a
  <2>4. LogIs(file', synced', acked', appends') /\ appends' \in Nat /\ requestSeq' \in 0 .. appends'
    BY <1>2, <2>1, <2>3
  <2> QED BY <2>2, <2>4 DEF LogInv, LogHolds, PendingHolds, NumbersHold
<1>7. CASE Sync
  <2>1. logState = "sync" /\ logState' = "up" /\ synced' = Len(file) /\ file' = file /\ appends' = appends
        /\ requestSeq' = Written.seq /\ acked' = Append(acked, Written)
    BY <1>7 DEF Sync
  <2>2. PICK b, v : PendingOf(file, acked, appends, b, v)
    BY <1>1, <2>1
  <2>3. LogIs(file, Len(file), Append(acked, v), appends) /\ file[Len(file) - 1] = v
    BY <1>1, <2>2, LineAcknowledged
  <2>4. Written = v
    BY <2>3 DEF Written
  <2>5. v.seq \in 0 .. appends
    BY <1>1, <2>2 DEF PendingOf, RecordsTo
  <2>6. LogIs(file', synced', acked', appends')
    BY <2>1, <2>3, <2>4
  <2> QED BY <1>1, <2>1, <2>4, <2>5, <2>6 DEF LogInv, LogHolds, PendingHolds, NumbersHold
<1>8. CASE SyncFails
  BY <1>1, <1>8 DEF SyncFails, LogInv, LogHolds, PendingHolds, NumbersHold
<1>9. CASE Die
  BY <1>1, <1>9 DEF Die, Down, LogInv, LogHolds, PendingHolds, NumbersHold
<1>10. CASE LosePower
  <2>1. logState' = "down" /\ requestSeq' = 0 /\ synced' = Len(file') /\ acked' = acked /\ appends' = appends
    BY <1>10 DEF LosePower, Down
  <2>2. PICK kept \in synced .. Len(file) - 1, torn \in BOOLEAN :
            file' = SubSeq(file, 1, kept) \o (IF torn THEN <<Fragment>> ELSE <<>>)
    BY <1>10 DEF LosePower
  <2> DEFINE t == SubSeq(file, 1, kept)
  <2>3. kept \in synced .. Len(file)
    <3>1. Len(file) \in Nat /\ synced \in Nat
      <4>1. Len(file) \in Nat
        BY <1>1, LenProperties DEF LogIs
      <4> QED BY <1>1, <4>1 DEF LogIs
    <3> QED BY <2>2, <3>1
  <2>4. LogIs(t, kept, acked, appends)
    BY <1>1, <2>3, LogCut
  <2>5. t \in Seq(TokensTo(appends))
    BY <2>4 DEF LogIs
  <2> HIDE DEF t
  <2>6. \E s : LogIs(file', s, acked, appends)
    <3>1. CASE torn
      <4>1. file' = Append(t, Fragment)
        BY <2>2, <2>5, <3>1 DEF t
      <4>2. \A r \in ToSet(acked) : r.kind = "record"
        <5>1. acked \in Seq(RecordsTo(appends))
          BY <1>1 DEF LogIs
        <5> QED BY <1>1, <5>1, DoneAre
      <4>3. Fragment \notin ToSet(acked) /\ Fragment # EndOfLine /\ Fragment \in TokensTo(appends)
        BY <4>2 DEF Fragment, EndOfLine, TokensTo
      <4>4. LogIs(Append(t, Fragment), kept, acked, appends)
        BY <1>1, <2>4, <4>3, TokenAppended
      <4> QED BY <4>1, <4>4
    <3>2. CASE ~torn
      <4>1. file' = t \o <<>>
        BY <2>2, <3>2 DEF t
      <4>2. t \o <<>> = t
        BY <2>5, ConcatEmptySeq
      <4> QED BY <2>4, <4>1, <4>2
    <3> QED BY <3>1, <3>2
  <2>7. LogIs(file', Len(file'), acked, appends)
    BY <1>1, <2>6, LogSafe
  <2> QED BY <1>1, <2>1, <2>7 DEF LogInv, LogHolds, PendingHolds, NumbersHold
<1>11. CASE AtBound \/ UNCHANGED logVars
  BY <1>1, <1>11 DEF AtBound, LogInv, LogHolds, PendingHolds, NumbersHold
<1> QED BY <1>3, <1>4, <1>5, <1>6, <1>7, <1>8, <1>9, <1>10, <1>11 DEF LogNext

\* An append that returned is read back by every later resume, in its place, whatever
\* died, failed or lost power since, as long as no append landed behind a torn one.
THEOREM AckedAlwaysReadBack == LogSpec => []AckedReadBack
<1>1. LogInv => AckedReadBack
  <2> SUFFICES ASSUME LogInv, Separate
               PROVE  Readable(file) /\ Subsequence(acked, ReadLog(file))
    BY DEF AckedReadBack
  <2> DEFINE X == TokensTo(appends)
             S == ToSet(acked)
  <2>1. /\ file \in Seq(X) /\ EndsRecords(file) /\ OnlyIn(file, S) = acked
        /\ acked \in Seq(RecordsTo(appends)) /\ appends \in Nat
    BY DEF LogInv, LogHolds, NumbersHold, LogIs
  <2>2. \A r \in S : r.kind = "record"
    BY <2>1, DoneAre
  <2> HIDE DEF X, S
  <2>3. Lines(file) \in Seq(Seq(X))
    <3>1. PICK run : LinesOf(run, file, X) /\ Lines(file) = run[Len(file)]
      BY <2>1, LinesAreRun
    <3>2. Len(file) \in 0 .. Len(file)
      BY <2>1, LenProperties
    <3>3. run \in [0 .. Len(file) -> SomeLines(X)]
      BY <3>1 DEF LinesOf
    <3>4. run[Len(file)] \in SomeLines(X)
      BY <3>2, <3>3
    <3> QED BY <3>1, <3>4 DEF SomeLines
  <2>4. Short(Lines(file))
    <3>1. DOMAIN Lines(file) = 1 .. Len(Lines(file))
      BY <2>3, LenProperties
    <3> QED BY <3>1 DEF Separate, Short
  <2>5. Readable(file) /\ OnlyIn(ReadLog(file), S) = OnlyIn(file, S)
    BY <2>1, <2>2, <2>4, SeparateRead
  <2> QED BY <2>1, <2>5 DEF Subsequence, S
<1> QED BY <1>1, LogStarts, LogKeeps, PTL DEF LogSpec

=============================================================================
