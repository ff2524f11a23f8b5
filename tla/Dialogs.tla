------------------------------ MODULE Dialogs -------------------------------
(***************************************************************************)
(* The one dialog of the terminal and who wants it: requests that a        *)
(* goroutine waits for (a permission, a question), lists and notes that    *)
(* commands bring back, the sign-in offer, and the live list of MCP        *)
(* servers that a timer refreshes (tui/modals.go, mcp.go, update.go).      *)
(*                                                                         *)
(* What a dialog says is told apart only by whose rows it shows.           *)
(***************************************************************************)
EXTENDS Naturals, Sequences, SequencesExt

CONSTANTS
    MaxRequests,   \* bound on requests
    MaxCommands,   \* bound on commands the user starts
    MaxLists       \* bound on server lists under way

ASSUME DialogsAssumption == MaxRequests \in Nat /\ MaxCommands \in Nat /\ MaxLists \in Nat

VARIABLES
    modal,       \* Model.modal: kind, request, and whose rows it shows
    queue,       \* Model.modalQueue: requests
    waiting,     \* requests a goroutine still waits for
    requests,    \* requests made
    commands,    \* commands started
    lists,       \* mcp-list results under way
    results,     \* results of other commands under way
    atRest,      \* Model.mcpModalAtRest
    refreshIn,   \* Model.mcpRefreshIn
    refreshTicks,    \* mcpRefreshTick timers armed
    onboarding,  \* Model.onboardingPending
    signedIn     \* a key is stored

dialogVars == <<modal, queue, waiting, requests, commands, lists, results, atRest, refreshIn,
                refreshTicks, onboarding, signedIn>>

NoModal == [kind |-> "none", request |-> 0, rows |-> "none"]
ReplyModal(r) == [kind |-> "reply", request |-> r, rows |-> "own"]
ListModal == [kind |-> "list", request |-> 0, rows |-> "servers"]
OtherModal(kind) == [kind |-> kind, request |-> 0, rows |-> "own"]

-----------------------------------------------------------------------------

DialogsInit ==
    /\ modal = NoModal /\ queue = <<>> /\ waiting = {} /\ requests = 0 /\ commands = 0
    /\ lists = 0 /\ results = {} /\ atRest = FALSE /\ refreshIn = FALSE /\ refreshTicks = 0
    /\ onboarding = FALSE /\ signedIn \in BOOLEAN

\* enqueueModal, when a goroutine asks.
Ask ==
    /\ requests < MaxRequests /\ requests' = requests + 1
    /\ waiting' = waiting \union {requests + 1}
    /\ IF modal # NoModal THEN queue' = Append(queue, requests + 1) /\ UNCHANGED modal
       ELSE modal' = ReplyModal(requests + 1) /\ UNCHANGED queue
    /\ UNCHANGED <<commands, lists, results, atRest, refreshIn, refreshTicks, onboarding, signedIn>>

\* The task was stopped: its goroutine waits no longer, its dialog stays.
GiveUp(r) ==
    /\ waiting' = waiting \ {r}
    /\ UNCHANGED <<modal, queue, requests, commands, lists, results, atRest, refreshIn, refreshTicks,
                   onboarding, signedIn>>

OpenOver(new) == modal' = new

\* openChoice, openMulti, openText, openInfo: not over a dialog somebody waits for.
OpenDialog(new) == modal' = IF modal.kind = "reply" THEN modal ELSE new

\* openOnboarding: at once if nothing is open, else when everything is closed.
OpenOnboarding(now, left) ==
    IF signedIn THEN onboarding' = FALSE /\ modal' = now
    ELSE IF now # NoModal \/ left # <<>> THEN onboarding' = TRUE /\ modal' = now
    ELSE onboarding' = FALSE /\ modal' = OtherModal("onboarding")

\* closeModal: the next request, or the sign-in offer that was put off.  What the
\* choice then opens is refused over a request and replaces the offer.
CloseModal(opens) ==
    LET offers == queue = <<>> /\ onboarding /\ ~signedIn
    IN  /\ waiting' = waiting \ {modal.request}
        /\ atRest' = FALSE /\ refreshIn' = FALSE
        /\ modal' = IF queue # <<>> THEN ReplyModal(Head(queue))
                    ELSE IF opens # NoModal THEN opens
                    ELSE IF offers THEN OtherModal("onboarding") ELSE NoModal
        /\ queue' = IF queue = <<>> THEN queue ELSE Tail(queue)
        /\ onboarding' = (onboarding /\ queue # <<>>)

\* Esc, or Enter on a row that opens nothing here.
Dismiss ==
    /\ modal # NoModal /\ CloseModal(NoModal)
    /\ UNCHANGED <<requests, commands, lists, results, refreshTicks, signedIn>>

\* Enter on a server of the list: its menu.
PickServer ==
    /\ modal.kind = "list" /\ CloseModal(OtherModal("server"))
    /\ UNCHANGED <<requests, commands, lists, results, refreshTicks, signedIn>>

\* Enter on "Back", or on an action of the menu, which ends in the list as well.
BackToList ==
    /\ modal.kind = "server" /\ lists < MaxLists /\ CloseModal(NoModal)
    /\ lists' = lists + 1
    /\ UNCHANGED <<requests, commands, results, refreshTicks, signedIn>>

\* A command of the user; /mcp, or one whose result is a dialog or a sign-in.
Command(kind) ==
    /\ modal = NoModal /\ commands < MaxCommands /\ commands' = commands + 1
    /\ kind = "mcp" => lists < MaxLists
    /\ IF kind = "mcp" THEN lists' = lists + 1 /\ UNCHANGED results
       ELSE results' = results \union {kind} /\ UNCHANGED lists
    /\ UNCHANGED <<modal, queue, waiting, requests, atRest, refreshIn, refreshTicks, onboarding, signedIn>>

\* handleAction: a list of sessions or skills, or the account's usage.
ResultArrives ==
    /\ "choice" \in results /\ results' = results \ {"choice"}
    /\ OpenDialog(OtherModal("choice"))
    /\ UNCHANGED <<queue, waiting, requests, commands, lists, atRest, refreshIn, refreshTicks,
                   onboarding, signedIn>>

\* A sign-in that worked retires the offer; one that failed, or a sign-out, makes it.
SignInArrives ==
    /\ "login" \in results /\ results' = results \ {"login"}
    /\ \/ signedIn' = TRUE /\ onboarding' = FALSE /\ UNCHANGED modal
       \/ signedIn' = signedIn /\ OpenOnboarding(modal, queue)
    /\ UNCHANGED <<queue, waiting, requests, commands, lists, atRest, refreshIn, refreshTicks>>

SignOut ==
    /\ signedIn /\ modal = NoModal /\ queue = <<>> /\ commands < MaxCommands
    /\ commands' = commands + 1 /\ signedIn' = FALSE
    /\ onboarding' = FALSE /\ modal' = OtherModal("onboarding")
    /\ UNCHANGED <<queue, waiting, requests, lists, results, atRest, refreshIn, refreshTicks>>

-----------------------------------------------------------------------------
(* The live list of MCP servers.                                           *)

\* installMCPChoices under the title it is given: a dialog with that title has its
\* rows replaced, whatever it is; else the list is opened, or refused.  It polls on if
\* a server is still connecting, also when it was refused.
InstallMCPChoices(sameTitle, connecting) ==
    /\ IF sameTitle THEN modal' = [modal EXCEPT !.rows = "servers"] ELSE OpenDialog(ListModal)
    /\ atRest' = connecting

\* mcp-list: in place if the list is believed open, else opened.
ListArrives ==
    /\ lists > 0 /\ lists' = lists - 1
    /\ IF atRest
       THEN /\ refreshIn' = FALSE
            /\ IF modal = NoModal THEN UNCHANGED <<modal, atRest>>
               ELSE \E connecting \in BOOLEAN : InstallMCPChoices(TRUE, connecting)
       ELSE /\ \E connecting \in BOOLEAN : InstallMCPChoices(modal.kind = "list", connecting)
            /\ UNCHANGED refreshIn
    /\ UNCHANGED <<queue, waiting, requests, commands, results, refreshTicks, onboarding, signedIn>>

\* A list that failed to load.
ListFails ==
    /\ lists > 0 /\ lists' = lists - 1
    /\ UNCHANGED <<modal, queue, waiting, requests, commands, results, atRest, refreshIn, refreshTicks,
                   onboarding, signedIn>>

\* tickMsg arms one refresh.
Tick ==
    /\ atRest /\ ~refreshIn /\ refreshTicks = 0
    /\ refreshIn' = TRUE /\ refreshTicks' = refreshTicks + 1
    /\ UNCHANGED <<modal, queue, waiting, requests, commands, lists, results, atRest, onboarding, signedIn>>

\* mcpRefreshTickMsg: list again, or give the slot back.
RefreshTick ==
    /\ refreshTicks > 0 /\ refreshTicks' = refreshTicks - 1 /\ lists < MaxLists
    /\ IF modal = NoModal \/ ~atRest THEN refreshIn' = FALSE /\ UNCHANGED lists
       ELSE lists' = lists + 1 /\ UNCHANGED refreshIn
    /\ UNCHANGED <<modal, queue, waiting, requests, commands, results, atRest, onboarding, signedIn>>

DialogsNext ==
    \/ Ask \/ \E r \in waiting : GiveUp(r)
    \/ Dismiss \/ PickServer \/ BackToList
    \/ \E kind \in {"mcp", "choice", "login"} : Command(kind)
    \/ ResultArrives \/ SignInArrives \/ SignOut
    \/ ListArrives \/ ListFails \/ Tick \/ RefreshTick

DialogsSpec == DialogsInit /\ [][DialogsNext]_dialogVars

-----------------------------------------------------------------------------
(* Properties.                                                             *)

DialogsTypeOK ==
    /\ modal.kind \in {"none", "reply", "list", "server", "choice", "onboarding"}
    /\ modal.request \in 0..requests /\ waiting \subseteq 1..requests
    /\ lists \in Nat /\ refreshTicks \in 0..1

\* A goroutine that waits for the user is never wedged (modals.go:154-161): its request
\* is on the screen, or in the queue behind a dialog, whatever results arrive meanwhile.
AskedIsVisible ==
    \A r \in waiting : modal.request = r \/ (Contains(queue, r) /\ modal # NoModal)

\* The dialog of a request shows the request's own choices.
RepliesShowTheirChoices == modal.kind = "reply" => modal.rows = "own"
=============================================================================
