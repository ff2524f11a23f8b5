---------------------------- MODULE Permissions ----------------------------
(***************************************************************************)
(* The guard of the workspace: the way of one request for a path or a      *)
(* shell command through protected places, containment, trust and consent, *)
(* while the user changes the permission mode.                             *)
(*                                                                         *)
(* The mode stands in two places.  Shift+Tab writes the shared setting at  *)
(* once, which the footer shows and the next Shift+Tab reads; the guard's  *)
(* own copy is written by a command that runs on a goroutine of its own.   *)
(* A request reads the guard's copy two or three times.                    *)
(***************************************************************************)
EXTENDS Naturals, FiniteSets

CONSTANTS
    Durable,     \* TRUE: trust is kept by a store
    MaxToggles   \* bound: the user's changes of mode

ASSUME PermissionsAssumption == Durable \in BOOLEAN /\ MaxToggles \in Nat

VARIABLES
    setting,     \* settings.PermissionMode: what the footer names
    mode,        \* Guard.mode
    orders,      \* SetPermission commands not yet run: [n, mode]
    toggles,     \* changes of mode so far
    trusted,     \* the workspace stands in the trust store
    request      \* the request on its way, and what was consented to

guardVars == <<setting, mode, orders, toggles, trusted, request>>
modeVars == <<setting, mode, orders, toggles>>

-----------------------------------------------------------------------------

Modes == {"normal", "auto-accept"}
Mutating == {"edit", "write", "patch", "shell"}     \* Action.Mutates
Places == {"inside", "outside", "sensitive"}
Risks == {"plain", "publication", "enumeration", "destructive"}

\* yes: the user said yes to this very action.  auto: the guard was in auto-accept
\* at a step of this request.  outside: the user said yes to leaving the workspace.
NoRequest == [action |-> "none", place |-> "inside", risk |-> "plain", at |-> "none",
              yes |-> FALSE, auto |-> FALSE, outside |-> FALSE]

Blocked(risk, m) ==
    \/ risk = "destructive"
    \/ risk = "publication" /\ m = "auto-accept"     \* ClassifyShellAutoAccept
    \/ risk = "enumeration" /\ m = "normal"          \* ClassifyShell

PermissionsInit ==
    /\ setting \in Modes /\ mode = setting
    /\ orders = {} /\ toggles = 0
    /\ trusted \in IF Durable THEN BOOLEAN ELSE {FALSE}
    /\ request = NoRequest

\* ApprovePath, ApproveShell.
Request(action, place, risk) ==
    request' = [NoRequest EXCEPT !.action = action, !.place = place, !.risk = risk,
                    !.at = IF action = "shell" THEN "classify" ELSE "place"]

MoveTo(step) == request' = [request EXCEPT !.at = step, !.auto = @ \/ mode = "auto-accept"]

-----------------------------------------------------------------------------
(* The steps of the guard; between any two the mode may change.            *)

\* IsInside the sensitive roots, then inside the workspace.
Place ==
    /\ request.at = "place"
    /\ MoveTo(IF request.place = "sensitive" THEN "denied"
              ELSE IF request.place = "outside" THEN "ask outside"
              ELSE IF request.action \in Mutating THEN "trust" ELSE "granted")
    /\ UNCHANGED <<modeVars, trusted>>

\* The risk is judged by the mode of this moment.
Classify ==
    /\ request.at = "classify"
    /\ MoveTo(IF Blocked(request.risk, mode) \/ request.place = "sensitive" THEN "denied" ELSE "trust")
    /\ UNCHANGED <<modeVars, trusted>>

\* ensureTrusted.  Auto-accept trusts the workspace by itself.
EnsureTrusted ==
    /\ request.at = "trust"
    /\ \/ mode = "auto-accept" /\ trusted' = Durable /\ MoveTo("mode")
       \/ mode = "normal" /\ trusted /\ MoveTo("mode") /\ UNCHANGED trusted
       \/ mode = "normal" /\ ~trusted /\ MoveTo("ask trust") /\ UNCHANGED trusted
       \/ Durable /\ MoveTo("denied") /\ UNCHANGED trusted      \* the store fails
    /\ UNCHANGED modeVars

LastLookTrusting ==
    /\ request.at = "mode"
    /\ MoveTo(IF mode = "auto-accept" \/ trusted THEN "granted" ELSE "ask")
    /\ UNCHANGED <<modeVars, trusted>>

\* The mode decides whether the action itself is asked for.
LastLook ==
    /\ request.at = "mode"
    /\ MoveTo(IF mode = "auto-accept" THEN "granted" ELSE "ask")
    /\ UNCHANGED <<modeVars, trusted>>

\* The user answers; a cancelled task and a missing approver answer no.
Answer(yes) ==
    /\ request.at \in {"ask outside", "ask trust", "ask"}
    /\ IF ~yes THEN MoveTo("denied") /\ UNCHANGED trusted
       ELSE CASE request.at = "ask outside" ->
                   /\ request' = [request EXCEPT !.outside = TRUE,
                                     !.at = IF request.action \in Mutating THEN "trust" ELSE "granted"]
                   /\ UNCHANGED trusted
              [] request.at = "ask trust" ->
                   \/ trusted' = Durable /\ MoveTo("mode")
                   \/ Durable /\ MoveTo("denied") /\ UNCHANGED trusted
              [] OTHER ->
                   /\ request' = [request EXCEPT !.at = "granted", !.yes = TRUE]
                   /\ UNCHANGED trusted
    /\ UNCHANGED modeVars

NewRequest(action, place, risk) ==
    /\ request.at \in {"none", "granted", "denied"}
    /\ Request(action, place, risk)
    /\ UNCHANGED <<modeVars, trusted>>

GuardStep == Place \/ Classify \/ EnsureTrusted \/ LastLook \/ \E yes \in BOOLEAN : Answer(yes)

-----------------------------------------------------------------------------
(* The user.                                                               *)

Other(m) == IF m = "normal" THEN "auto-accept" ELSE "normal"

\* cyclePermission and setPermission; an open prompt takes the key for itself.
Toggle ==
    /\ request.at \notin {"ask outside", "ask trust", "ask"}
    /\ toggles < MaxToggles
    /\ toggles' = toggles + 1
    /\ setting' = Other(setting)
    /\ orders' = orders \cup {[n |-> toggles, mode |-> Other(setting)]}
    /\ UNCHANGED <<mode, trusted, request>>

\* One SetPermission command runs: any of those outstanding.
SetMode ==
    /\ \E order \in orders : mode' = order.mode /\ orders' = orders \ {order}
    /\ UNCHANGED <<setting, toggles, trusted, request>>

\* The guard by itself: one request after the other, of every kind.
PermissionsNext ==
    \/ \E action \in Mutating \cup {"read"}, place \in Places, risk \in Risks :
          NewRequest(action, place, risk)
    \/ GuardStep \/ Toggle \/ SetMode

-----------------------------------------------------------------------------
(* Properties.                                                             *)

PermissionsTypeOK ==
    /\ {setting, mode} \subseteq Modes
    /\ orders \subseteq [n : 0..MaxToggles, mode : Modes] /\ toggles \in 0..MaxToggles
    /\ trusted \in BOOLEAN /\ trusted => Durable
    /\ request.place \in Places /\ request.risk \in Risks
    /\ request.at \in {"none", "place", "classify", "ask outside", "trust", "ask trust", "mode", "ask",
                       "granted", "denied"}
=============================================================================
