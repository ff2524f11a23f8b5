------------------------------ MODULE OneReply ------------------------------
(***************************************************************************)
(* What a caller of the gateway client relies on: one request has one      *)
(* outcome, and a reply is the whole of one stream, never parts of two.    *)
(* Nothing is sent for a caller that has cancelled.                        *)
(*                                                                         *)
(* Source: the contract of contract.Provider.Chat as turnloop.go, advisor  *)
(* and compaction use it.                                                  *)
(***************************************************************************)
EXTENDS Naturals

CONSTANTS
    MaxAttempts,   \* streams a provider may begin for one request
    NoOutcome      \* the request is still open

VARIABLES
    open,        \* a request is in progress
    cancelled,   \* its caller has cancelled
    streams,     \* per attempt begun: the number of tokens it has carried
    outcome      \* what the request ended with

absVars == <<open, cancelled, streams, outcome>>

Attempts == 1 .. MaxAttempts
Streams == UNION {[1 .. n -> Nat] : n \in 0 .. MaxAttempts}
Latest == IF streams = <<>> THEN 0 ELSE CHOOSE n \in Attempts : DOMAIN streams = 1 .. n

Outcomes == [reply : {TRUE}, attempt : Attempts, tokens : Nat]
            \cup [reply : {FALSE}, attempt : {0}, tokens : {0}]

AbsInit ==
    /\ open = FALSE /\ cancelled = FALSE
    /\ streams = <<>> /\ outcome = NoOutcome

Ask ==
    /\ ~open
    /\ open' = TRUE /\ cancelled' = FALSE
    /\ streams' = <<>> /\ outcome' = NoOutcome

Cancel ==
    /\ open /\ cancelled' = TRUE
    /\ UNCHANGED <<open, streams, outcome>>

\* Another attempt begins; what earlier ones carried stays theirs.
Begin ==
    /\ open /\ ~cancelled /\ Latest < MaxAttempts
    /\ streams' = [n \in 1 .. Latest + 1 |-> IF n \in DOMAIN streams THEN streams[n] ELSE 0]
    /\ UNCHANGED <<open, cancelled, outcome>>

Carry ==
    /\ open /\ Latest # 0
    /\ streams' = [streams EXCEPT ![Latest] = @ + 1]
    /\ UNCHANGED <<open, cancelled, outcome>>

\* The request ends, with an error or with all that its latest stream carried.
Conclude ==
    /\ open /\ open' = FALSE
    /\ \/ outcome' = [reply |-> FALSE, attempt |-> 0, tokens |-> 0]
       \/ /\ Latest # 0
          /\ outcome' = [reply |-> TRUE, attempt |-> Latest, tokens |-> streams[Latest]]
    /\ UNCHANGED <<cancelled, streams>>

AbsNext == Ask \/ Cancel \/ Begin \/ Carry \/ Conclude

AbsSpec == AbsInit /\ [][AbsNext]_absVars

=============================================================================
