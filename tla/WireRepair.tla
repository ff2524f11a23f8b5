----------------------------- MODULE WireRepair -----------------------------
(***************************************************************************)
(* What the gateway sends for a conversation: an assistant message that    *)
(* announces tool calls is followed by exactly one result for each.        *)
(*                                                                         *)
(* Source: internal/gateway/provider.go (repairToolMessageSequence), which *)
(* runs on every request and on the bytes the prefix guard hashes.         *)
(*                                                                         *)
(* A message is its role, the calls it announces or the call it answers,   *)
(* and whether it is a recorded result or one made up by the repair.       *)
(***************************************************************************)
EXTENDS Naturals, Sequences, FiniteSetsExt, SequencesExt

User == [role |-> "user"]
Assistant(calls) == [role |-> "assistant", calls |-> calls]
Result(id) == [role |-> "tool", id |-> id, recorded |-> TRUE]
Unavailable(id) == [role |-> "tool", id |-> id, recorded |-> FALSE]

IsResult(message) == message.role = "tool"
Announces(message) == message.role = "assistant" /\ message.calls # <<>>

\* The results directly after message i, up to the next message of another role.
ResultsAfter(messages, i) ==
    LET Others == {j \in i + 1 .. Len(messages) : ~IsResult(messages[j])}
        end    == IF Others = {} THEN Len(messages) + 1 ELSE Min(Others)
    IN  SubSeq(messages, i + 1, end - 1)

\* Of those, the first one for each call that message i announces ...
Answers(messages, i) ==
    LET after == ResultsAfter(messages, i)
        seen[k \in 0 .. Len(after)] ==
            IF k = 0 THEN <<>>
            ELSE LET before == seen[k - 1]
                     open   == ToSet(messages[i].calls) \ {m.id : m \in ToSet(before)}
                 IN  IF after[k].id \in open THEN Append(before, after[k]) ELSE before
    IN  seen[Len(after)]

\* ... and a stand-in for each call left without one.
Missing(messages, i) ==
    LET calls    == messages[i].calls
        answered == {m.id : m \in ToSet(Answers(messages, i))}
        made[k \in 0 .. Len(calls)] ==
            IF k = 0 THEN <<>>
            ELSE IF calls[k] \in answered THEN made[k - 1]
            ELSE Append(made[k - 1], Unavailable(calls[k]))
    IN  made[Len(calls)]

\* A mutated form: results are not skipped where they stand.
SettledKeepingOrphans(messages, i) ==
    IF Announces(messages[i])
    THEN <<messages[i]>> \o Answers(messages, i) \o Missing(messages, i)
    ELSE <<messages[i]>>

Settled(messages, i) ==
    CASE IsResult(messages[i])  -> <<>>
      [] Announces(messages[i]) -> <<messages[i]>> \o Answers(messages, i) \o Missing(messages, i)
      [] OTHER                  -> <<messages[i]>>

Repair(messages) == FlattenSeq([i \in DOMAIN messages |-> Settled(messages, i)])

-----------------------------------------------------------------------------
(* What the upstream requires of a request. *)

Answered(messages, i) ==
    LET n     == Len(messages[i].calls)
        Group == i + 1 .. i + n
    IN  /\ Group \subseteq DOMAIN messages
        /\ \A j \in Group : IsResult(messages[j])
        /\ {messages[j].id : j \in Group} = ToSet(messages[i].calls)

WellFormed(messages) ==
    /\ \A i \in DOMAIN messages : Announces(messages[i]) => Answered(messages, i)
    /\ \A j \in DOMAIN messages : IsResult(messages[j]) =>
          \E i \in 1 .. j - 1 : Announces(messages[i]) /\ j <= i + Len(messages[i].calls)

=============================================================================
