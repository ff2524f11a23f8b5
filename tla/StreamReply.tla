----------------------------- MODULE StreamReply ----------------------------
(***************************************************************************)
(* What the chunks of one stream add up to: the tool calls, put together   *)
(* from pieces, the usage the provider reported in one or several frames,  *)
(* and the calls rescued from a reply that wrote them as text.             *)
(*                                                                         *)
(* Source: internal/gateway/sse.go, rescue.go.                             *)
(*                                                                         *)
(* A chunk carries one thing here: a usage number, a piece of a call, a    *)
(* finish reason or text; a chunk of the wire is several of them in a row. *)
(* Integers have the range -MaxInt - 1 .. MaxInt of the machine's int.     *)
(***************************************************************************)
EXTENDS Integers, Sequences, SequencesExt, FiniteSets

CONSTANTS
    MaxInt,     \* the greatest int
    Numbers,    \* the integers a provider may report
    CacheMin,   \* profile.CacheMinPromptTokens; 0 if there is none
    Indexes,    \* indexes of tool calls
    RescueCap,  \* calls rescued from JSON at most (10 in the code)
    MaxFrames   \* bound on the chunks of a stream

ASSUME StreamAssumption ==
    /\ {MaxInt, CacheMin, RescueCap, MaxFrames} \subseteq Nat
    /\ Numbers \subseteq -MaxInt - 1 .. MaxInt
    /\ Indexes \subseteq Nat

VARIABLES
    numbers,     \* per usage field: its usageNumber
    diagnostics, \* a.usageDiagnostics
    calls,       \* a.calls: index -> partialCall
    finish,      \* a.finish
    text,        \* a.content: the calls written in it, and prose
    rescueId,    \* the process-wide counter of rescued calls
    rescued,     \* what RescueToolCalls made of the text
    frames       \* chunks consumed

replyVars == <<numbers, diagnostics, calls, finish, text, rescueId, rescued, frames>>

-----------------------------------------------------------------------------
(* Usage.                                                                  *)

Fields == {"prompt", "deepSeekRead", "deepSeekMiss", "openAIRead"}

Absent == [state |-> "missing", value |-> 0]
Marked(state) == [state |-> state, value |-> 0]
Valid(n) == [state |-> "valid", value |-> n]
UsageNumbers == {Absent, Marked("null"), Marked("malformed")} \cup {Valid(n) : n \in Numbers}

None == [some |-> FALSE, value |-> 0]      \* a nil *int
Some(n) == [some |-> TRUE, value |-> n]

InRange(n) == n \in -MaxInt - 1 .. MaxInt

IsValid(f, n) == n[f].state = "valid"

\* The cache read: DeepSeek's field, or OpenAI's if DeepSeek's is not malformed;
\* none below the size from which the family caches, unless DeepSeek said so.
CacheRead(n) ==
    LET reported == IF IsValid("deepSeekRead", n) THEN Some(n["deepSeekRead"].value)
                    ELSE IF n["deepSeekRead"].state # "malformed" /\ IsValid("openAIRead", n)
                         THEN Some(n["openAIRead"].value)
                         ELSE None
        tooShort == /\ IsValid("prompt", n) /\ n["prompt"].value < CacheMin
                    /\ ~IsValid("deepSeekRead", n)
    IN  IF tooShort THEN None ELSE reported

\* A miss nobody reported is derived for an OpenAI-style read.
DerivesMiss(n) ==
    /\ n["deepSeekMiss"].state \in {"missing", "null"}
    /\ IsValid("openAIRead", n) /\ IsValid("prompt", n) /\ CacheRead(n).some

\* subtractInt.
Difference(n) == n["prompt"].value - CacheRead(n).value

CacheMiss(n) ==
    IF IsValid("deepSeekMiss", n) THEN Some(n["deepSeekMiss"].value)
    ELSE IF DerivesMiss(n) /\ InRange(Difference(n)) THEN Some(Difference(n))
    ELSE None

ContradictoryUnchecked(n) ==
    \/ DerivesMiss(n) /\ ~InRange(Difference(n))
    \/ IsValid("prompt", n) /\ n["prompt"].value < 0

Contradictory(n) ==
    \/ DerivesMiss(n) /\ ~InRange(Difference(n))
    \/ /\ IsValid("prompt", n) /\ IsValid("deepSeekRead", n) /\ IsValid("deepSeekMiss", n)
       /\ n["deepSeekRead"].value + n["deepSeekMiss"].value # n["prompt"].value
    \/ IsValid("prompt", n) /\ IsValid("openAIRead", n) /\ n["openAIRead"].value > n["prompt"].value
    \/ IsValid("prompt", n) /\ n["prompt"].value < 0
    \/ CacheRead(n).some /\ CacheRead(n).value < 0
    \/ CacheMiss(n).some /\ CacheMiss(n).value < 0

\* rebuildUsage: the usage as all frames together report it.
Usage(n) ==
    [prompt |-> IF IsValid("prompt", n) THEN Some(n["prompt"].value) ELSE None,
     read |-> CacheRead(n), miss |-> CacheMiss(n),
     derived |-> DerivesMiss(n) /\ InRange(Difference(n)),
     contradictory |-> Contradictory(n)]

-----------------------------------------------------------------------------
(* Tool calls.                                                             *)

NoCall == [id |-> "", pieces |-> 0, args |-> "empty"]

\* Arguments are text: a piece opens the JSON object or closes it.
Extended(args, piece) ==
    CASE piece = ""                         -> args
      [] piece = "open"  /\ args = "empty"  -> "partial"
      [] piece = "close" /\ args = "partial" -> "whole"
      [] OTHER                              -> "broken"

\* ingestCalls: the last id wins, names and arguments are appended.
Ingested(call, delta) ==
    [id |-> IF delta.id = "" THEN call.id ELSE delta.id,
     pieces |-> call.pieces + (IF delta.named THEN 1 ELSE 0),
     args |-> Extended(call.args, delta.args)]

Deltas == [id : {"", "a"}, named : BOOLEAN, args : {"", "open", "close"}]

DefaultId(index) == <<"tool", index>>

Returned == {i \in DOMAIN calls : calls[i].pieces > 0}
CallId(i) == IF calls[i].id = "" THEN DefaultId(i) ELSE <<calls[i].id, 0>>

\* Result: the named calls in order of their index.
ToolCalls == [k \in 1 .. Cardinality(Returned) |->
                 CHOOSE i \in Returned : Cardinality({j \in Returned : j < i}) = k - 1]

\* Calls the output cap cut off.
TruncatedCalls == {i \in Returned : finish = "length" /\ calls[i].args \in {"partial", "broken"}}

TruncatedUnfinished == {i \in Returned : calls[i].args \in {"partial", "broken"}}

-----------------------------------------------------------------------------
(* Rescue.  Text is a sequence of items: prose, or a call written as markup *)
(* or as JSON, of a tool that is known or not.                              *)

Items == [form : {"markup", "json"}, known : BOOLEAN] \cup {[form |-> "prose", known |-> FALSE]}

Written(form) == SelectSeq(text, LAMBDA item : item.form = form /\ item.known)

\* The markup forms are taken wherever they stand; JSON only if the whole text
\* is JSON, and then at most RescueCap calls of it.
Rescuable ==
    IF Written("markup") # <<>> THEN Written("markup")
    ELSE IF text # <<>> /\ \A i \in DOMAIN text : text[i].form = "json"
         THEN SubSeq(Written("json"), 1, IF Len(Written("json")) < RescueCap
                                         THEN Len(Written("json")) ELSE RescueCap)
    ELSE <<>>

\* What is left of the text once its calls are taken out: known or not, all
\* markup goes.
Cleaned ==
    IF Written("markup") # <<>> THEN SelectSeq(text, LAMBDA item : item.form # "markup")
    ELSE IF Rescuable # <<>> THEN <<>>
    ELSE text

-----------------------------------------------------------------------------

ReplyInit ==
    /\ numbers = [f \in Fields |-> Absent] /\ diagnostics = {}
    /\ calls = <<>> /\ finish = "" /\ text = <<>>
    /\ rescueId = 0 /\ rescued = <<>> /\ frames = 0

NextFrame == frames < MaxFrames /\ frames' = frames + 1

\* mergeUsageNumber: the last frame that has the field wins, null or malformed too.
MergeUsage(f, number) ==
    /\ NextFrame
    /\ number.state # "missing"
    /\ numbers' = [numbers EXCEPT ![f] = number]
    /\ diagnostics' = IF number.state = "malformed" THEN diagnostics \cup {f} ELSE diagnostics
    /\ UNCHANGED <<calls, finish, text, rescueId, rescued>>

IngestCall(index, delta) ==
    /\ NextFrame
    /\ calls' = [i \in DOMAIN calls \cup {index} |->
                    IF i # index THEN calls[i]
                    ELSE Ingested(IF index \in DOMAIN calls THEN calls[index] ELSE NoCall, delta)]
    /\ UNCHANGED <<numbers, diagnostics, finish, text, rescueId, rescued>>

Finish(reason) ==
    /\ NextFrame
    /\ finish' = reason
    /\ UNCHANGED <<numbers, diagnostics, calls, text, rescueId, rescued>>

Write(item) ==
    /\ NextFrame
    /\ text' = Append(text, item)
    /\ UNCHANGED <<numbers, diagnostics, calls, finish, rescueId, rescued>>

\* RescueToolCalls, for a reply without calls (turnloop.go:536).
Rescue ==
    /\ Returned = {} /\ text # <<>> /\ frames < MaxFrames
    /\ rescued' = [k \in DOMAIN Rescuable |-> rescueId + k]
    /\ rescueId' = rescueId + Len(Rescuable)
    /\ text' = Cleaned
    /\ frames' = MaxFrames
    /\ UNCHANGED <<numbers, diagnostics, calls, finish>>

ReplyNext ==
    \/ \E f \in Fields, number \in UsageNumbers : MergeUsage(f, number)
    \/ \E index \in Indexes, delta \in Deltas : IngestCall(index, delta)
    \/ \E reason \in {"stop", "length"} : Finish(reason)
    \/ \E item \in Items : Write(item)
    \/ Rescue

ReplySpec == ReplyInit /\ [][ReplyNext]_replyVars

-----------------------------------------------------------------------------
(* Properties.                                                             *)

StreamTypeOK ==
    /\ numbers \in [Fields -> UsageNumbers]
    /\ diagnostics \subseteq Fields
    /\ DOMAIN calls \subseteq Indexes
    /\ finish \in {"", "stop", "length"}
    /\ text \in Seq(Items) /\ rescueId \in Nat

\* A provider's own read and miss, or a read with the miss derived from it, are
\* trusted only if they are not negative and add up to the prompt; a read in one
\* dialect beside a miss in the other is not compared with it.
UsageAddsUp ==
    LET u == Usage(numbers) IN
    (/\ u.prompt.some /\ u.read.some /\ u.miss.some /\ ~u.contradictory
     /\ (IsValid("deepSeekMiss", numbers) => IsValid("deepSeekRead", numbers)))
        => /\ u.read.value + u.miss.value = u.prompt.value
           /\ u.read.value >= 0 /\ u.miss.value >= 0

=============================================================================
