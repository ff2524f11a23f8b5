----------------------------- MODULE ShellGates -----------------------------
(***************************************************************************)
(* The two gates a shell command passes: IsReadOnlyShell, for agents that  *)
(* may only look, and ClassifyShell, the backstop before any command is    *)
(* run.  Both read the command through one tokenizer (shellsafe).          *)
(*                                                                         *)
(* A command is a sequence of lexemes: words, written with a space before  *)
(* them, and signs.  A word stands for the words the source's tables treat *)
(* alike.  A quote opens and closes a span, which is one word made of the  *)
(* words in it; a quoted piece glued to a bare one is left out.            *)
(***************************************************************************)
EXTENDS Naturals, Sequences, SequencesExt

CONSTANTS
    Lexemes,       \* the lexemes a command is written with
    MaxCommand     \* bound: the lexemes of a command

ASSUME ShellAssumption == MaxCommand \in Nat

VARIABLE command

shellVars == command

-----------------------------------------------------------------------------
(* The tables.                                                             *)

Separators == {"|", ";"}
Openers == {"$("}
Quote == "'"

\* NormalizeCommandWord: a directory, a backslash or an .exe are no other program.
Normalized(word) == IF word = <<"/bin/rm">> THEN <<"rm">> ELSE word

IsWrapper(word) == Normalized(word) \in {<<"env">>, <<"sudo">>}

Dashed(word) == word[1] \in {"-rf", "-r", "-f", "-c", "-delete", "--fix"}

\* Flags, assignments and numbers.  A number may end in s, m or h, and a word of
\* such letters alone counts as one.
IsWrapperArgument(word) ==
    \/ Dashed(word)
    \/ \E i \in DOMAIN word : word[i] = "VAR=1"
    \/ word \in {<<"5">>, <<"sh">>}

PowerShellDeletes == {<<"ri">>}
DestructiveWords == PowerShellDeletes \cup {<<"rm">>, <<"mv">>, <<"chmod">>}
DestructiveFlags == {<<"--fix">>, <<"-delete">>}
Interpreters == {<<"sh">>}
InlineCode == {<<"-c">>}
GitMutations == {<<"commit">>, <<"push">>}

\* Targets of > that write no file: a null device or another descriptor.
HarmlessTargets == {"/dev/null", "&1"}

-----------------------------------------------------------------------------
(* shellsafe.                                                              *)

Flushed(scan) ==
    IF scan.word = <<>> THEN scan
    ELSE [scan EXCEPT !.current = Append(@, [word |-> scan.word, commandPos |-> scan.pending]),
                      !.word = <<>>, !.pending = FALSE]

SegmentFlushed(scan) ==
    LET f == Flushed(scan)
    IN  [f EXCEPT !.segments = IF f.current = <<>> THEN @ ELSE Append(@, f.current),
                  !.current = <<>>, !.pending = TRUE]

\* One lexeme of the scan.  The & of >&1 ends a segment as any other & does.
Scan(scan, lexeme) ==
    CASE lexeme = Quote -> IF scan.quoted THEN [scan EXCEPT !.quoted = FALSE]
                           ELSE [Flushed(scan) EXCEPT !.quoted = TRUE]
      [] lexeme # Quote /\ scan.quoted -> [scan EXCEPT !.word = Append(@, lexeme)]
      [] lexeme \in Separators /\ ~scan.quoted -> SegmentFlushed(scan)
      [] lexeme \in Openers /\ ~scan.quoted -> [Flushed(scan) EXCEPT !.pending = TRUE]
      [] lexeme = "&1" /\ ~scan.quoted -> [SegmentFlushed(scan) EXCEPT !.word = <<"1">>]
      [] OTHER -> [Flushed(scan) EXCEPT !.word = <<lexeme>>]

Segments(cmd) ==
    SegmentFlushed(FoldLeft(Scan, [segments |-> <<>>, current |-> <<>>, word |-> <<>>,
                                   quoted |-> FALSE, pending |-> TRUE], cmd)).segments

\* The token a wrapper at position i runs: the first past its own arguments.
RunBy(segment, i) ==
    {j \in (i + 1)..Len(segment) :
        /\ ~IsWrapperArgument(segment[j].word)
        /\ \A k \in (i + 1)..(j - 1) : IsWrapperArgument(segment[k].word)}

MarkOne(segment, i) ==
    IF segment[i].commandPos /\ IsWrapper(segment[i].word)
    THEN [j \in DOMAIN segment |-> [segment[j] EXCEPT !.commandPos = @ \/ j \in RunBy(segment, i)]]
    ELSE segment

\* MarkThroughWrappers, from the left, so that it sees through chains of them.
Marked(segment) == FoldLeft(MarkOne, segment, [i \in DOMAIN segment |-> i])

-----------------------------------------------------------------------------
(* IsReadOnlyShell.                                                        *)

Words(segment, from) == {segment[j].word : j \in from..Len(segment)}

\* gitSubcommand: past the global flags, of which -c takes an argument.
GitSubcommand(segment, i) ==
    LET step(found, j) ==
            IF found.done \/ found.skip THEN [found EXCEPT !.skip = FALSE]
            ELSE IF segment[j].word \in InlineCode THEN [found EXCEPT !.skip = TRUE]
            ELSE IF Dashed(segment[j].word) THEN found
            ELSE [done |-> TRUE, skip |-> FALSE, word |-> segment[j].word]
    IN  FoldLeft(step, [done |-> FALSE, skip |-> FALSE, word |-> <<>>],
                 [k \in 1..(Len(segment) - i) |-> i + k]).word

\* What makes the token at i of a segment more than a look.
Mutates(segment, i) ==
    LET program == Normalized(segment[i].word) IN
    \/ segment[i].word \in DestructiveFlags
    \/ /\ segment[i].commandPos
       /\ \/ program \in DestructiveWords
          \/ program \in Interpreters /\ Words(segment, i + 1) \cap InlineCode # {}
          \/ program = <<"git">> /\ GitSubcommand(segment, i) \in GitMutations

\* A lexeme is quoted when the quotes before it are odd in number.
Quoted(cmd, i) == Len(SelectSeq(SubSeq(cmd, 1, i - 1), LAMBDA l : l = Quote)) % 2 = 1

WritesFile(cmd) ==
    \E i \in DOMAIN cmd :
        /\ cmd[i] = ">" /\ ~Quoted(cmd, i)
        /\ i = Len(cmd) \/ cmd[i + 1] \notin HarmlessTargets

IsReadOnlyUnmarked(cmd) ==
    /\ cmd # <<>>
    /\ ~WritesFile(cmd)
    /\ \A s \in DOMAIN Segments(cmd) :
          \A i \in DOMAIN Segments(cmd)[s] : ~Mutates(Segments(cmd)[s], i)

IsReadOnlyShell(cmd) ==
    /\ cmd # <<>>
    /\ ~WritesFile(cmd)
    /\ LET segments == Segments(cmd) IN
       \A s \in DOMAIN segments :
          LET segment == Marked(segments[s])
          IN  \A i \in DOMAIN segment : ~Mutates(segment, i)

-----------------------------------------------------------------------------
(* ClassifyShell.                                                          *)

\* The patterns look at the text, quotes and all, up to the next separator.
Followed(cmd, first, later) ==
    \E i, j \in DOMAIN cmd :
        /\ i < j /\ cmd[i] \in first /\ cmd[j] \in later
        /\ \A k \in i..j : cmd[k] \notin Separators

EnvironmentListed(cmd) ==
    \E i \in DOMAIN cmd :
        /\ cmd[i] = "env"
        /\ i = 1 \/ cmd[i - 1] \in Separators
        /\ i = Len(cmd) \/ cmd[i + 1] \in Separators

RisksOf(cmd) ==
    {r \in {"bulk file delete", "world-writable permission change", "piping remote content to a shell",
            "force push", "environment secret enumeration"} :
        CASE r = "bulk file delete" -> Followed(cmd, {"find"}, {"-delete"})
          [] r = "world-writable permission change" -> Followed(cmd, {"chmod"}, {"777"})
          [] r = "piping remote content to a shell" ->
                \E i, j \in DOMAIN cmd : /\ i < j /\ cmd[i] = "curl"
                                         /\ cmd[j] = "|" /\ j < Len(cmd) /\ cmd[j + 1] = "sh"
          [] r = "force push" -> \E i \in DOMAIN cmd : /\ i < Len(cmd) /\ cmd[i] = "git" /\ cmd[i + 1] = "push"
                                                       /\ \E j \in DOMAIN cmd : j > i /\ cmd[j] = "-f"
          [] OTHER -> EnvironmentListed(cmd)}

\* commandFlags: a delete's words up to the next command of its segment.
CommandFlags(segment, i) ==
    {segment[j].word : j \in {n \in (i + 1)..Len(segment) :
        \A k \in (i + 1)..n : ~segment[k].commandPos}}

\* deleteSwitches: clusters of letters for rm, prefixes of names for PowerShell.
Recursive(flags, unix) == flags \cap ({<<"-r">>} \cup IF unix THEN {<<"-rf">>} ELSE {}) # {}
Forced(flags, unix) == flags \cap ({<<"-f">>} \cup IF unix THEN {<<"-rf">>} ELSE {}) # {}

\* destructiveDeleteRisk.
DestructiveDelete(cmd) ==
    LET segments == Segments(cmd) IN
    \E s \in DOMAIN segments :
        LET segment == Marked(segments[s]) IN
        \E i \in DOMAIN segment :
            LET word == Normalized(segment[i].word) IN
            /\ segment[i].commandPos
            /\ word = <<"rm">> \/ word \in PowerShellDeletes
            /\ Recursive(CommandFlags(segment, i), word = <<"rm">>)
            /\ Forced(CommandFlags(segment, i), word = <<"rm">>)

ClassifyShell(cmd) == RisksOf(cmd) # {} \/ DestructiveDelete(cmd)

\* ClassifyShellAutoAccept: nobody will be asked, so a publication is refused too.
ClassifyShellAutoAccept(cmd) ==
    \/ \E i \in DOMAIN cmd : i < Len(cmd) /\ cmd[i] = "git" /\ cmd[i + 1] \in {"commit", "push"}
    \/ RisksOf(cmd) \ {"environment secret enumeration", "world-writable permission change"} # {}
    \/ DestructiveDelete(cmd)

-----------------------------------------------------------------------------
(* Every command, one lexeme at a time.                                    *)

ShellInit == command = <<>>

Extend(lexeme) ==
    /\ Len(command) < MaxCommand
    /\ command' = Append(command, lexeme)

ShellNext == \E lexeme \in Lexemes : Extend(lexeme)

ShellSpec == ShellInit /\ [][ShellNext]_shellVars

-----------------------------------------------------------------------------
(* Properties.                                                             *)

ShellTypeOK == command \in Seq(Lexemes)

\* The gates do not drift apart (shellsafe.go:1): a delete the backstop blocks is no
\* look for the read-only gate, however it is wrapped, nested or chained.
GatesAgree == DestructiveDelete(command) => ~IsReadOnlyShell(command)
=============================================================================
