------------------------------ MODULE TextEdit ------------------------------
(***************************************************************************)
(* What the editing tools do to the text of one file: edit_file and        *)
(* multi_edit replace strings (applyEditText), apply_patch applies the     *)
(* hunks of a unified diff (parseUnifiedPatch, applyHunks).                *)
(*                                                                         *)
(* A text is a sequence of letters, two of them line ends: "lf" and        *)
(* "crlf", which stand at one place in the text and in its normal form.    *)
(* "sp" is a blank, "dash" the beginning "-- " of a line.                  *)
(***************************************************************************)
EXTENDS Integers, Sequences, SequencesExt, FiniteSetsExt

CONSTANTS
    Letters,    \* what a text is written with
    Texts,      \* the texts a file starts with
    Edits,      \* the edits asked for: [old, new, all]
    DiffTargets,    \* the texts, with "lf" alone, that diffs lead to
    MaxChanges  \* bound: the calls on one file

ASSUME TextAssumption ==
    /\ {"lf", "crlf"} \subseteq Letters
    /\ Texts \subseteq Seq(Letters) /\ DiffTargets \subseteq Seq(Letters \ {"crlf"})
    /\ Edits \subseteq Seq([old : Seq(Letters), new : Seq(Letters), all : BOOLEAN])

VARIABLES
    text,       \* the file
    last,       \* the last call: what it was, the text before it and its report
    changes     \* calls so far

textVars == <<text, last, changes>>

-----------------------------------------------------------------------------
(* Strings.                                                                *)

ToLF(t) == [i \in DOMAIN t |-> IF t[i] = "crlf" THEN "lf" ELSE t[i]]
ToCRLF(t) == [i \in DOMAIN t |-> IF t[i] = "lf" THEN "crlf" ELSE t[i]]

Occurrences(letter, t) == Len(SelectSeq(t, LAMBDA l : l = letter))

DominantCRLF(t) == Occurrences("crlf", t) > Occurrences("lf", t)

AnyCRLF(t) == Occurrences("crlf", t) > 0

Encoded(t, like) == IF DominantCRLF(like) THEN ToCRLF(t) ELSE t

\* Where part stands in t, from the left and without overlap.
Matches(t, part) ==
    LET n == Len(part)
        Take(found, i) ==
            IF /\ SubSeq(t, i, i + n - 1) = part
               /\ found = <<>> \/ i >= Last(found) + n
            THEN Append(found, i) ELSE found
    IN  FoldLeft(Take, <<>>, [i \in 1..(Len(t) - n + 1) |-> i])

FoundIn(t, part) == \E i \in 1..(Len(t) - Len(part) + 1) : SubSeq(t, i, i + Len(part) - 1) = part

\* t with the strings of length n at the positions put into new.
Spliced(t, positions, n, new) ==
    LET From(k) == IF k = 1 THEN 1 ELSE positions[k - 1] + n
        To(k) == IF k > Len(positions) THEN Len(t) ELSE positions[k] - 1
    IN  FlattenSeq([k \in 1..(Len(positions) + 1) |->
                       (IF k = 1 THEN <<>> ELSE new) \o SubSeq(t, From(k), To(k))])

\* strings.Split at the line ends of a normalized text, and strings.Join.
SplitAtLF(t) ==
    LET SplitAt(lines, l) == IF l = "lf" THEN Append(lines, <<>>)
                             ELSE [lines EXCEPT ![Len(lines)] = Append(@, l)]
    IN  FoldLeft(SplitAt, <<<<>>>>, t)

Joined(lines) ==
    FlattenSeq([i \in DOMAIN lines |-> (IF i = 1 THEN <<>> ELSE <<"lf">>) \o lines[i]])

TrimRight(line) ==
    SubSeq(line, 1, Max({0} \cup {i \in DOMAIN line : line[i] # "sp"}))

-----------------------------------------------------------------------------
(* applyEditText.                                                          *)

\* trailingWhitespaceMatch: the places where the lines agree but for trailing
\* blanks; at a single one the lines asked for are put in place.
FuzzyStarts(lines, old) ==
    {s \in 1..(Len(lines) - Len(old) + 1) :
        \A i \in DOMAIN old : TrimRight(lines[s + i - 1]) = TrimRight(old[i])}

\* The text to replace in: none if nothing matched, the same if several places did.
Adjustments(current, lines, old) ==
    LET starts == FuzzyStarts(lines, old)
    IN  IF Cardinality(starts) = 1
        THEN {Joined(SubSeq(lines, 1, s - 1) \o old \o SubSeq(lines, s + Len(old), Len(lines))) :
                s \in starts}
        ELSE IF starts # {} THEN {current} ELSE {}

Unchanged(content, note) == [text |-> content, note |-> note]

\* The string is found nowhere.
Missing(content, current, old, new) ==
    LET adjusted == Adjustments(current, SplitAtLF(current), SplitAtLF(old))
    IN  IF new # <<>> /\ FoundIn(current, new) THEN Unchanged(content, "already present")
        ELSE IF adjusted = {} THEN Unchanged(content, "not found")
        ELSE CHOOSE r \in {Unchanged(Encoded(ReplaceFirstSubSeq(new, old, t), content), "") :
                              t \in adjusted} : TRUE

EditOf(content, edit, inserted) ==
    LET current == ToLF(content)
        old == ToLF(edit.old)
        new == ToLF(edit.new)
        found == Matches(current, old)
    IN  IF edit.old = edit.new THEN Unchanged(content, "identical")
        ELSE IF found = <<>> THEN Missing(content, current, old, new)
        ELSE IF Len(found) > 1 /\ ~edit.all THEN Unchanged(content, "ambiguous")
        ELSE [text |-> Spliced(content, IF edit.all THEN found ELSE <<found[1]>>, Len(old), inserted),
              note |-> ""]

ApplyEditTextAnyCRLF(content, edit) ==
    LET edited == EditOf(content, edit, ToLF(edit.new))
    IN  IF AnyCRLF(content) /\ edited.note = "" THEN [edited EXCEPT !.text = ToCRLF(@)] ELSE edited

\* New text gets the ending most lines have; the bytes around it stay.
ApplyEditText(content, edit) ==
    EditOf(content, edit, Encoded(ToLF(edit.new), content))

\* MultiEdit: a first pass looks for edits that miss, a second applies them all.
MissNotes == {"not found", "ambiguous"}

Pass(content, edits) ==
    LET Step(state, edit) ==
            IF edit.old = <<>> THEN state
            ELSE LET r == ApplyEditText(state.text, edit)
                 IN  [text |-> r.text, missed |-> state.missed \/ r.note \in MissNotes]
    IN  FoldLeft(Step, [text |-> content, missed |-> FALSE], edits)

MultiEdit(content, edits) ==
    LET pass == Pass(content, edits)
    IN  [text |-> IF pass.missed THEN content ELSE pass.text,
         report |-> IF pass.missed THEN "failed"
                    ELSE IF pass.text = content THEN "no changes needed" ELSE "edited"]

-----------------------------------------------------------------------------
(* parseUnifiedPatch.  A line of a patch is its tag and its body; the line *)
(* that deletes "-- x" reads like a file header.  "=" stands for the blank *)
(* before a line of context, "unended" for the line that says that the one *)
(* before it has no line end.                                              *)

IsFileHeader(line) == \/ line.tag = "---"
                      \/ line.tag = "-" /\ line.body # <<>> /\ line.body[1] = "dash"

\* One line.  remaining counts the lines a hunk's header announced.
ParseLine(parse, line) ==
    LET oldSide == line.tag \in {"=", "-"}
        newSide == line.tag \in {"=", "+"}
        inBody == parse.old > 0 \/ parse.new > 0
    IN  IF line.tag = "unended"
        THEN [parse EXCEPT !.hunks = IF parse.newSide
                                     THEN [@ EXCEPT ![Len(@)].newFinalNewline = FALSE] ELSE @]
        ELSE IF inBody
        THEN [hunks |-> [parse.hunks EXCEPT ![Len(parse.hunks)].lines = Append(@, line)],
              old |-> parse.old - IF oldSide THEN 1 ELSE 0,
              new |-> parse.new - IF newSide THEN 1 ELSE 0,
              newSide |-> newSide]
        ELSE IF line.tag = "@@"
        THEN [hunks |-> Append(parse.hunks, [oldStart |-> line.start, lines |-> <<>>,
                                             newFinalNewline |-> TRUE]),
              old |-> line.old, new |-> line.new, newSide |-> FALSE]
        ELSE parse

NoHunks == [hunks |-> <<>>, old |-> 0, new |-> 0, newSide |-> FALSE]

\* The hunks of one file, after its two header lines.
ParseUnifiedPatch(lines) == FoldLeft(ParseLine, NoHunks, lines).hunks

-----------------------------------------------------------------------------
(* applyHunks.                                                             *)

EndsInLF(t) == t # <<>> /\ Last(t) = "lf"

SourceLines(t) ==
    LET trimmed == IF EndsInLF(t) THEN Front(t) ELSE t
    IN  IF trimmed = <<>> THEN <<>> ELSE SplitAtLF(trimmed)

ApplyLine(source, state, line) ==
    IF line.tag = "+" THEN [state EXCEPT !.out = Append(@, line.body)]
    ELSE IF state.cursor >= Len(source) \/ source[state.cursor + 1] # line.body
    THEN [state EXCEPT !.ok = FALSE]
    ELSE [out |-> IF line.tag = "=" THEN Append(state.out, line.body) ELSE state.out,
          cursor |-> state.cursor + 1, ok |-> state.ok]

ApplyHunk(source, state, hunk) ==
    LET start == Max({0, hunk.oldStart - 1})
        entered == [out |-> state.out \o SubSeq(source, state.cursor + 1, start),
                    cursor |-> start, ok |-> state.ok]
        Step(s, line) == IF s.ok THEN ApplyLine(source, s, line) ELSE s
    IN  IF ~state.ok \/ start < state.cursor \/ start > Len(source) THEN [state EXCEPT !.ok = FALSE]
        ELSE FoldLeft(Step, entered, hunk.lines)

\* A last hunk that reaches the end of the file decides about the final line end.
ApplyHunks(content, hunks) ==
    LET source == SourceLines(content)
        done == FoldLeft(LAMBDA s, hunk : ApplyHunk(source, s, hunk),
                         [out |-> <<>>, cursor |-> 0, ok |-> TRUE], hunks)
        out == done.out \o SubSeq(source, done.cursor + 1, Len(source))
        newline == IF hunks # <<>> /\ done.cursor >= Len(source)
                   THEN Last(hunks).newFinalNewline ELSE EndsInLF(content)
    IN  [ok |-> done.ok, text |-> Joined(out) \o IF out # <<>> /\ newline THEN <<"lf">> ELSE <<>>]

Patched(content, hunks) ==
    LET applied == ApplyHunks(ToLF(content), hunks)
    IN  IF applied.ok THEN [text |-> Encoded(applied.text, content), report |-> "applied"]
        ELSE [text |-> content, report |-> "failed"]

\* The diff the caller made of two texts: one hunk, from the first line that
\* differs to the last, with a line of context on each side where there is one.
\* A last line without its end is another line than the same with one.
DiffLines(t) ==
    LET lines == IF t = <<>> THEN <<>> ELSE SplitAtLF(IF EndsInLF(t) THEN Front(t) ELSE t)
    IN  [i \in DOMAIN lines |-> [body |-> lines[i], ended |-> i < Len(lines) \/ EndsInLF(t)]]

\* How many lines two texts have in common at the beginning, and behind it at the end.
CommonHead(a, b) ==
    Max({n \in 0..Min({Len(a), Len(b)}) : \A i \in 1..n : a[i] = b[i]})
CommonTail(a, b, head) ==
    Max({n \in 0..(Min({Len(a), Len(b)}) - head) :
            \A i \in 1..n : a[Len(a) - n + i] = b[Len(b) - n + i]})

Tagged(tag, lines) == [i \in DOMAIN lines |-> [tag |-> tag, line |-> lines[i]]]

NoNewline == [tag |-> "unended", body |-> <<>>]

WrittenOut(tagged) ==
    FlattenSeq([i \in DOMAIN tagged |->
        <<[tag |-> tagged[i].tag, body |-> tagged[i].line.body]>>
            \o IF tagged[i].line.ended THEN <<>> ELSE <<NoNewline>>])

HunkOf(a, b) ==
    LET head == CommonHead(a, b)
        tail == CommonTail(a, b, head)
        before == Min({1, head})
        after == Min({1, tail})
        olds == SubSeq(a, head + 1, Len(a) - tail)
        news == SubSeq(b, head + 1, Len(b) - tail)
    IN  <<[tag |-> "@@", body |-> <<>>, start |-> head - before + 1,
           old |-> before + Len(olds) + after, new |-> before + Len(news) + after]>>
        \o WrittenOut(Tagged("=", SubSeq(a, head - before + 1, head))
                   \o Tagged("-", olds) \o Tagged("+", news)
                   \o Tagged("=", SubSeq(a, Len(a) - tail + 1, Len(a) - tail + after)))

DiffOf(from, to) == HunkOf(DiffLines(from), DiffLines(to))

-----------------------------------------------------------------------------
(* The calls on one file.                                                  *)

NoChange == [tool |-> "none", before |-> <<>>, edits |-> <<>>, target |-> <<>>, report |-> "none"]

TextInit ==
    /\ text \in Texts
    /\ last = NoChange /\ changes = 0

\* edit_file with one edit, multi_edit with several.
Edit(edits) ==
    /\ changes < MaxChanges
    /\ \E r \in {MultiEdit(text, edits)} :
           /\ text' = r.text
           /\ last' = [NoChange EXCEPT !.tool = "edit", !.before = text, !.edits = edits,
                                     !.report = r.report]
    /\ changes' = changes + 1

\* apply_patch with the diff that leads from the text to the target.
Patch(target) ==
    /\ changes < MaxChanges /\ target # ToLF(text)
    /\ \E r \in {Patched(text, ParseUnifiedPatch(DiffOf(ToLF(text), target)))} :
           /\ text' = r.text
           /\ last' = [NoChange EXCEPT !.tool = "patch", !.before = text, !.target = target,
                                     !.report = r.report]
    /\ changes' = changes + 1

TextNext ==
    \/ \E edits \in Edits : Edit(edits)
    \/ \E target \in DiffTargets : Patch(target)

TextSpec == TextInit /\ [][TextNext]_textVars

-----------------------------------------------------------------------------
(* Properties.                                                             *)

TextTypeOK ==
    /\ last.tool \in {"none", "edit", "patch"}
    /\ last.report \in {"none", "failed", "no changes needed", "edited", "applied"}
    /\ text \in Seq(Letters)
    /\ changes \in 0..MaxChanges

\* An edit that finds its string changes that place alone: every byte before and
\* after it stays, a line end of the minority among them, and the new text takes
\* the ending most lines have (files.go:487-491).
EditIsLocal ==
    (last.tool = "edit" /\ last.report = "edited" /\ Len(last.edits) = 1) =>
        LET edit == last.edits[1]
            n == Len(edit.old)
            at == {i \in 1..(Len(last.before) - n + 1) :
                     ToLF(SubSeq(last.before, i, i + n - 1)) = ToLF(edit.old)}
        IN  (~edit.all /\ at # {}) =>
                \E i \in at : text = SubSeq(last.before, 1, i - 1)
                                    \o Encoded(ToLF(edit.new), last.before)
                                    \o SubSeq(last.before, i + n, Len(last.before))

\* A diff of the text, whatever its lines begin with and whether or not they end,
\* leads to the text it was made for (patch.go:160-163, patch_cluster_test.go:74).
\* A file of one empty line is no such text: applyHunks takes it for an empty one
\* and refuses the line.
PatchGivesTarget ==
    (last.tool = "patch" /\ ToLF(last.before) # <<"lf">>) =>
        last.report = "applied" /\ ToLF(text) = last.target

\* Whatever the line ends, the blanks and the letters of a text, a change does what
\* was asked and nothing else, by edit or by patch.
ChangesAreExact == EditIsLocal /\ PatchGivesTarget
=============================================================================
