----------------------------- MODULE ReviewGate -----------------------------
(***************************************************************************)
(* The review gate (orchestrator/reviewgate.go): what a task has changed   *)
(* decides whether its end asks for a review, and how deep.  The gate is a *)
(* function of a profile; the task around it consults it once when a turn  *)
(* would end the task, keeps that decision, and reports it or, if none was *)
(* taken, one made at the very end.                                        *)
(***************************************************************************)
EXTENDS Naturals

CONSTANTS
    Batches,       \* numbers of files a step may change
    LineCounts,    \* numbers of lines a step may change
    RepoCounts,    \* source files in the workspace when a task starts
    MaxSteps       \* steps of a task that change files or its class

ASSUME ReviewAssumption ==
    /\ Batches \subseteq Nat \ {0} /\ LineCounts \subseteq Nat /\ RepoCounts \subseteq Nat
    /\ MaxSteps \in Nat

VARIABLES
    review    \* the task: settings, class, what it changed, the decision, the report

TierWeight(tier) == CASE tier = "skip" -> 0 [] tier = "focused" -> 1 [] tier = "deep" -> 2
Classes == <<"chat", "tiny", "small", "standard", "large", "epic">>
FileKinds == {"docs", "config", "logic"}
NoFiles == [k \in FileKinds |-> 0]

-----------------------------------------------------------------------------
(* The gate.                                                               *)

RepoBucketForFileCount(count) ==
    IF count < 3 THEN "tiny" ELSE IF count <= 6 THEN "small" ELSE IF count <= 20 THEN "medium" ELSE "large"

FileCount(files) == files["docs"] + files["config"] + files["logic"]

ReviewTaskType(files) ==
    IF FileCount(files) = 0 THEN "none"
    ELSE IF \E k \in FileKinds : files[k] = FileCount(files)
    THEN CHOOSE k \in FileKinds : files[k] = FileCount(files)
    ELSE "mixed"

\* ceilingsFor: the share of the task's tokens a review may take; the absolute
\* ceilings are still zero.
CeilingsFor(tier) == CASE tier = "skip" -> 0 [] tier = "focused" -> 20 [] tier = "deep" -> 35

\* A mutated form: an unknown size is small.
SmallOrUnknown(p) ==
    LET files == FileCount(p.files) IN (p.lines <= 40 /\ files <= 2) \/ p.lines = 0

\* No line counted is an unknown size, which exempts a single file only.
SmallEnough(p) ==
    LET files == FileCount(p.files) IN (p.lines \in 1..40 /\ files <= 2) \/ (p.lines = 0 /\ files <= 1)

IsWide(p) == p.class \in {"large", "epic"} \/ FileCount(p.files) > 8

\* The hard rules in order, then the tier table.
TableTier(p) ==
    LET files == FileCount(p.files)
        kind == ReviewTaskType(p.files)
        lenient == IF p.mode = "conservative" THEN "focused" ELSE "skip"
    IN  CASE p.mode = "off" -> "skip"
          [] p.mode # "off" /\ files = 0 -> "skip"
          [] p.mode # "off" /\ files > 0 /\ p.risk -> IF IsWide(p) THEN "deep" ELSE "focused"
          [] OTHER ->
                IF p.tests = "failed" THEN "focused"
                ELSE IF kind = "docs" \/ (p.class = "tiny" /\ files <= 2) THEN "skip"
                ELSE IF kind = "config" /\ files <= 2 THEN lenient
                ELSE IF IsWide(p) THEN "deep"
                ELSE IF SmallEnough(p) THEN lenient
                ELSE "focused"

\* A tiny repository is scaffolding: no deep review, unless there is a risk.
Decide(p) ==
    LET tier == TableTier(p)
        capped == IF tier = "deep" /\ RepoBucketForFileCount(p.repo) = "tiny" /\ ~p.risk
                  THEN "focused" ELSE tier
    IN  [tier |-> capped, cap |-> CeilingsFor(capped)]

-----------------------------------------------------------------------------
(* A task.                                                                 *)

NoDecision == [tier |-> "none", cap |-> 0]

\* reviewProfileForTask: the outcome of the tests is not passed on.
ReviewProfile(class) ==
    [class |-> class, files |-> review.files, lines |-> review.lines, risk |-> review.risk,
     tests |-> "not-run", repo |-> review.repo, mode |-> review.mode]

StartReviewTask(class, mode, autoReview, repo) ==
    /\ review.at = "idle"
    /\ review' = [at |-> "working", assessed |-> class, class |-> class, mode |-> mode,
                  autoReview |-> autoReview, repo |-> repo, files |-> NoFiles, lines |-> 0,
                  risk |-> FALSE, nudged |-> FALSE, decision |-> NoDecision, reported |-> NoDecision,
                  steps |-> 0]

Working == review.at = "working" /\ review.steps < MaxSteps

\* Calls that change n files of a kind; created ones count in the workspace.
ChangeFiles(kind, n, lines, risk, created) ==
    /\ Working
    /\ review' = [review EXCEPT !.files[kind] = @ + n, !.lines = @ + lines, !.risk = @ \/ risk,
                                !.repo = @ + (IF created THEN n ELSE 0), !.steps = @ + 1]

\* EscalateClass, when the runway is used up.
EscalateTask ==
    /\ Working /\ review.class # "epic"
    /\ LET i == CHOOSE k \in 1..6 : Classes[k] = review.class
       IN  review' = [review EXCEPT !.class = Classes[i + 1], !.steps = @ + 1]

\* AutoReview: once, when two files or more have changed.
NudgeDue == review.autoReview /\ ~review.nudged /\ FileCount(review.files) >= 2

\* setTaskReviewDecision: the first decision stays.
Settled(decision) == IF review.decision = NoDecision THEN decision ELSE review.decision

\* finalizeReviewStats: with the class the task began with.
Report(decision) ==
    IF decision = NoDecision /\ FileCount(review.files) > 0 /\ review.assessed # "chat"
    THEN Decide(ReviewProfile(review.assessed)) ELSE decision

\* A turn without calls ends the task, or asks for the review first.
AnswerGiven ==
    LET decision == IF NudgeDue THEN Settled(Decide(ReviewProfile(review.class))) ELSE review.decision
    IN  /\ review.at = "working"
        /\ IF NudgeDue /\ decision.tier # "skip"
           THEN review' = [review EXCEPT !.nudged = TRUE, !.decision = decision]
           ELSE review' = [review EXCEPT !.nudged = @ \/ NudgeDue, !.decision = decision,
                                         !.at = "done", !.reported = Report(decision)]

\* A breaker, an error or the user ends the task.
TaskCut ==
    /\ review.at = "working"
    /\ review' = [review EXCEPT !.at = "done", !.reported = Report(review.decision)]

\* resetTaskState, at the next task.
NextReviewTask ==
    /\ review.at = "done" /\ review' = [at |-> "idle"]

ReviewInit == review = [at |-> "idle"]

GatingModes == {"off", "conservative", "default"}

ReviewNext ==
    \/ \E i \in 1..6, mode \in GatingModes, auto \in BOOLEAN, repo \in RepoCounts :
           StartReviewTask(Classes[i], mode, auto, repo)
    \/ \E k \in FileKinds, n \in Batches, l \in LineCounts, risk, created \in BOOLEAN :
           ChangeFiles(k, n, l, risk, created)
    \/ EscalateTask \/ AnswerGiven \/ TaskCut \/ NextReviewTask

-----------------------------------------------------------------------------

\* Doing more never earns less review: one more changed file of any kind, a risk
\* area, or the conservative mode leaves the gate's tier or raises it.
GateIsMonotone ==
    review.at = "working" =>
        LET p == ReviewProfile(review.class) now == TierWeight(Decide(p).tier)
        IN  /\ \A k \in FileKinds : TierWeight(Decide([p EXCEPT !.files[k] = @ + 1]).tier) >= now
            /\ TierWeight(Decide([p EXCEPT !.risk = TRUE]).tier) >= now
            /\ p.mode = "default" => TierWeight(Decide([p EXCEPT !.mode = "conservative"]).tier) >= now

\* A task that is reported to need no review changed, all its steps together,
\* nothing in a risk area and no more than documents or two files: no decision
\* that was taken before a later change is reported for it.
SkippedIsSmall ==
    (review.at = "done" /\ review.reported.tier = "skip" /\ review.mode # "off") =>
        /\ ~review.risk
        /\ ReviewTaskType(review.files) = "docs" \/ FileCount(review.files) <= 2

\* The gate never asks for less after more was done.
ReviewFollowsChange == GateIsMonotone /\ SkippedIsSmall
=============================================================================
