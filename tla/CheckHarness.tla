------------------------------ MODULE CheckHarness ------------------------------
(* The audit's own programs: the check scripts and package validators under    *)
(* docs/ and archive/.  Each judges a fixed sequence of conditions about the   *)
(* audited source and turns them into lines, a summary and an exit status.     *)
(* What a condition looks at is not modelled, only how its truth, or an        *)
(* exception while it is evaluated, reaches whoever reads the result.          *)
EXTENDS Naturals, Sequences, FiniteSets

CONSTANTS
    Items,      \* bound: what a validator's loop goes over (reports, ranges, links)
    NoSummary   \* no summary was printed

ASSUME HarnessAssumption == Items \in Nat \ {0}

-----------------------------------------------------------------------------
(* The scripts: the finding each check belongs to, in the order of the calls,  *)
(* what a false condition does, whether a PASS line is printed with the check, *)
(* at the end or never, and what the summary counts.                           *)

Findings(n, k) == [j \in 1..(n * k) |-> (j - 1) \div k + 1]

\* check() records and goes on; the summary counts by finding ...
Collects(plan) ==
    [plan |-> plan, style |-> "collect", prints |-> "each", counts |-> "findings"]
\* ... or all checks together.
Totals(plan) == [Collects(plan) EXCEPT !.counts = "all"]
\* A loop that gathers errors, and counts them.
Gathers(plan) ==
    [plan |-> plan, style |-> "collect", prints |-> "never", counts |-> "all"]
\* check() raises AssertionError.
Raises(plan) ==
    [plan |-> plan, style |-> "raise", prints |-> "end", counts |-> "all"]
\* Python assert statements, which -O removes; "result=PASS" speaks for all of them.
Asserts(plan, prints) ==
    [plan |-> plan, style |-> "assert", prints |-> prints, counts |-> "nothing"]
\* Test functions run by pytest.
Tests(plan) ==
    [plan |-> plan, style |-> "test", prints |-> "each", counts |-> "all"]

TripleV1 == Collects(Findings(9, 3))
TripleV2 == Collects(Findings(4, 3))
TripleV3 == Collects(Findings(2, 3))
TripleV4 == Collects(Findings(3, 3) \o <<4>>)
TripleV5 == Collects(Findings(3, 3))
VerifyBug049 == Asserts(Findings(1, 3), "each")
Baseline == Totals(Findings(25, 1))
Reverification == Tests(Findings(28, 1))
DeepReproduction == Raises(Findings(15, 1))
Reproduction == Raises(Findings(12, 1))
EnhancementPremises == Raises(Findings(20, 1))
\* Nine groups of assertions: identities, bugs, enhancements, plans, severities,
\* archive, captured outputs, index fragments, patches.
AuditIntegrity == Asserts(Findings(1, 9), "end")
\* Counts, identities, both links of each pair, and the missing paths.
PlanPaths == Asserts(Findings(1, 3) \o [j \in 1..Items |-> 1], "end")
EvidenceExcerpts == Gathers(Findings(1, Items))
NewEvidence == Gathers(Findings(1, Items))
MarkdownLinks == Gathers(Findings(1, Items))

Scripts ==
    {TripleV1, TripleV2, TripleV3, TripleV4, TripleV5, VerifyBug049, Baseline,
     Reverification, DeepReproduction, Reproduction, EnhancementPremises,
     AuditIntegrity, PlanPaths, EvidenceExcerpts, NewEvidence, MarkdownLinks}

VARIABLES
    script,     \* the script that runs
    optimized,  \* the interpreter was started with -O
    broken,     \* the conditions that are false
    crash,      \* the check whose evaluation raises, 0 for none
    pos,        \* checks judged so far
    failed,     \* checks recorded as failed
    printed,    \* checks a PASS was printed for
    summary,    \* per group of checks, what the summary says
    exit        \* "running", or the status

vars == <<script, optimized, broken, crash, pos, failed, printed, summary, exit>>

Last == Len(script.plan)
Checks == 1..Last
OfFinding(f) == {k \in Checks : script.plan[k] = f}
PlanFindings == {script.plan[k] : k \in Checks}

\* The checks that are counted together.
Groups ==
    CASE script.counts = "findings" -> {OfFinding(f) : f \in PlanFindings}
      [] script.counts = "all" -> {Checks}
      [] script.counts = "nothing" -> {}

\* Bound: two things go wrong in one run, false conditions or an exception.
Init ==
    /\ script \in Scripts
    /\ optimized \in BOOLEAN
    /\ \E a, b \in 0..Last :
         \/ broken = {a, b} \ {0} /\ crash = 0
         \/ broken = {a} \ {0} /\ crash = b
    /\ pos = 0 /\ failed = {} /\ printed = {}
    /\ summary = NoSummary /\ exit = "running"

Stripped == optimized /\ script.style = "assert"

\* The condition of check k is evaluated and does not raise.
Judging(k) == exit = "running" /\ k = pos + 1 /\ k \in Checks /\ k # crash
Holds(k) == k \notin broken \/ Stripped

PassCheck(k) ==
    /\ Judging(k) /\ Holds(k)
    /\ pos' = k
    /\ printed' = IF script.prints = "each" THEN printed \cup {k} ELSE printed
    /\ UNCHANGED <<script, optimized, broken, crash, failed, summary, exit>>

\* check() or a loop records the failure; pytest goes on with the next test,
\* after an exception too.
RecordFailure(k) ==
    /\ \/ Judging(k) /\ ~Holds(k) /\ script.style \in {"collect", "test"}
       \/ /\ exit = "running" /\ k = pos + 1 /\ k = crash
          /\ script.style = "test"
    /\ pos' = k
    /\ failed' = failed \cup {k}
    /\ UNCHANGED <<script, optimized, broken, crash, printed, summary, exit>>

\* An uncaught AssertionError or exception: a traceback and status 1.
Abort(k) ==
    /\ \/ Judging(k) /\ ~Holds(k) /\ script.style \in {"raise", "assert"}
       \/ /\ exit = "running" /\ k = pos + 1 /\ k = crash
          /\ script.style # "test"
    /\ exit' = "failure"
    /\ UNCHANGED <<script, optimized, broken, crash, pos, failed, printed, summary>>

\* Faults of the end of a script: a status that ignores the failures; PASS printed for
\* every result; failures charged to every finding.
FinishIgnoresFailures ==
    /\ exit = "running" /\ pos = Last
    /\ exit' = "success"
    /\ UNCHANGED <<script, optimized, broken, crash, pos, failed, printed, summary>>

FinishPrintsAll ==
    /\ exit = "running" /\ pos = Last
    /\ printed' = Checks
    /\ exit' = "failure"
    /\ UNCHANGED <<script, optimized, broken, crash, pos, failed, summary>>

FinishChargesAll ==
    /\ exit = "running" /\ pos = Last
    /\ summary' = [S \in Groups |-> [passed |-> Cardinality(S) - Cardinality(failed),
                                     total |-> Cardinality(S)]]
    /\ exit' = "failure"
    /\ UNCHANGED <<script, optimized, broken, crash, pos, failed, printed>>

\* The end of the script: the lines that were held back, the summary, the status.
Finish ==
    /\ exit = "running" /\ pos = Last
    /\ printed' = IF script.prints = "end" THEN Checks \ failed ELSE printed
    /\ summary' = [S \in Groups |-> [passed |-> Cardinality(S \ failed),
                                     total |-> Cardinality(S)]]
    /\ exit' = IF failed = {} THEN "success" ELSE "failure"
    /\ UNCHANGED <<script, optimized, broken, crash, pos, failed>>

Next ==
    \/ \E k \in Checks : PassCheck(k) \/ RecordFailure(k) \/ Abort(k)
    \/ Finish

Spec == Init /\ [][Next]_vars

-----------------------------------------------------------------------------
(* Properties.                                                               *)

\* A script succeeds exactly when every condition was judged and held, whatever
\* its style, except that an interpreter with -O runs no assert statement.
ExitIsVerdict ==
    /\ exit = "success" => pos = Last /\ crash = 0 /\ (broken = {} \/ Stripped)
    /\ exit = "failure" => crash # 0 \/ broken # {}

\* A PASS line is never printed for a condition that is false or was not judged,
\* also in a run that fails or is cut off by an exception later.
PassLinesAreTrue ==
    printed \subseteq 1..pos \ (IF Stripped THEN {} ELSE broken)

\* The summary counts each finding's own checks, or all of them: no result is
\* attributed to another finding, counted twice or lost.
SummaryIsExact ==
    summary # NoSummary /\ crash = 0 /\ ~Stripped =>
        \A S \in Groups :
            summary[S].passed = summary[S].total - Cardinality(S \cap broken)

=============================================================================
