--------------------------- MODULE CheckHarnessProofs ---------------------------
(* Theorems about CheckHarness: for every script, every set of false conditions *)
(* and every exception the initial states allow, and for any length of the      *)
(* loops (Items), a script's status, PASS lines and summary say what was judged.*)
EXTENDS CheckHarness, SequenceTheorems, FiniteSetTheorems, TLAPS

-----------------------------------------------------------------------------
(* The scripts.                                                              *)

\* A plan by findings is a sequence, whatever the findings are called.
LEMMA FindingsIsSequence ==
    ASSUME NEW n \in Nat, NEW k \in Nat
    PROVE  \E S : Findings(n, k) \in Seq(S)
<1> DEFINE S == {(j - 1) \div k + 1 : j \in 1..(n * k)}
<1>1. n * k \in Nat
  OBVIOUS
<1>2. Findings(n, k) \in [1..(n * k) -> S]
  BY DEF Findings
<1> HIDE DEF S
<1>3. Findings(n, k) \in Seq(S)
  BY <1>1, <1>2, SeqDef
<1> QED BY <1>3

\* Two plans, one after the other, have the length of both.
LEMMA ConcatenationLength ==
    ASSUME NEW S, NEW s \in Seq(S), NEW T, NEW t \in Seq(T)
    PROVE  Len(s \o t) \in Nat
<1>1. s \in Seq(S \cup T) /\ t \in Seq(S \cup T)
  BY SeqMonotonic
<1>2. s \o t \in Seq(S \cup T)
  BY <1>1, ConcatProperties
<1> QED BY <1>2, LenProperties

\* Every script judges a finite number of conditions.
LEMMA ScriptLength == \A s \in Scripts : Len(s.plan) \in Nat
<1>1. \A n, k \in Nat : Len(Findings(n, k)) \in Nat
  <2> SUFFICES ASSUME NEW n \in Nat, NEW k \in Nat PROVE Len(Findings(n, k)) \in Nat
    OBVIOUS
  <2>1. PICK S : Findings(n, k) \in Seq(S)
    BY FindingsIsSequence
  <2> QED BY <2>1, LenProperties
<1>2. Len(Findings(3, 3) \o <<4>>) \in Nat
  <2>1. PICK S : Findings(3, 3) \in Seq(S)
    BY FindingsIsSequence
  <2>2. <<4>> \in Seq({4})
    OBVIOUS
  <2> QED BY <2>1, <2>2, ConcatenationLength
<1>3. Len(Findings(1, 3) \o [j \in 1..Items |-> 1]) \in Nat
  <2>1. PICK S : Findings(1, 3) \in Seq(S)
    BY FindingsIsSequence
  <2>2. Items \in Nat
    BY HarnessAssumption
  <2>3. [j \in 1..Items |-> 1] \in [1..Items -> {1}]
    OBVIOUS
  <2>4. [j \in 1..Items |-> 1] \in Seq({1})
    BY <2>2, <2>3, SeqDef
  <2> QED BY <2>1, <2>4, ConcatenationLength
<1>4. \A p : /\ Collects(p).plan = p /\ Totals(p).plan = p /\ Gathers(p).plan = p
             /\ Raises(p).plan = p /\ Tests(p).plan = p /\ \A x : Asserts(p, x).plan = p
  BY DEF Collects, Totals, Gathers, Raises, Tests, Asserts
<1>5. /\ Len(TripleV1.plan) \in Nat /\ Len(TripleV2.plan) \in Nat
      /\ Len(TripleV3.plan) \in Nat /\ Len(TripleV4.plan) \in Nat
      /\ Len(TripleV5.plan) \in Nat /\ Len(Baseline.plan) \in Nat
  BY <1>1, <1>2, <1>4 DEF TripleV1, TripleV2, TripleV3, TripleV4, TripleV5, Baseline
<1>6. /\ Len(VerifyBug049.plan) \in Nat /\ Len(Reverification.plan) \in Nat
      /\ Len(DeepReproduction.plan) \in Nat /\ Len(Reproduction.plan) \in Nat
      /\ Len(EnhancementPremises.plan) \in Nat
  BY <1>1, <1>4 DEF VerifyBug049, Reverification, DeepReproduction, Reproduction,
                    EnhancementPremises
<1>7. /\ Len(AuditIntegrity.plan) \in Nat /\ Len(PlanPaths.plan) \in Nat
      /\ Len(EvidenceExcerpts.plan) \in Nat /\ Len(NewEvidence.plan) \in Nat
      /\ Len(MarkdownLinks.plan) \in Nat
  BY <1>1, <1>3, <1>4, HarnessAssumption
     DEF AuditIntegrity, PlanPaths, EvidenceExcerpts, NewEvidence, MarkdownLinks
<1> QED BY <1>5, <1>6, <1>7 DEF Scripts

\* Every script counts in one of three ways.
LEMMA CountsKinds == \A s \in Scripts : s.counts \in {"findings", "all", "nothing"}
<1>1. \A p : /\ Collects(p).counts = "findings" /\ Totals(p).counts = "all"
             /\ Gathers(p).counts = "all" /\ Raises(p).counts = "all"
             /\ Tests(p).counts = "all" /\ \A x : Asserts(p, x).counts = "nothing"
  BY DEF Collects, Totals, Gathers, Raises, Tests, Asserts
<1> QED
  BY <1>1
  DEF Scripts, TripleV1, TripleV2, TripleV3, TripleV4, TripleV5, VerifyBug049,
      Baseline, Reverification, DeepReproduction, Reproduction, EnhancementPremises,
      AuditIntegrity, PlanPaths, EvidenceExcerpts, NewEvidence, MarkdownLinks

-----------------------------------------------------------------------------
(* What a script has recorded when it stands at pos.                         *)

Report ==
    [S \in Groups |-> [passed |-> Cardinality(S \ failed), total |-> Cardinality(S)]]

Placed ==
    /\ script \in Scripts
    /\ broken \subseteq Checks /\ crash \in 0..Last /\ pos \in 0..Last
    /\ exit \in {"running", "success", "failure"}

Recorded ==
    /\ failed = {k \in 1..pos : ~Holds(k) \/ k = crash}
    /\ printed \subseteq 1..pos \ (IF Stripped THEN {} ELSE broken)
    /\ exit = "running" => summary = NoSummary
    /\ exit = "success" => pos = Last /\ failed = {}
    /\ exit = "failure" => crash # 0 \/ broken # {}
    /\ summary # NoSummary => pos = Last /\ summary = Report

LEMMA RecordedInit == Init => Placed /\ Recorded
<1> SUFFICES ASSUME Init PROVE Placed /\ Recorded
  OBVIOUS
<1>1. Last \in Nat
  BY ScriptLength DEF Init, Last
<1>2. Placed
  <2>1. PICK a, b \in 0..Last : \/ broken = {a, b} \ {0} /\ crash = 0
                                \/ broken = {a} \ {0} /\ crash = b
    BY DEF Init
  <2> QED BY <1>1, <2>1 DEF Init, Placed, Checks
<1>3. 1..pos = {}
  BY DEF Init
<1> QED BY <1>2, <1>3 DEF Init, Recorded

LEMMA RecordedStep == Placed /\ Recorded /\ [Next]_vars => (Placed /\ Recorded)'
<1> SUFFICES ASSUME Placed, Recorded, [Next]_vars PROVE (Placed /\ Recorded)'
  OBVIOUS
<1>0. Last \in Nat /\ pos \in 0..Last
  BY ScriptLength DEF Placed, Last
\* One more condition was judged.
<1>k. ASSUME NEW k \in Checks, k = pos + 1
      PROVE  /\ k \in 1..Last /\ pos \in Nat /\ pos # Last
             /\ 1..k = (1..pos) \cup {k}
             /\ k \notin 1..pos
  BY <1>0, <1>k DEF Checks
\* While the script runs, no part of the report is fixed.
<1>u. ASSUME UNCHANGED <<script, optimized, broken, crash>>
      PROVE  /\ Last' = Last /\ Checks' = Checks /\ Stripped' = Stripped
             /\ \A k : Holds(k)' <=> Holds(k)
             /\ Groups' = Groups
  BY <1>u DEF Last, Checks, Stripped, Holds, Groups, PlanFindings, OfFinding
<1>1. ASSUME NEW k \in Checks, PassCheck(k) PROVE (Placed /\ Recorded)'
  <2>1. /\ exit = "running" /\ k = pos + 1 /\ k # crash /\ Holds(k) /\ pos' = k
        /\ UNCHANGED <<script, optimized, broken, crash, failed, summary, exit>>
    BY <1>1 DEF PassCheck, Judging
  <2>2. Placed'
    BY <2>1, <1>k, <1>u DEF Placed
  <2>3. failed = {j \in 1..k : ~Holds(j) \/ j = crash}
    BY <2>1, <1>k DEF Recorded
  <2>4. printed' \subseteq 1..k \ (IF Stripped THEN {} ELSE broken)
    <3>1. printed' \subseteq printed \cup {k}
      BY <1>1 DEF PassCheck
    <3>2. k \notin (IF Stripped THEN {} ELSE broken)
      BY <2>1 DEF Holds
    <3> QED BY <2>1, <3>1, <3>2, <1>k DEF Recorded
  <2>5. Recorded'
    BY <2>1, <2>3, <2>4, <1>u DEF Recorded
  <2> QED BY <2>2, <2>5
<1>2. ASSUME NEW k \in Checks, RecordFailure(k) PROVE (Placed /\ Recorded)'
  <2>1. /\ exit = "running" /\ k = pos + 1 /\ pos' = k /\ failed' = failed \cup {k}
        /\ ~Holds(k) \/ k = crash
        /\ UNCHANGED <<script, optimized, broken, crash, printed, summary, exit>>
    BY <1>2 DEF RecordFailure, Judging
  <2>2. Placed'
    BY <2>1, <1>k, <1>u DEF Placed
  <2>3. failed' = {j \in 1..k : ~Holds(j) \/ j = crash}
    BY <2>1, <1>k DEF Recorded
  <2>4. printed \subseteq 1..k \ (IF Stripped THEN {} ELSE broken)
    BY <2>1, <1>k DEF Recorded
  <2>5. Recorded'
    BY <2>1, <2>3, <2>4, <1>u DEF Recorded
  <2> QED BY <2>2, <2>5
<1>3. ASSUME NEW k \in Checks, Abort(k) PROVE (Placed /\ Recorded)'
  <2>1. /\ exit = "running" /\ k = pos + 1 /\ exit' = "failure"
        /\ ~Holds(k) \/ k = crash
        /\ UNCHANGED <<script, optimized, broken, crash, pos, failed, printed, summary>>
    BY <1>3 DEF Abort, Judging
  <2>2. crash # 0 \/ broken # {}
    <3>1. k # 0
      BY <1>0 DEF Checks
    <3> QED BY <2>1, <3>1 DEF Holds
  <2>3. Placed'
    BY <2>1, <1>u DEF Placed
  <2>4. Recorded'
    BY <2>1, <2>2, <1>u DEF Recorded
  <2> QED BY <2>3, <2>4
<1>4. CASE Finish
  <2>1. /\ exit = "running" /\ pos = Last
        /\ UNCHANGED <<script, optimized, broken, crash, pos, failed>>
    BY <1>4 DEF Finish
  <2>2. summary' = Report
    BY <1>4 DEF Finish, Report
  <2>3. Report' = Report
    BY <2>1, <1>u DEF Report
  <2>4. printed' \subseteq 1..pos \ (IF Stripped THEN {} ELSE broken)
    <3>1. Checks \ failed \subseteq 1..pos \ (IF Stripped THEN {} ELSE broken)
      BY <2>1 DEF Recorded, Checks, Holds
    <3>2. printed' = printed \/ printed' = Checks \ failed
      BY <1>4 DEF Finish
    <3> QED BY <3>1, <3>2 DEF Recorded
  <2>5. /\ exit' \in {"success", "failure"}
        /\ exit' = "success" => failed = {}
        /\ exit' = "failure" => crash # 0 \/ broken # {}
    <3>1. failed # {} => crash # 0 \/ broken # {}
      <4>1. ASSUME NEW k \in failed PROVE crash # 0 \/ broken # {}
        <5>1. k \in 1..pos /\ (~Holds(k) \/ k = crash)
          BY DEF Recorded
        <5>2. k # 0
          BY <5>1, <1>0
        <5> QED BY <5>1, <5>2 DEF Holds
      <4> QED BY <4>1
    <3> QED BY <1>4, <3>1 DEF Finish
  <2>6. Placed'
    BY <2>1, <2>5, <1>u DEF Placed
  <2>7. failed = {j \in 1..pos : ~Holds(j) \/ j = crash}
    BY DEF Recorded
  <2>8. Recorded'
    BY <2>1, <2>2, <2>3, <2>4, <2>5, <2>7, <1>u DEF Recorded
  <2> QED BY <2>6, <2>8
<1>5. CASE UNCHANGED vars
  <2>1. Placed'
    BY <1>5, <1>u DEF vars, Placed
  <2>2. Report' = Report
    BY <1>5, <1>u DEF vars, Report
  <2>3. Recorded'
    BY <1>5, <1>u, <2>2 DEF vars, Recorded
  <2> QED BY <2>1, <2>3
<1> QED BY <1>1, <1>2, <1>3, <1>4, <1>5 DEF Next

LEMMA RecordedCorrect == Spec => [](Placed /\ Recorded)
  BY RecordedInit, RecordedStep, PTL DEF Spec

-----------------------------------------------------------------------------
(* The properties.                                                           *)

\* The exit status is the verdict: success means that every condition was judged
\* and held, or that -O removed it, and failure that something went wrong.
THEOREM ExitCorrect == Spec => []ExitIsVerdict
<1>1. Placed /\ Recorded => ExitIsVerdict
  <2> SUFFICES ASSUME Placed, Recorded, exit = "success"
               PROVE  pos = Last /\ crash = 0 /\ (broken = {} \/ Stripped)
    BY DEF Recorded, ExitIsVerdict
  <2>1. pos = Last /\ \A k \in 1..Last : Holds(k) /\ k # crash
    BY DEF Recorded
  <2>2. Last \in Nat /\ crash \in 0..Last
    BY ScriptLength DEF Placed, Last
  <2>3. crash = 0
    BY <2>1, <2>2
  <2>4. broken = {} \/ Stripped
    BY <2>1 DEF Placed, Checks, Holds
  <2> QED BY <2>1, <2>3, <2>4
<1> QED BY <1>1, RecordedCorrect, PTL

\* No PASS line is printed for a condition that is false or was not judged.
THEOREM PassLinesCorrect == Spec => []PassLinesAreTrue
<1>1. Recorded => PassLinesAreTrue
  BY DEF Recorded, PassLinesAreTrue
<1> QED BY <1>1, RecordedCorrect, PTL

\* The summary charges each finding, or the script, with its own false conditions, for
\* every division of the checks into findings.
THEOREM SummaryCorrect == Spec => []SummaryIsExact
<1>1. Placed /\ Recorded => SummaryIsExact
  <2> SUFFICES ASSUME Placed, Recorded, summary # NoSummary, crash = 0, ~Stripped,
                      NEW S \in Groups
               PROVE  summary[S].passed = summary[S].total - Cardinality(S \cap broken)
    BY DEF SummaryIsExact
  <2>1. Last \in Nat /\ pos = Last /\ summary = Report
    BY ScriptLength DEF Placed, Recorded, Last
  <2>2. failed = broken
    <3>1. \A k \in 1..Last : k # crash
      BY <2>1
    <3> QED BY <2>1, <3>1 DEF Placed, Recorded, Checks, Holds
  <2>3. summary[S].passed = Cardinality(S \ broken) /\ summary[S].total = Cardinality(S)
    BY <2>1, <2>2 DEF Report
  <2>4. IsFiniteSet(S)
    <3>1. IsFiniteSet(1..Last)
      BY <2>1, FS_Interval
    <3>2. script.counts \in {"findings", "all", "nothing"}
      BY CountsKinds DEF Placed
    <3>3. S \subseteq 1..Last
      BY <3>2 DEF Groups, OfFinding, Checks
    <3> QED BY <3>1, <3>3, FS_Subset
  <2>5. Cardinality(S \ broken) = Cardinality(S) - Cardinality(S \cap broken)
    BY <2>4, FS_Difference
  <2> QED BY <2>3, <2>5
<1> QED BY <1>1, RecordedCorrect, PTL

=============================================================================
