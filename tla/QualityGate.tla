------------------------------- MODULE QualityGate -------------------------------
(***************************************************************************)
(* What the orchestrator makes of a reviewer's submission (quality/gate.ts *)
(* and completeVerification of quality/service.ts): the reported criteria  *)
(* are aligned with those of the task, and the verdict is recomputed from  *)
(* them and from the mechanical checks.  Texts, findings, fixes and risks  *)
(* are left out; a criterion is told by its wording and by the key that    *)
(* case, punctuation and blanks leave of it.                               *)
(***************************************************************************)
EXTENDS Integers, Sequences

CONSTANTS
    Criteria,       \* wordings of a criterion
    KeyOf,          \* criterionKey
    NoChange        \* wordings that demand that nothing be modified

ASSUME WordingsKnown == KeyOf \in [Criteria -> STRING \cup Criteria] /\ NoChange \subseteq Criteria

-------------------------------------------------------------------------------
Verdicts == {"pass", "reject", "blocked"}
Results == [criterion : Criteria, status : {"satisfied", "failed", "not_verified"}, mandatory : BOOLEAN]
Outcomes == {"passed", "failed", "timed_out", "not_run"}

\* A submission, and what the orchestrator knows of the task and of the attempt.
IsSubmission(s) ==
    /\ s.criteria \in Seq(Criteria) /\ s.results \in Seq(Results) /\ s.checks \subseteq Outcomes
    /\ s.verdict \in Verdicts /\ s.investigation \in BOOLEAN /\ s.untouched \in BOOLEAN

\* parseVerificationResult refuses a criterion reported twice under one wording.
WellFormed(s) ==
    \A i, k \in DOMAIN s.results : s.results[i].criterion = s.results[k].criterion => i = k

\* The first result reported under the key of the i-th criterion.
ReportedAs(s, i) == {k \in DOMAIN s.results : KeyOf[s.results[k].criterion] = KeyOf[s.criteria[i]]}
Named(s, i) == ReportedAs(s, i) # {}
First(s, i) == CHOOSE k \in ReportedAs(s, i) : \A j \in ReportedAs(s, i) : k <= j

\* Results under other names are taken in the order of the criteria, if there are as
\* many of them and none carries a name of the task.
ByPosition(s) ==
    /\ \A i \in DOMAIN s.criteria : ~Named(s, i)
    /\ Len(s.results) = Len(s.criteria)

AlignCriterionResults(s) ==
    IF s.criteria = <<>> THEN s.results
    ELSE [i \in DOMAIN s.criteria |->
            CASE Named(s, i) -> [s.results[First(s, i)] EXCEPT !.criterion = s.criteria[i]]
              [] ~Named(s, i) /\ ByPosition(s) -> [s.results[i] EXCEPT !.criterion = s.criteria[i]]
              [] OTHER -> [criterion |-> s.criteria[i], status |-> "not_verified", mandatory |-> FALSE]]

\* What an investigation that changed nothing is given, when nobody looked.
Exempt(s, row) ==
    row.status = "not_verified" /\ s.investigation /\ s.untouched /\ row.criterion \in NoChange
Judged(s) ==
    LET rows == AlignCriterionResults(s)
    IN  [i \in DOMAIN rows |-> IF Exempt(s, rows[i]) THEN [rows[i] EXCEPT !.status = "satisfied"] ELSE rows[i]]

-------------------------------------------------------------------------------
(* The verdict. The criteria of a task are the reasons to look for; rows of a *)
(* task without criteria count only where the reviewer made them mandatory.   *)

Status(s, status) == \E i \in DOMAIN Judged(s) : Judged(s)[i].status = status
Mandatory(s, status) ==
    \E i \in DOMAIN Judged(s) : Judged(s)[i].mandatory /\ Judged(s)[i].status = status

\* Of a wording that the task repeats the last row is looked up.
Counts(s, i) == \A k \in DOMAIN s.criteria : s.criteria[k] = s.criteria[i] => k <= i
Reason(s, status) == \E i \in DOMAIN s.criteria : Counts(s, i) /\ Judged(s)[i].status = status

FailedCriterion(s) == Mandatory(s, "failed") \/ Reason(s, "failed")
MissingCriterion(s) == Reason(s, "not_verified")
NoEvidence(s) == s.verdict = "pass" /\ Judged(s) = <<>> /\ s.checks = {}
AllSatisfied(s) == Judged(s) # <<>> /\ ~Status(s, "failed") /\ ~Status(s, "not_verified")

\* A reviewer's "blocked" is overruled when every criterion was found satisfied.
EvaluateQualityGate(s) ==
    IF FailedCriterion(s) \/ "failed" \in s.checks THEN "reject"
    ELSE IF MissingCriterion(s) \/ NoEvidence(s) \/ "timed_out" \in s.checks THEN "blocked"
    ELSE IF s.verdict = "pass" /\ Mandatory(s, "not_verified") THEN "blocked"
    ELSE IF s.verdict = "blocked" /\ AllSatisfied(s) THEN "pass"
    ELSE s.verdict

\* completeVerification: a submission that is not well formed is no verdict.
VerdictOn(s) == IF WellFormed(s) THEN EvaluateQualityGate(s) ELSE "invalid"
===============================================================================
