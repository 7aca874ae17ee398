---------------------------- MODULE MissionEvidence ----------------------------
(***************************************************************************)
(* The evidence queue of one mission and its revision number, as the Boss  *)
(* loop and the recovery after a mutation use them (mission/index.ts).     *)
(*                                                                         *)
(* A revision is compared with the current one only, so it is not counted: *)
(* evidence knows whether the revision it was made under is the current    *)
(* one ("now"), an older one ("past") or was not given ("none"), and       *)
(* `fresh` holds the loops whose copy of the mission is the current one.   *)
(***************************************************************************)
EXTENDS Naturals, Sequences, FiniteSets

CONSTANTS
    Tasks,          \* task identities of the mission
    Loops           \* Boss loops that may run on the mission, one per Pi process

VARIABLES
    evidence,       \* the evidence of each task in the order of admission
    fresh,          \* loops that hold the mission's current revision
    begun           \* loops whose task run began under the current revision

revisionVars == <<fresh, begun>>

-------------------------------------------------------------------------------
EvidenceKind == {"implementation-result", "recovery-assessment", "other"}
EvidenceRow == [kind : EvidenceKind, src : {"now", "past", "none"},
                status : {"proposed", "accepted", "rejected", "stale"}]

Aged(e) == [t \in Tasks |-> [i \in DOMAIN e[t] |->
              IF e[t][i].src = "now" THEN [e[t][i] EXCEPT !.src = "past"] ELSE e[t][i]]]

\* The mission gets a new revision, which only `by` know; e is the evidence.
NewRevision(by, e) ==
    /\ fresh' = by
    /\ begun' = {}
    /\ evidence' = Aged(e)

\* admitEvidence: the source revision is that of the run's start, or none.
Admitted(e, t, kind, src) ==
    [e EXCEPT ![t] = Append(@, [kind |-> kind, src |-> src, status |-> "proposed"])]
SourceOf(l) == IF l \in begun THEN "now" ELSE "past"

Proposed(t) == {i \in DOMAIN evidence[t] : evidence[t][i].status = "proposed"}
Reviewed(t, i, status) == [evidence EXCEPT ![t][i].status = status]

\* promoteEvidence: evidence of an older revision is set aside as stale and the call
\* throws; other evidence becomes canonical, which is a new revision of the mission.
PromoteEvidence(t, i) ==
    IF evidence[t][i].src = "past"
      THEN evidence' = Reviewed(t, i, "stale") /\ UNCHANGED revisionVars
      ELSE NewRevision({}, Reviewed(t, i, "accepted"))

RejectEvidence(t, i) == evidence' = Reviewed(t, i, "rejected") /\ UNCHANGED revisionVars

\* recoverySequenceCount: assessments of the task, whatever became of them.
Assessments(t) == Cardinality({i \in DOMAIN evidence[t] : evidence[t][i].kind = "recovery-assessment"})
LastKind(t) == IF evidence[t] = <<>> THEN "none" ELSE evidence[t][Len(evidence[t])].kind
===============================================================================
