---------------------------- MODULE RoutingSignature ----------------------------
(***************************************************************************)
(* How a prompt is read before anyone is asked about it: the local signals *)
(* of the smart router (src/src/core/smart-routing/index.ts) and the       *)
(* abstract signature routing memory compares rules by                     *)
(* (src/src/core/routing-memory/index.ts).                                 *)
(*                                                                         *)
(* A prompt is a record of what the two files' patterns find in it: `cues` *)
(* (the router's patterns) and `parts` (its clauses), `words` (the         *)
(* memory's patterns) and `clauses`. Scores are in hundredths, similarity  *)
(* in thousandths. The confidence of the analysis, which decides nothing,  *)
(* is left out, and so is what changes the score of a prompt that is       *)
(* simple whatever its score.                                              *)
(***************************************************************************)
EXTENDS Integers, FiniteSets, FiniteSetsExt, SequencesExt

Least(a, b) == IF a < b THEN a ELSE b
Most(a, b) == IF a > b THEN a ELSE b
Distance(a, b) == Most(a, b) - Least(a, b)
If(condition, set) == IF condition THEN set ELSE {}
Has(set, some) == set \cap some # {}

-------------------------------------------------------------------------------
(* Local signals                                                           *)

SignalWeight(code) ==
    CASE code \in {"mutation", "investigation", "multi_step"} -> 14
      [] code \in {"debug_and_fix", "multiple_roles", "research_and_implementation"} -> 12
      [] code \in {"multiple_deliverables", "independent_verification", "audit_review",
                   "iteration_until_success", "release_deployment", "destructive_sensitive"} -> 10
      [] code \in {"tests_requested", "high_consequence"} -> 8
      [] code \in {"repository_scope", "explicit_goal"} -> 6
      [] code = "action_requested" -> 4
      [] OTHER -> 0

StrongSignals == {"mutation", "investigation", "multi_step", "multiple_deliverables",
    "independent_verification", "audit_review", "debug_and_fix", "iteration_until_success",
    "release_deployment", "high_consequence", "destructive_sensitive", "multiple_roles",
    "research_and_implementation"}

\* Cues that are signals as they stand.
PlainCues == {"action_requested", "repository_scope", "mutation", "investigation",
    "multiple_deliverables", "independent_verification", "audit_review", "iteration_until_success",
    "release_deployment", "high_consequence", "destructive_sensitive"}

Work == {"mutation", "investigation", "research", "tests_requested", "independent_verification", "uncertain"}
Checks == {"tests_requested", "independent_verification"}

QuestionOnly(p) == /\ "question" \in p.cues /\ ~Has(p.cues, Work)
                   /\ "action_requested" \in p.cues => "informational_lead" \in p.cues
ExplanationOnly(p) == "explanation" \in p.cues /\ ~Has(p.cues, Work)
MultipleRoles(p) == "mutation" \in p.cues /\ Has(p.cues, Checks \cup {"investigation", "research", "audit_review"})

Signals(p) ==
    (p.cues \cap PlainCues)
    \cup If(ExplanationOnly(p), {"explanation_only"})
    \cup If(QuestionOnly(p), {"question_only"})
    \cup If(p.parts >= 3 \/ "multi_step" \in p.cues, {"multi_step"})
    \cup If("tests_requested" \in p.cues /\ ~QuestionOnly(p), {"tests_requested"})
    \cup If({"investigation", "mutation"} \subseteq p.cues, {"debug_and_fix"})
    \cup If({"research", "mutation"} \subseteq p.cues, {"research_and_implementation"})
    \cup If(MultipleRoles(p), {"multiple_roles"})
    \cup If(/\ "broad_goal" \in p.cues
            /\ p.parts >= 2 \/ Has(p.cues, {"action_requested", "mutation", "repository_scope"}),
            {"explicit_goal"})

MissionScore(p) == MapThenSumSet(SignalWeight, Signals(p))
Strength(p) == Cardinality(Signals(p) \cap StrongSignals)

\* A mutation and nothing that makes more of it.
SingleNarrowMutation(p) ==
    /\ "mutation" \in p.cues /\ Strength(p) = 1
    /\ ~Has(p.cues, Checks \cup {"investigation", "audit_review", "multi_step", "iteration_until_success",
                                 "release_deployment", "broad_goal"})

ClearlySimple(p) ==
    /\ \/ QuestionOnly(p) \/ ExplanationOnly(p) \/ SingleNarrowMutation(p)
       \/ Strength(p) = 0 /\ MissionScore(p) <= 22
    /\ ~MultipleRoles(p) /\ "uncertain" \notin p.cues

ClearlyComplex(p) ==
    /\ ~ClearlySimple(p) /\ "uncertain" \notin p.cues
    /\ \/ Strength(p) >= 2
       \/ MultipleRoles(p)
       \/ Has(p.cues, Checks) /\ Has(p.cues, {"audit_review", "release_deployment"})

LocalPath(p) == IF ClearlySimple(p) THEN "simple" ELSE IF ClearlyComplex(p) THEN "complex" ELSE "ambiguous"

\* Signals that keep a remembered "run normally" from deciding.
HighConsequence(p) == Has(Signals(p), {"high_consequence", "destructive_sensitive"})

-------------------------------------------------------------------------------
(* Signatures                                                              *)

WorkFlags == {"investigation", "mutation", "implementation", "testing", "verification", "audit",
    "remediation", "research", "release", "multiStep", "dependentSteps", "multiRole",
    "sensitive", "destructive"}
Intents == {"explanation", "question", "action"}

\* The flags the words and the signals of a prompt raise by themselves.
Raised(p, s) ==
    (p.words \cap (WorkFlags \cup {"explanation"}))
    \cup If("explanation_only" \in s, {"explanation"})
    \cup If(Has(s, {"investigation", "debug_and_fix"}), {"investigation"})
    \cup If(Has(s, {"mutation", "debug_and_fix"}), {"mutation"})
    \cup If("debug_and_fix" \in s, {"remediation"})
    \cup If("research_and_implementation" \in s, {"implementation", "research"})
    \cup If("tests_requested" \in s, {"testing"})
    \cup If("independent_verification" \in s, {"verification"})
    \cup If("audit_review" \in s, {"audit"})
    \cup If("release_deployment" \in s, {"release"})
    \cup If(Has(s, {"high_consequence", "destructive_sensitive"}), {"sensitive"})
    \cup If("destructive_sensitive" \in s, {"destructive"})
    \cup If("dependent" \in p.words, {"dependentSteps"})

Making == {"mutation", "implementation"}

\* What kinds of work are named: several of them make several steps and several deliverables.
Concepts(f) == Cardinality(If(Has(f, Making), {"making"})
                           \cup (f \cap {"investigation", "testing", "verification", "audit", "research", "release"}))
Deliverables(f, s) ==
    Most(IF "multiple_deliverables" \in s THEN 2 ELSE 1,
         Cardinality(If(Has(f, Making), {"making"}) \cup (f \cap {"testing", "verification", "audit", "research", "release"})))

TaskFamily(f) ==
    LET families == <<
            <<"explanation", "explanation" \in f /\ ~Has(f, {"action", "investigation", "research"})>>,
            <<"question", "question" \in f /\ ~Has(f, {"action", "investigation", "research"})>>,
            <<"release", "release" \in f>>,
            <<"audit", "audit" \in f>>,
            <<"research", "research" \in f>>,
            <<"debug", "investigation" \in f /\ Has(f, Making \cup {"remediation"})>>,
            <<"implementation", "implementation" \in f>>,
            <<"testing", "testing" \in f /\ "mutation" \notin f>>,
            <<"verification", "verification" \in f /\ "mutation" \notin f>>,
            <<"action", Has(f, {"action", "mutation"})>>,
            <<"other", TRUE>> >>
    IN  families[SelectInSeq(families, LAMBDA row : row[2])][1]

Scope(p) ==
    IF "repository_scope" \notin Signals(p) /\ "project" \notin p.words THEN "none"
    ELSE IF "several_projects" \in p.words THEN "multiple"
    ELSE IF "whole_project" \in p.words THEN "repository"
    ELSE IF "module" \in p.words THEN "module" ELSE "file"

RiskOf(f, liveTarget) ==
    IF Has(f, {"sensitive", "destructive"}) \/ ("release" \in f /\ liveTarget) THEN "high"
    ELSE IF Has(f, {"mutation", "multiStep", "multiRole", "release"}) THEN "medium" ELSE "low"

Asks(p, s, raised) ==
    \/ "question_only" \in s \/ "question_mark" \in p.words
    \/ "explanation" \notin raised /\ "question" \in p.words /\ "action" \notin p.words
Acts(p, s, raised) ==
    "action_requested" \in s \/ "action" \in p.words \/ Has(raised, {"mutation", "investigation", "release"})
SeveralSteps(p, s, raised) ==
    \/ Has(s, {"multi_step", "multiple_deliverables", "multiple_roles", "research_and_implementation"})
    \/ "dependentSteps" \in raised \/ Concepts(raised) >= 2 \/ p.clauses >= 3
SeveralRoles(p, s, raised) ==
    \/ Has(s, {"multiple_roles", "research_and_implementation"}) \/ "multi_role" \in p.words
    \/ "investigation" \in raised /\ Has(raised, Making)
    \/ "mutation" \in raised /\ Has(raised, {"testing", "verification"})
    \/ "audit" \in raised /\ Has(raised, {"mutation", "remediation"})

Flags(p, s, raised) ==
    raised \cup If(Asks(p, s, raised), {"question"}) \cup If(Acts(p, s, raised), {"action"})
           \cup If(SeveralSteps(p, s, raised), {"multiStep"})
           \cup If(SeveralRoles(p, s, raised), {"multiRole"})

Described(p, s, raised, flags) ==
    [flags |-> flags, scope |-> Scope(p), family |-> TaskFamily(flags),
     deliverables |-> IF "action" \in flags THEN Least(8, Deliverables(raised, s)) ELSE 0,
     risk |-> RiskOf(flags, "live_target" \in p.words)]

\* buildRoutingSignature
FromRaised(p, s, raised) == Described(p, s, raised, Flags(p, s, raised))
FromSignals(p, s) == FromRaised(p, s, Raised(p, s))
SignatureOf(p) == FromSignals(p, Signals(p))

FlagWeight(flag) ==
    CASE flag = "destructive" -> 24
      [] flag = "sensitive" -> 20
      [] flag \in {"release", "multiStep"} -> 14
      [] flag = "multiRole" -> 12
      [] flag \in {"mutation", "implementation", "audit", "remediation"} -> 10
      [] flag = "research" -> 9
      [] flag \in {"investigation", "verification", "dependentSteps"} -> 8
      [] flag = "testing" -> 6
      [] OTHER -> 0

ComplexityScore(sig) ==
    Least(100, MapThenSumSet(FlagWeight, sig.flags)
               + (IF sig.scope \in {"multiple", "repository"} THEN 8 ELSE 0)
               + (IF sig.deliverables > 1 THEN 10 ELSE 0)
               + (CASE sig.risk = "high" -> 14 [] sig.risk = "medium" -> 4 [] OTHER -> 0))

Risky(sig) == Has(sig.flags, {"sensitive", "destructive"}) \/ sig.risk = "high"
MateriallyEscalated(a, b) ==
    \/ Risky(a) # Risky(b)
    \/ /\ Distance(ComplexityScore(a), ComplexityScore(b)) >= 28
       /\ Most(ComplexityScore(a), ComplexityScore(b)) >= 42

ExplanatoryOnly(sig) == Has(sig.flags, {"explanation", "question"}) /\ sig.flags \subseteq {"explanation", "question"}

\* May a learned "run normally" for b decide the prompt a?
LearnedNormalCompatible_RiskyToo(a, b) == ~MateriallyEscalated(a, b)
LearnedNormalCompatible(a, b) ==
    /\ ~Risky(a) /\ ~MateriallyEscalated(a, b)
    /\ ComplexityScore(a) < 32 \/ ComplexityScore(a) <= ComplexityScore(b) + 12
    /\ a.scope \in {"repository", "multiple"} => b.scope = a.scope
    /\ (a.flags \cap {"release", "sensitive", "destructive", "multiStep", "dependentSteps", "multiRole"}) \subseteq b.flags

Anchored(sig) == Has(sig.flags, WorkFlags \cup {"explanation", "question"}) \/ sig.scope # "none"
KeywordOnly(sig) == /\ Cardinality(sig.flags \cap WorkFlags) <= 1 /\ sig.scope = "none"
                    /\ ~Has(sig.flags, {"explanation", "question"})

\* Agreement of two signatures in each respect, out of 20.
FamilyMatch(x, y) ==
    IF x = y THEN 20
    ELSE IF {x, y} \in {{"debug", "action"}, {"debug", "implementation"}, {"audit", "verification"}} THEN 8 ELSE 0
ScopeMatch(x, y) == IF x = y THEN 20 ELSE IF "none" \in {x, y} THEN 4 ELSE 10
RiskMatch(x, y) == IF x = y THEN 20 ELSE IF "low" \in {x, y} THEN 5 ELSE 10
DeliverablesMatch(m, n) == 20 - 5 * Least(4, Distance(m, n))
ComparedWeight(flag) == IF flag \in {"multiStep", "release", "destructive"} THEN 8 ELSE 6

\* 153 is the sum of the weights: 8 for language, which always agrees, 14, 8, 7, 8 and the flags.
ScoreOf(a, b) ==
    LET agreed == {f \in WorkFlags \cup Intents : f \in a.flags <=> f \in b.flags}
        sum == 20 * (8 + MapThenSumSet(ComparedWeight, agreed))
               + 14 * FamilyMatch(a.family, b.family) + 8 * ScopeMatch(a.scope, b.scope)
               + 7 * DeliverablesMatch(a.deliverables, b.deliverables) + 8 * RiskMatch(a.risk, b.risk)
    IN  (2000 * sum + 20 * 153) \div (2 * 20 * 153)

Similarity(a, b) ==
    IF ExplanatoryOnly(a) # ExplanatoryOnly(b) THEN 50
    ELSE IF MateriallyEscalated(a, b) THEN 80
    ELSE IF a.scope # b.scope /\ Has({a.scope, b.scope}, {"repository", "multiple"}) THEN 120
    ELSE IF ~Anchored(a) \/ ~Anchored(b) \/ (KeywordOnly(a) /\ KeywordOnly(b)) THEN Least(ScoreOf(a, b), 660)
    ELSE ScoreOf(a, b)

================================================================================
