------------------------------- MODULE BossProofs -------------------------------
(***************************************************************************)
(* Theorems about the goal loop of a mission: what the gate lets pass, what*)
(* a probe of a route promises, what the budget of a packet leaves out, the*)
(* route the Boss stays on and the one continuation of partial work.       *)
(***************************************************************************)
EXTENDS BossLoop, FiniteSetTheorems, SequenceTheorems, WellFoundedInduction, TLAPS

-------------------------------------------------------------------------------
(* Numbers                                                                 *)

LEMMA LeastOf ==
    ASSUME NEW T, T \subseteq Nat, T # {}
    PROVE  \E x \in T : \A y \in T : x <= y
<1> DEFINE R == OpToRel(<, Nat)
<1>1. PICK x \in T : \A y \in T : ~(<<y, x>> \in R)
      BY NatLessThanWellFounded, WFMin
<1>2. ASSUME NEW y \in T, y < x PROVE <<y, x>> \in R
  <2>1. y \in Nat /\ x \in Nat /\ <<y, x>> \in Nat \X Nat
        OBVIOUS
  <2> QED BY <1>2, <2>1 DEF OpToRel
<1>3. \A y \in T : ~(y < x)
      BY <1>1, <1>2
<1>4. \A a, b \in Nat : ~(a < b) => b <= a
      OBVIOUS
<1> QED BY <1>3, <1>4

LEMMA GreatestOf ==
    ASSUME NEW T, NEW n \in Nat, T \subseteq 0 .. n, T # {}
    PROVE  \E x \in T : \A y \in T : y <= x
<1> DEFINE U == {n - x : x \in T}
<1>1. U \subseteq Nat
      OBVIOUS
<1>2. U # {}
      OBVIOUS
<1>3. PICK u \in U : \A v \in U : u <= v
      BY <1>1, <1>2, LeastOf
<1>4. PICK x \in T : u = n - x
      BY <1>3
<1>5. \A y \in T : n - y \in U
      OBVIOUS
<1>6. ASSUME NEW y \in T PROVE y <= x
  <2>1. n - x <= n - y
        BY <1>3, <1>4, <1>5
  <2> QED BY <2>1
<1> QED BY <1>6

-------------------------------------------------------------------------------
(* The gate                                                                *)

\* The row of a criterion is that of a result reported for it, or says that there is none.
LEMMA RowOf ==
    ASSUME NEW s, IsSubmission(s), NEW i \in DOMAIN s.criteria
    PROVE  LET row == AlignCriterionResults(s)[i] IN
           /\ i \in DOMAIN AlignCriterionResults(s)
           /\ row.criterion = s.criteria[i]
           /\ \/ row.status = "not_verified"
              \/ \E k \in DOMAIN s.results :
                    /\ row.status = s.results[k].status
                    /\ k \in ReportedAs(s, i) \/ (ByPosition(s) /\ k = i)
           /\ row.status \in {"satisfied", "failed", "not_verified"}
<1> DEFINE rows == AlignCriterionResults(s)
           row == rows[i]
           r(k) == [s.results[k] EXCEPT !.criterion = s.criteria[i]]
<1>1. s.criteria # <<>> /\ DOMAIN s.criteria = 1 .. Len(s.criteria)
      BY DEF IsSubmission
<1>2. \A k \in DOMAIN s.results : s.results[k] \in Results
      BY DEF IsSubmission
<1>3. \A k \in DOMAIN s.results : r(k).status = s.results[k].status /\ r(k).criterion = s.criteria[i]
      BY <1>2 DEF Results
<1>4. CASE Named(s, i)
  <2>1. ReportedAs(s, i) \subseteq Nat
        BY DEF ReportedAs, IsSubmission
  <2>2. First(s, i) \in ReportedAs(s, i)
        BY <1>4, <2>1, LeastOf DEF First, Named
  <2>3. First(s, i) \in DOMAIN s.results
        BY <2>2 DEF ReportedAs
  <2>4. i \in DOMAIN rows /\ row = r(First(s, i))
        BY <1>1, <1>4 DEF AlignCriterionResults
  <2> QED BY <1>2, <1>3, <2>2, <2>3, <2>4 DEF Results
<1>5. CASE ~Named(s, i) /\ ByPosition(s)
  <2>1. i \in DOMAIN s.results
        BY <1>5, <1>1 DEF ByPosition, IsSubmission
  <2>2. i \in DOMAIN rows /\ row = r(i)
        BY <1>1, <1>5 DEF AlignCriterionResults
  <2> QED BY <1>2, <1>3, <1>5, <2>1, <2>2 DEF Results
<1>6. CASE ~Named(s, i) /\ ~ByPosition(s)
  <2>1. /\ i \in DOMAIN rows
        /\ row = [criterion |-> s.criteria[i], status |-> "not_verified", mandatory |-> FALSE]
        BY <1>1, <1>6 DEF AlignCriterionResults
  <2> QED BY <2>1
<1> QED BY <1>4, <1>5, <1>6

\* A pass is earned: no mechanical check failed or ran out of time, the reviewer did not reject, and every
\* criterion of the task was reported as satisfied, under its own name or at its place, or demands that
\* nothing be changed of an investigation that changed nothing (evaluateQualityGate, completeVerification).
THEOREM PassIsEarned ==
    ASSUME NEW s, IsSubmission(s), VerdictOn(s) = "pass"
    PROVE  /\ WellFormed(s) /\ s.checks \cap {"failed", "timed_out"} = {} /\ s.verdict # "reject"
           /\ \A i \in DOMAIN s.criteria : Counts(s, i) =>
                 \/ \E k \in DOMAIN s.results :
                       /\ s.results[k].status = "satisfied"
                       /\ k \in ReportedAs(s, i) \/ (ByPosition(s) /\ k = i)
                 \/ s.investigation /\ s.untouched /\ s.criteria[i] \in NoChange
           /\ s.criteria = <<>> => s.results # <<>> \/ s.checks # {}
<1>1. WellFormed(s) /\ EvaluateQualityGate(s) = "pass"
      BY DEF VerdictOn
<1>2. /\ ~FailedCriterion(s) /\ "failed" \notin s.checks
      /\ ~MissingCriterion(s) /\ ~NoEvidence(s) /\ "timed_out" \notin s.checks
      /\ s.verdict = "pass" \/ (s.verdict = "blocked" /\ AllSatisfied(s))
      BY <1>1 DEF EvaluateQualityGate, IsSubmission, Verdicts
<1>3. ASSUME NEW i \in DOMAIN s.criteria, Counts(s, i)
      PROVE  \/ \E k \in DOMAIN s.results :
                   /\ s.results[k].status = "satisfied"
                   /\ k \in ReportedAs(s, i) \/ (ByPosition(s) /\ k = i)
             \/ s.investigation /\ s.untouched /\ s.criteria[i] \in NoChange
  <2> DEFINE row == AlignCriterionResults(s)[i]
  <2>1. /\ i \in DOMAIN AlignCriterionResults(s) /\ row.criterion = s.criteria[i]
        /\ row.status \in {"satisfied", "failed", "not_verified"}
        BY RowOf
  <2>2. Judged(s)[i].status \notin {"failed", "not_verified"}
        BY <1>2, <1>3 DEF FailedCriterion, MissingCriterion, Reason
  <2>3. CASE Exempt(s, row)
        BY <2>1, <2>3 DEF Exempt
  <2>4. CASE ~Exempt(s, row)
    <3>1. Judged(s)[i] = row
          BY <2>1, <2>4 DEF Judged
    <3>2. row.status = "satisfied"
          BY <2>1, <2>2, <3>1
    <3> QED BY <3>2, RowOf
  <2> QED BY <2>3, <2>4
<1>4. ASSUME s.criteria = <<>>, s.results = <<>>, s.checks = {} PROVE FALSE
  <2>1. Judged(s) = <<>>
        BY <1>4 DEF Judged, AlignCriterionResults
  <2> QED BY <1>2, <1>4, <2>1 DEF NoEvidence, AllSatisfied
<1> QED BY <1>1, <1>2, <1>3, <1>4

-------------------------------------------------------------------------------
(* The probe                                                               *)

\* A message that a probe of a route accepts is never, in a mission, taken for an error of the
\* infrastructure or for a cancellation: a route that passed is left for what it says, if at all.
THEOREM ProbeIsSound ==
    ASSUME NEW m, ProbePasses(m), NEW phase
    PROVE  ParseBossAssistantResponse(m, phase) \notin {"infrastructure", "cancelled"}
<1>1. \A d : NormalizeBossDecision(d, phase) \in Actions \cup {"protocol"}
      BY DEF NormalizeBossDecision
<1>2. ParseDecisionText(m, phase) \in Actions \cup {"protocol"}
      BY <1>1 DEF ParseDecisionText
<1>3. ParseBossAssistantResponse(m, phase) \in Actions \cup {"protocol"}
      BY <1>1, <1>2 DEF ParseBossAssistantResponse, ProbePasses
<1> QED BY <1>3 DEF Actions

-------------------------------------------------------------------------------
(* The packet                                                              *)

IsPacket(p) ==
    p \in [items : {p.items}, count : {p.count}, listed : {p.listed}, lists : {p.lists},
           objective : {p.objective}, fixed : {p.fixed}]

LEMMA LongestIs ==
    ASSUME NEW n \in Nat, NEW good, good \subseteq 0 .. n
    PROVE  Longest(good) \in 0 .. n
<1>1. CASE good = {}
      BY <1>1 DEF Longest
<1>2. CASE good # {}
  <2>1. Longest(good) \in good
        BY <1>2, GreatestOf DEF Longest
  <2> QED BY <2>1
<1> QED BY <1>1, <1>2

\* Cutting a list touches nothing else.
LEMMA CutIs ==
    ASSUME NEW p, IsPacket(p), NEW f, NEW n
    PROVE  LET q == Cut(p, f, n) IN
           /\ IsPacket(q) /\ q.items = p.items /\ q.count = p.count /\ q.objective = p.objective
BY DEF IsPacket, Cut

LEMMA TrimIs ==
    ASSUME NEW p, IsPacket(p), NEW f
    PROVE  LET q == Trim(p, f) IN
           /\ IsPacket(q) /\ q.items = p.items /\ q.count = p.count /\ q.objective = p.objective
<1> DEFINE n == Longest({k \in 0 .. Len(p.lists[f]) : Fits(Cut(p, f, k))})
<1>1. Trim(p, f) = Cut(p, f, n)
      BY DEF Trim
<1> HIDE DEF n
<1> QED BY <1>1, CutIs

LEMMA TrimListsIs ==
    ASSUME NEW p, IsPacket(p)
    PROVE  LET q == TrimLists(p) IN
           /\ IsPacket(q) /\ q.items = p.items /\ q.count = p.count /\ q.objective = p.objective
<1> DEFINE a == Trim(p, "priorAttempts")
           b == Trim(a, "constraints")
           c == Trim(b, "relevantArtifactRefs")
           d == Trim(c, "relevantFiles")
           e == Trim(d, "acceptanceCriteria")
           f == Trim(e, "allowedActions")
           g == Trim(f, "allowedTools")
           h == Trim(g, "scopes")
           k == Trim(h, "tags")
           Same(q) == /\ IsPacket(q) /\ q.items = p.items /\ q.count = p.count
                      /\ q.objective = p.objective
<1>1. TrimLists(p) = k
      BY DEF TrimLists
<1>2. Same(a)
      BY TrimIs
<1>3. \A q, x : Same(q) => Same(Trim(q, x))
      BY TrimIs
<1> HIDE DEF Same, a, b, c, d, e, f, g, h, k
<1>4. Same(b) /\ Same(c) /\ Same(d) /\ Same(e)
      BY <1>2, <1>3 DEF b, c, d, e
<1>5. Same(f) /\ Same(g) /\ Same(h) /\ Same(k)
      BY <1>3, <1>4 DEF f, g, h, k
<1> QED BY <1>1, <1>5 DEF Same

\* A packet says how many items it does not hold, and holds the first ones of those selected: whatever the
\* budget cuts, no item is lost without being counted, and none overtakes another (fitPacketBudget).
THEOREM PacketIsAccounted ==
    ASSUME NEW p, IsPacket(p), NEW S, p.items \in Seq(S), p.count \in Nat
    PROVE  LET q == FitPacketBudget(p) IN
           /\ q.items = SubSeq(p.items, 1, Len(q.items)) /\ Len(q.items) <= Len(p.items)
           /\ q.count + Len(q.items) = p.count + Len(p.items)
<1> DEFINE m == Longest({n \in 0 .. p.listed : Fits(ListIds(p, n))})
           a == [p EXCEPT !.listed = m]
           k == Longest({n \in 0 .. Len(a.items) : Fits(KeepItems(a, n))})
           b == KeepItems(a, k)
           c == TrimLists(b)
           q == FitPacketBudget(p)
<1>1. DropIds(p) = a
      BY DEF DropIds, ListIds
<1> HIDE DEF m
<1>2. IsPacket(a) /\ a.items = p.items /\ a.count = p.count
      BY DEF IsPacket
<1> HIDE DEF a
<1>3. DropItems(a) = b
      BY DEF DropItems
<1>4. k \in 0 .. Len(p.items) /\ Len(p.items) \in Nat
  <2>1. Len(a.items) \in Nat
        BY <1>2
  <2> QED BY <1>2, <2>1, LongestIs
<1> HIDE DEF k
<1>5. IsPacket(b) /\ b.items = SubSeq(p.items, 1, k) /\ b.count = p.count + (Len(p.items) - k)
      BY <1>2 DEF KeepItems, IsPacket
<1> HIDE DEF b
<1>6. IsPacket(c) /\ c.items = b.items /\ c.count = b.count
      BY <1>5, TrimListsIs
<1> HIDE DEF c
<1>7. q = ShortenObjective(c)
      BY <1>1, <1>3 DEF FitPacketBudget, c
<1>8. q.items = c.items /\ q.count = c.count
  <2>1. \A n : Shortened(c, n).items = c.items /\ Shortened(c, n).count = c.count
        BY <1>6 DEF Shortened, IsPacket
  <2>2. q = c \/ \E n : q = Shortened(c, n)
        BY <1>7 DEF ShortenObjective
  <2> QED BY <2>1, <2>2
<1>9. Len(SubSeq(p.items, 1, k)) = k
      BY <1>4
<1> HIDE DEF q
<1>10. Len(q.items) = k
      BY <1>5, <1>6, <1>8, <1>9
<1>11. q.count + k = p.count + Len(p.items)
      BY <1>4, <1>5, <1>6, <1>8
<1> QED BY <1>4, <1>5, <1>6, <1>8, <1>10, <1>11 DEF q

-------------------------------------------------------------------------------
(* The evidence of a mission                                               *)

EvidenceOK(e) == e \in [Tasks -> Seq(EvidenceRow)]
Assessed(e, t) == \E i \in DOMAIN e[t] : e[t][i].kind = "recovery-assessment"
SameAssessed(e, f) == \A t \in Tasks : Assessed(f, t) <=> Assessed(e, t)

LEMMA AssessmentsCount ==
    ASSUME EvidenceOK(evidence), NEW t \in Tasks
    PROVE  Assessments(t) < 1 <=> ~Assessed(evidence, t)
<1> DEFINE S == {i \in DOMAIN evidence[t] : evidence[t][i].kind = "recovery-assessment"}
<1>1. IsFiniteSet(DOMAIN evidence[t])
  <2>1. DOMAIN evidence[t] = 1 .. Len(evidence[t]) /\ Len(evidence[t]) \in Nat
        BY DEF EvidenceOK
  <2> QED BY <2>1, FS_Interval
<1>2. IsFiniteSet(S)
      BY <1>1, FS_Subset
<1>3. Cardinality(S) \in Nat /\ (Cardinality(S) = 0 <=> S = {})
      BY <1>2, FS_CardinalityType, FS_EmptySet
<1>4. Assessments(t) = Cardinality(S)
      BY DEF Assessments
<1>5. S = {} <=> ~Assessed(evidence, t)
      BY DEF Assessed
<1> HIDE DEF S
<1> QED BY <1>3, <1>4, <1>5

LEMMA RowsChange ==
    ASSUME NEW r \in EvidenceRow
    PROVE  /\ [r EXCEPT !.src = "past"] \in EvidenceRow /\ [r EXCEPT !.src = "past"].kind = r.kind
           /\ \A status \in {"proposed", "accepted", "rejected", "stale"} :
                 /\ [r EXCEPT !.status = status] \in EvidenceRow
                 /\ [r EXCEPT !.status = status].kind = r.kind
BY DEF EvidenceRow

LEMMA AgedKeeps == ASSUME NEW e, EvidenceOK(e) PROVE EvidenceOK(Aged(e)) /\ SameAssessed(e, Aged(e))
<1> DEFINE f == Aged(e)
<1>1. ASSUME NEW t \in Tasks
      PROVE  /\ f[t] \in Seq(EvidenceRow) /\ DOMAIN f[t] = DOMAIN e[t]
             /\ \A i \in DOMAIN e[t] : f[t][i].kind = e[t][i].kind
  <2> DEFINE n == Len(e[t])
             row(i) == IF e[t][i].src = "now" THEN [e[t][i] EXCEPT !.src = "past"] ELSE e[t][i]
  <2>1. n \in Nat /\ DOMAIN e[t] = 1 .. n /\ \A i \in 1 .. n : e[t][i] \in EvidenceRow
        BY <1>1 DEF EvidenceOK
  <2>2. \A i \in 1 .. n : row(i) \in EvidenceRow /\ row(i).kind = e[t][i].kind
        BY <2>1, RowsChange
  <2>3. f[t] = [i \in 1 .. n |-> row(i)]
        BY <1>1, <2>1 DEF Aged
  <2> HIDE DEF row, n, f
  <2>4. f[t] \in Seq(EvidenceRow)
        BY <2>1, <2>2, <2>3
  <2> QED BY <2>1, <2>2, <2>3, <2>4
<1>2. f = [t \in Tasks |-> f[t]]
      BY DEF Aged
<1> HIDE DEF f
<1>3. f \in [Tasks -> Seq(EvidenceRow)]
      BY <1>1, <1>2
<1>4. SameAssessed(e, f)
      BY <1>1 DEF SameAssessed, Assessed
<1> QED BY <1>3, <1>4 DEF EvidenceOK, f

LEMMA ReviewedKeeps ==
    ASSUME EvidenceOK(evidence), NEW t \in Tasks, NEW i \in DOMAIN evidence[t],
           NEW status \in {"proposed", "accepted", "rejected", "stale"}
    PROVE  EvidenceOK(Reviewed(t, i, status)) /\ SameAssessed(evidence, Reviewed(t, i, status))
<1> DEFINE f == Reviewed(t, i, status)
           row == [evidence[t][i] EXCEPT !.status = status]
           g == [evidence[t] EXCEPT ![i] = row]
<1>1. evidence[t] \in Seq(EvidenceRow) /\ evidence[t][i] \in EvidenceRow
      BY DEF EvidenceOK
<1>2. row \in EvidenceRow /\ row.kind = evidence[t][i].kind
      BY <1>1, RowsChange
<1> HIDE DEF row
<1>3. g \in Seq(EvidenceRow) /\ DOMAIN g = DOMAIN evidence[t]
      BY <1>1, <1>2
<1>4. \A k \in DOMAIN evidence[t] : g[k].kind = evidence[t][k].kind
      BY <1>2
<1>5. f = [evidence EXCEPT ![t] = g]
      BY DEF Reviewed, row
<1> HIDE DEF g, f
<1>6. EvidenceOK(f)
      BY <1>3, <1>5 DEF EvidenceOK
<1>7. \A k \in Tasks : f[k] = IF k = t THEN g ELSE evidence[k]
      BY <1>5 DEF EvidenceOK
<1>8. SameAssessed(evidence, f)
      BY <1>3, <1>4, <1>7 DEF SameAssessed, Assessed
<1> QED BY <1>6, <1>8 DEF f

LEMMA AdmittedKeeps ==
    ASSUME NEW e, EvidenceOK(e), NEW t \in Tasks, NEW kind \in EvidenceKind, NEW src \in {"now", "past", "none"}
    PROVE  LET f == Admitted(e, t, kind, src) IN
           /\ EvidenceOK(f)
           /\ \A k \in Tasks : Assessed(f, k) <=> Assessed(e, k) \/ (k = t /\ kind = "recovery-assessment")
<1> DEFINE row == [kind |-> kind, src |-> src, status |-> "proposed"]
           g == Append(e[t], row)
           f == Admitted(e, t, kind, src)
<1>1. row \in EvidenceRow /\ row.kind = kind
      BY DEF EvidenceRow
<1> HIDE DEF row
<1>2. e[t] \in Seq(EvidenceRow)
      BY DEF EvidenceOK
<1>3. /\ g \in Seq(EvidenceRow) /\ Len(g) = Len(e[t]) + 1 /\ g[Len(e[t]) + 1] = row
      /\ \A i \in 1 .. Len(e[t]) : g[i] = e[t][i]
      BY <1>1, <1>2
<1>4. f = [e EXCEPT ![t] = g]
      BY DEF Admitted, row
<1> HIDE DEF g, f
<1>5. EvidenceOK(f)
      BY <1>3, <1>4 DEF EvidenceOK
<1>6. \A k \in Tasks : f[k] = IF k = t THEN g ELSE e[k]
      BY <1>4 DEF EvidenceOK
<1>7. DOMAIN g = DOMAIN e[t] \cup {Len(g)} /\ DOMAIN e[t] = 1 .. Len(e[t])
  <2> DEFINE n == Len(e[t])
  <2>1. DOMAIN g = 1 .. (n + 1) /\ DOMAIN e[t] = 1 .. n /\ n \in Nat /\ Len(g) = n + 1
        BY <1>2, <1>3
  <2> HIDE DEF n
  <2>2. 1 .. (n + 1) = 1 .. n \cup {n + 1}
        BY <2>1
  <2> QED BY <2>1, <2>2 DEF n
<1>8. (\E i \in DOMAIN g : g[i].kind = "recovery-assessment")
        <=> (\E i \in DOMAIN e[t] : e[t][i].kind = "recovery-assessment") \/ kind = "recovery-assessment"
  <2>1. Len(g) \in DOMAIN g /\ g[Len(g)].kind = kind
        BY <1>1, <1>3, <1>7
  <2>2. \A i \in DOMAIN e[t] : i \in DOMAIN g /\ g[i] = e[t][i]
        BY <1>3, <1>7
  <2>3. \A i \in DOMAIN g : i \in DOMAIN e[t] \/ i = Len(g)
        BY <1>7
  <2> QED BY <2>1, <2>2, <2>3
<1>9. \A k \in Tasks : Assessed(f, k) <=> Assessed(e, k) \/ (k = t /\ kind = "recovery-assessment")
      BY <1>6, <1>8 DEF Assessed
<1> QED BY <1>5, <1>9 DEF f

-------------------------------------------------------------------------------
(* The route of the Boss and the recovery, where one process works on a    *)
(* mission. With more than one neither holds: a loop reads the mission     *)
(* again after a pass, but not the state it keeps of it.                   *)

OneLoop == \A l, k \in Loops : l = k

\* Records by their fields, whatever the fields hold.
IsState(s) ==
    s \in [cycle : {s.cycle}, on : {s.on}, history : {s.history}, err : {s.err}, fp : {s.fp},
           count : {s.count}, terminal : {s.terminal}]
IsLoop(x) ==
    x \in [pc : {x.pc}, st : {x.st}, cycle : {x.cycle}, repeated : {x.repeated}, left : {x.left},
           task : {x.task}, words : {x.words}, item : {x.item}]

SameBoss(s, o) == s.on = o.on /\ s.history = o.history
WithTask == {"working", "continuing", "assessing", "deciding", "verifying", "reviewing", "promoting", "judging"}

\* A loop at work has the route and the fallbacks of the mission; what it is about to
\* assess was never assessed, and what it is about to go on with was never gone on with.
LoopOK(x, o, e, c) ==
    /\ IsLoop(x) /\ IsState(x.st)
    /\ x.pc # "idle" => SameBoss(x.st, o)
    /\ x.pc \in WithTask => x.task \in Tasks
    /\ x.pc = "assessing" => ~Assessed(e, x.task)
    /\ x.pc = "deciding" => Assessed(e, x.task) /\ c[x.task] = 0

\* The inductive invariant.
BossInv ==
    /\ EvidenceOK(evidence) /\ IsState(orch)
    /\ loop = [l \in Loops |-> loop[l]]
    /\ continued \in [Tasks -> 0 .. 1]
    /\ \A t \in Tasks : continued[t] = 1 => Assessed(evidence, t)
    /\ \A l \in Loops : LoopOK(loop[l], orch, evidence, continued)

\* What PinnedBoss says of one write of the state.
PinChange(o, n) ==
    n.on # o.on => \/ o.on = NoRoute
                   \/ [from |-> o.on, to |-> n.on] \in n.history /\ n.on \notin FailedRoutes(o)

LEMMA NoLoopOK == IsLoop(NoLoop) /\ IsState(NoLoop.st) /\ NoLoop.pc = "idle" /\ IsState(DefaultState)
BY DEF NoLoop, DefaultState, IsLoop, IsState

\* A step of the loop that leaves the recovery alone.
LEMMA LoopMoves ==
    ASSUME BossInv, OneLoop, NEW l \in Loops, NEW x, loop' = [loop EXCEPT ![l] = x],
           IsLoop(x), IsState(x.st), x.pc # "idle" => SameBoss(x.st, orch'), IsState(orch'),
           x.pc \in WithTask => x.task \in Tasks, x.pc \notin {"assessing", "deciding"},
           EvidenceOK(evidence'), SameAssessed(evidence, evidence'), UNCHANGED continued
    PROVE  BossInv'
<1>1. loop' = [k \in Loops |-> x]
      BY DEF BossInv, OneLoop
<1>2. LoopOK(x, orch', evidence', continued')
      BY DEF LoopOK
<1> QED BY <1>1, <1>2 DEF BossInv, SameAssessed

LEMMA Revised ==
    ASSUME EvidenceOK(evidence), NEW by, NEW e, EvidenceOK(e), SameAssessed(evidence, e), NewRevision(by, e)
    PROVE  EvidenceOK(evidence') /\ SameAssessed(evidence, evidence')
BY AgedKeeps DEF NewRevision, SameAssessed

\* persistState, of a state that has the mission's route or is left by a fallback.
LEMMA SaveKeeps ==
    ASSUME BossInv, OneLoop, NEW l \in Loops, NEW s, IsState(s), PinChange(orch, s), NEW pc, pc \notin WithTask,
           Save(l, s, pc), UNCHANGED continued
    PROVE  BossInv' /\ PinChange(orch, orch')
<1>1. /\ IsLoop(loop[l]) /\ loop = [k \in Loops |-> loop[k]] /\ EvidenceOK(evidence) /\ IsState(orch)
      /\ SameAssessed(evidence, evidence)
      BY DEF BossInv, LoopOK, SameAssessed
<1>2. CASE l \in fresh
  <2> DEFINE x == [loop[l] EXCEPT !.st = s, !.pc = pc]
  <2>1. IsLoop(x) /\ x.st = s /\ x.pc = pc /\ x.task = loop[l].task
        BY <1>1 DEF IsLoop
  <2>2. loop' = [loop EXCEPT ![l] = x] /\ orch' = s /\ NewRevision({l}, evidence)
        BY <1>1, <1>2 DEF Save
  <2> HIDE DEF x
  <2>3. x.pc \notin WithTask /\ x.pc \notin {"assessing", "deciding"}
        BY <2>1 DEF WithTask
  <2> QED BY <1>1, <2>1, <2>2, <2>3, LoopMoves, Revised DEF SameBoss
<1>3. CASE l \notin fresh
  <2>1. loop' = [loop EXCEPT ![l] = NoLoop] /\ UNCHANGED <<orch, evidence>>
        BY <1>3 DEF Save, Stop
  <2>2. NoLoop.pc \notin WithTask
        BY NoLoopOK DEF WithTask
  <2> QED BY <1>1, <2>1, <2>2, NoLoopOK, LoopMoves DEF PinChange
<1> QED BY <1>2, <1>3

LEMMA CloseKeeps ==
    ASSUME BossInv, OneLoop, NEW l \in Loops, loop[l].pc # "idle", NEW s, IsState(s), SameBoss(s, loop[l].st),
           NEW end, Close(l, s, end), UNCHANGED continued
    PROVE  BossInv' /\ PinChange(orch, orch')
<1> DEFINE n == [s EXCEPT !.terminal = end]
<1>1. IsState(n) /\ SameBoss(n, s)
      BY DEF IsState, SameBoss
<1>2. Save(l, n, "closing")
      BY DEF Close
<1> HIDE DEF n
<1>3. PinChange(orch, n) /\ "closing" \notin WithTask
      BY <1>1 DEF BossInv, LoopOK, SameBoss, PinChange, WithTask
<1> QED BY <1>1, <1>2, <1>3, SaveKeeps

LEMMA PersistKeeps ==
    ASSUME BossInv, OneLoop, NEW l \in Loops, loop[l].pc # "idle", NEW s, IsState(s), SameBoss(s, loop[l].st),
           NEW x, IsLoop(x), IsState(x.st), SameBoss(x.st, s), x.pc \notin WithTask,
           orch' = s, NewRevision({l}, evidence), loop' = [loop EXCEPT ![l] = x], UNCHANGED continued
    PROVE  BossInv' /\ PinChange(orch, orch')
<1>1. EvidenceOK(evidence') /\ SameAssessed(evidence, evidence')
      BY Revised DEF BossInv, SameAssessed
<1>2. x.pc \notin {"assessing", "deciding"}
      BY DEF WithTask
<1> QED BY <1>1, <1>2, LoopMoves DEF BossInv, LoopOK, SameBoss, PinChange

LEMMA WorkKeeps ==
    ASSUME BossInv, OneLoop, NEW l \in Loops, loop[l].pc # "idle", NEW x, loop' = [loop EXCEPT ![l] = x],
           IsLoop(x), IsState(x.st), SameBoss(x.st, loop[l].st), x.pc \notin {"assessing", "deciding"},
           x.pc \in WithTask => x.task \in Tasks, UNCHANGED <<orch, continued>>,
           EvidenceOK(evidence'), SameAssessed(evidence, evidence')
    PROVE  BossInv' /\ PinChange(orch, orch')
<1>1. IsState(orch') /\ SameBoss(x.st, orch')
      BY DEF BossInv, LoopOK, SameBoss, IsState
<1> QED BY <1>1, LoopMoves DEF PinChange

LEMMA SameEvidence ==
    ASSUME BossInv, UNCHANGED evidence
    PROVE  EvidenceOK(evidence') /\ SameAssessed(evidence, evidence')
BY DEF BossInv, SameAssessed

LEMMA GotoKeeps ==
    ASSUME BossInv, OneLoop, NEW l \in Loops, loop[l].pc # "idle", NEW pc, pc \notin {"assessing", "deciding"},
           pc \in WithTask => loop[l].task \in Tasks, Goto(l, pc), UNCHANGED <<orch, continued>>,
           EvidenceOK(evidence'), SameAssessed(evidence, evidence')
    PROVE  BossInv' /\ PinChange(orch, orch')
<1> DEFINE x == [loop[l] EXCEPT !.pc = pc]
<1>1. IsLoop(loop[l]) /\ IsState(loop[l].st)
      BY DEF BossInv, LoopOK
<1>2. IsLoop(x) /\ x.st = loop[l].st /\ x.pc = pc /\ x.task = loop[l].task
      BY <1>1 DEF IsLoop
<1>3. loop' = [loop EXCEPT ![l] = x]
      BY DEF Goto
<1> HIDE DEF x
<1> QED BY <1>1, <1>2, <1>3, WorkKeeps DEF SameBoss

LEMMA StopKeeps ==
    ASSUME BossInv, OneLoop, NEW l \in Loops, Stop(l), UNCHANGED continued, IsState(orch'), PinChange(orch, orch'),
           EvidenceOK(evidence'), SameAssessed(evidence, evidence')
    PROVE  BossInv' /\ PinChange(orch, orch')
<1>1. loop' = [loop EXCEPT ![l] = NoLoop] /\ NoLoop.pc \notin WithTask /\ NoLoop.pc \notin {"assessing", "deciding"}
      BY NoLoopOK DEF Stop, WithTask
<1> QED BY <1>1, NoLoopOK, LoopMoves

\* The status of a mission as a loop that stops leaves it.
LEMMA FinishCloseKeeps ==
    ASSUME BossInv, OneLoop, NEW l \in Loops, FinishClose(l)
    PROVE  BossInv' /\ PinChange(orch, orch')
<1>1. UNCHANGED <<orch, continued>> /\ loop[l].pc = "closing"
      BY DEF FinishClose, At
<1>2. IsState(orch') /\ PinChange(orch, orch')
      BY <1>1 DEF BossInv, IsState, PinChange
<1>3. EvidenceOK(evidence') /\ SameAssessed(evidence, evidence')
  <2>1. UNCHANGED evidence \/ NewRevision({l}, evidence)
        BY DEF FinishClose, SetStatus
  <2> QED BY <2>1, SameEvidence, Revised DEF BossInv, SameAssessed
<1>4. CASE UNCHANGED loop
  <2>1. loop' = [loop EXCEPT ![l] = loop[l]] /\ IsLoop(loop[l]) /\ IsState(loop[l].st)
        BY <1>4 DEF BossInv, LoopOK
  <2>2. loop[l].pc \notin {"assessing", "deciding"} /\ loop[l].pc \notin WithTask /\ loop[l].pc # "idle"
        BY <1>1 DEF WithTask
  <2> QED BY <1>1, <1>3, <2>1, <2>2, WorkKeeps DEF SameBoss
<1>5. CASE Stop(l)
      BY <1>1, <1>2, <1>3, <1>5, StopKeeps
<1> DEFINE target == MissionStatusFor(St(l).terminal)
           steps == l \in fresh /\ target = "completed" /\ mission = "running"
<1>6. CASE steps
      BY <1>4, <1>6 DEF FinishClose
<1>7. CASE ~steps
      BY <1>5, <1>7 DEF FinishClose
<1> QED BY <1>6, <1>7

LEMMA BeginKeeps ==
    ASSUME BossInv, OneLoop, NEW l \in Loops, Begin(l)
    PROVE  BossInv' /\ PinChange(orch, orch')
<1> DEFINE x == [NoLoop EXCEPT !.pc = "assigning", !.st = orch, !.cycle = orch.cycle]
<1>1. IsLoop(x) /\ x.st = orch /\ x.pc = "assigning"
      BY NoLoopOK DEF IsLoop
<1>2. loop' = [loop EXCEPT ![l] = x] /\ UNCHANGED <<orch, continued>>
      BY DEF Begin
<1>3. EvidenceOK(evidence') /\ SameAssessed(evidence, evidence')
  <2>1. UNCHANGED evidence \/ NewRevision({l}, evidence)
        BY DEF Begin, SetStatus
  <2> QED BY <2>1, SameEvidence, Revised DEF BossInv, SameAssessed
<1> HIDE DEF x
<1>4. IsState(orch) /\ IsState(orch') /\ SameBoss(x.st, orch') /\ x.pc \notin WithTask
      BY <1>1, <1>2 DEF BossInv, SameBoss, IsState, WithTask
<1>5. x.pc \notin {"assessing", "deciding"}
      BY <1>1
<1> QED BY <1>1, <1>2, <1>3, <1>4, <1>5, LoopMoves DEF PinChange

\* The assignment of a route, and its change by a fallback.
LEMMA RoutesKeep ==
    ASSUME BossInv, OneLoop, NEW l \in Loops, Assign(l) \/ StartCycle(l) \/ InfrastructureFails(l)
    PROVE  BossInv' /\ PinChange(orch, orch')
<1> DEFINE s == loop[l].st
<1>1. IsLoop(loop[l]) /\ IsState(s) /\ (loop[l].pc # "idle" => SameBoss(s, orch))
      BY DEF BossInv, LoopOK
<1>2. UNCHANGED continued
      BY DEF Assign, StartCycle, InfrastructureFails
<1>3. CASE Assign(l)
  <2>1. loop[l].pc = "assigning"
        BY <1>3 DEF Assign, At
  <2>2. \/ \E end : Close(l, s, end)
        \/ \E x : s.on = NoRoute /\ Save(l, [s EXCEPT !.on = x], "cycling")
        \/ Goto(l, "cycling") /\ UNCHANGED <<orch, evidence>>
        BY <1>3 DEF Assign, Cancel, St
  <2>3. ASSUME NEW x, s.on = NoRoute, Save(l, [s EXCEPT !.on = x], "cycling")
        PROVE  BossInv' /\ PinChange(orch, orch')
    <3> DEFINE n == [s EXCEPT !.on = x]
    <3>1. IsState(n)
          BY <1>1 DEF IsState
    <3>2. PinChange(orch, n)
          BY <1>1, <2>1, <2>3 DEF PinChange, SameBoss
    <3> HIDE DEF n
    <3>3. "cycling" \notin WithTask
          BY DEF WithTask
    <3>4. Save(l, n, "cycling")
          BY <2>3 DEF n
    <3> QED BY <1>2, <3>1, <3>2, <3>3, <3>4, SaveKeeps
  <2>4. CASE \E end : Close(l, s, end)
        BY <1>1, <1>2, <2>1, <2>4, CloseKeeps DEF SameBoss
  <2>5. CASE Goto(l, "cycling") /\ UNCHANGED <<orch, evidence>>
        BY <1>2, <2>1, <2>5, SameEvidence, GotoKeeps DEF WithTask
  <2> QED BY <2>2, <2>3, <2>4, <2>5
<1>4. CASE StartCycle(l)
  <2> DEFINE n == [s EXCEPT !.cycle = loop[l].cycle]
  <2>1. loop[l].pc = "cycling" /\ ((\E end : Close(l, s, end)) \/ Save(l, n, "planning"))
        BY <1>4 DEF StartCycle, Cancel, At, St
  <2>2. IsState(n) /\ SameBoss(n, s)
        BY <1>1 DEF IsState, SameBoss
  <2> HIDE DEF n
  <2>3. PinChange(orch, n) /\ "planning" \notin WithTask
        BY <1>1, <2>1, <2>2 DEF PinChange, SameBoss, WithTask
  <2> QED BY <1>1, <1>2, <2>1, <2>2, <2>3, CloseKeeps, SaveKeeps DEF SameBoss
<1>5. CASE InfrastructureFails(l)
  <2> DEFINE x == SelectBossFallbackEntry(s)
             n == [s EXCEPT !.on = x, !.history = @ \cup {[from |-> s.on, to |-> x]}]
  <2>1. loop[l].pc \in {"planning", "evaluating"}
        BY <1>5 DEF InfrastructureFails, Asking, At
  <2>2. CASE Fallbacks(s) = {}
    <3>1. Close(l, s, "BLOCKED")
          BY <1>5, <2>2 DEF InfrastructureFails, St
    <3> QED BY <1>1, <1>2, <2>1, <3>1, CloseKeeps DEF SameBoss
  <2>3. CASE Fallbacks(s) # {}
    <3>1. Fallbacks(s) \subseteq Nat
      <4>1. DOMAIN Entries \subseteq Nat
            BY EntriesOrdered
      <4> QED BY <4>1 DEF Fallbacks
    <3>2. x \notin FailedRoutes(s)
          BY <2>3, <3>1, LeastOf DEF SelectBossFallbackEntry, Fallbacks
    <3>3. Save(l, n, loop[l].pc)
          BY <1>5, <2>3 DEF InfrastructureFails, St
    <3> HIDE DEF x
    <3>4. IsState(n) /\ n.on = x /\ [from |-> s.on, to |-> x] \in n.history
          BY <1>1 DEF IsState
    <3> HIDE DEF n
    <3>5. FailedRoutes(orch) = FailedRoutes(s) /\ orch.on = s.on
          BY <1>1, <2>1 DEF FailedRoutes, SameBoss
    <3>6. PinChange(orch, n)
          BY <3>2, <3>4, <3>5 DEF PinChange
    <3>7. loop[l].pc \notin WithTask
          BY <2>1 DEF WithTask
    <3> QED BY <1>2, <2>1, <3>3, <3>4, <3>6, <3>7, SaveKeeps
  <2> QED BY <2>2, <2>3
<1> QED BY <1>3, <1>4, <1>5

\* What an answer of the Boss makes of the round.
LEMMA AnswersKeep ==
    ASSUME BossInv, OneLoop, NEW l \in Loops, BossAnswers(l)
    PROVE  BossInv' /\ PinChange(orch, orch')
<1> DEFINE s == loop[l].st
<1>1. IsLoop(loop[l]) /\ IsState(s) /\ IsState(orch) /\ EvidenceOK(evidence)
      BY DEF BossInv, LoopOK
<1>2. ASSUME NEW answer, BossAborts(l, answer) PROVE BossInv' /\ PinChange(orch, orch')
  <2>1. loop[l].pc # "idle" /\ UNCHANGED continued /\ \E end : Close(l, s, end)
        BY <1>2 DEF BossAborts, Asking, At, St
  <2> QED BY <1>1, <2>1, CloseKeeps DEF SameBoss
<1>3. ASSUME NEW e, ProtocolFails(l, e) PROVE BossInv' /\ PinChange(orch, orch')
  <2> DEFINE n == [s EXCEPT !.err = e]
             x == [loop[l] EXCEPT !.st = n, !.pc = "cycling", !.cycle = @ + 1, !.repeated = RepeatedError(l, e)]
  <2>1. loop[l].pc # "idle" /\ UNCHANGED continued
        BY <1>3 DEF ProtocolFails, Asking, At
  <2>2. \/ Close(l, n, "AWAITING_USER")
        \/ orch' = n /\ NewRevision({l}, evidence) /\ loop' = [loop EXCEPT ![l] = x]
        \/ Stop(l) /\ UNCHANGED <<orch, evidence>>
        BY <1>1, <1>3 DEF ProtocolFails, St
  <2>3. IsState(n) /\ SameBoss(n, s)
        BY <1>1 DEF IsState, SameBoss
  <2> HIDE DEF n
  <2>4. IsLoop(x) /\ x.st = n /\ x.pc = "cycling"
        BY <1>1 DEF IsLoop
  <2> HIDE DEF x
  <2>5. CASE Close(l, n, "AWAITING_USER")
        BY <2>1, <2>3, <2>5, CloseKeeps
  <2>6. CASE orch' = n /\ NewRevision({l}, evidence) /\ loop' = [loop EXCEPT ![l] = x]
        BY <2>1, <2>3, <2>4, <2>6, PersistKeeps DEF SameBoss, WithTask
  <2>7. CASE Stop(l) /\ UNCHANGED <<orch, evidence>>
        BY <1>1, <2>1, <2>7, StopKeeps, SameEvidence DEF PinChange
  <2> QED BY <2>2, <2>5, <2>6, <2>7
<1>4. ASSUME NEW action, NEW satisfied, PlanDecided(l, action, satisfied) PROVE BossInv' /\ PinChange(orch, orch')
  <2> DEFINE x == [loop[l] EXCEPT !.pc = "choosing", !.left = MaxTasks]
  <2>1. loop[l].pc # "idle" /\ UNCHANGED continued
        BY <1>4 DEF PlanDecided, At
  <2>2. \/ \E end : Close(l, s, end)
        \/ orch' = s /\ NewRevision({l}, evidence) /\ loop' = [loop EXCEPT ![l] = x]
        \/ Stop(l) /\ UNCHANGED <<orch, evidence>>
        BY <1>1, <1>4 DEF PlanDecided, St
  <2>3. IsLoop(x) /\ x.st = s /\ x.pc = "choosing"
        BY <1>1 DEF IsLoop
  <2> HIDE DEF x
  <2>4. CASE \E end : Close(l, s, end)
        BY <1>1, <2>1, <2>4, CloseKeeps DEF SameBoss
  <2>5. CASE orch' = s /\ NewRevision({l}, evidence) /\ loop' = [loop EXCEPT ![l] = x]
        BY <1>1, <2>1, <2>3, <2>5, PersistKeeps DEF SameBoss, WithTask
  <2>6. CASE Stop(l) /\ UNCHANGED <<orch, evidence>>
        BY <1>1, <2>1, <2>6, StopKeeps, SameEvidence DEF PinChange
  <2> QED BY <2>2, <2>4, <2>5, <2>6
<1>5. ASSUME NEW action, NEW satisfied, EvaluationDecided(l, action, satisfied) PROVE BossInv' /\ PinChange(orch, orch')
  <2> DEFINE n == [s EXCEPT !.cycle = loop[l].cycle + 1]
             x == [loop[l] EXCEPT !.st = n, !.pc = "cycling", !.cycle = @ + 1]
  <2>1. loop[l].pc # "idle" /\ UNCHANGED continued
        BY <1>5 DEF EvaluationDecided, At
  <2>2. \/ \E end : Close(l, s, end)
        \/ Close(l, n, "AWAITING_USER")
        \/ orch' = n /\ NewRevision({l}, evidence) /\ loop' = [loop EXCEPT ![l] = x]
        \/ Stop(l) /\ UNCHANGED <<orch, evidence>>
        BY <1>1, <1>5 DEF EvaluationDecided, St
  <2>3. IsState(n) /\ SameBoss(n, s)
        BY <1>1 DEF IsState, SameBoss
  <2> HIDE DEF n
  <2>4. IsLoop(x) /\ x.st = n /\ x.pc = "cycling"
        BY <1>1 DEF IsLoop
  <2> HIDE DEF x
  <2>5. CASE (\E end : Close(l, s, end)) \/ Close(l, n, "AWAITING_USER")
        BY <1>1, <2>1, <2>3, <2>5, CloseKeeps DEF SameBoss
  <2>6. CASE orch' = n /\ NewRevision({l}, evidence) /\ loop' = [loop EXCEPT ![l] = x]
        BY <2>1, <2>3, <2>4, <2>6, PersistKeeps DEF SameBoss, WithTask
  <2>7. CASE Stop(l) /\ UNCHANGED <<orch, evidence>>
        BY <1>1, <2>1, <2>7, StopKeeps, SameEvidence DEF PinChange
  <2> QED BY <2>2, <2>5, <2>6, <2>7
<1> QED BY <1>2, <1>3, <1>4, <1>5, RoutesKeep DEF BossAnswers

-------------------------------------------------------------------------------
(* The tasks of a plan                                                     *)

LEMMA ChoiceKeeps ==
    ASSUME BossInv, OneLoop, NEW l \in Loops, NEW t \in Tasks, NEW w, ChooseTask(l, t, w)
    PROVE  BossInv' /\ PinChange(orch, orch')
<1> DEFINE x == [loop[l] EXCEPT !.left = @ - 1]
           y(pc) == Chosen(l, t, w, pc)
<1>1. IsLoop(loop[l]) /\ IsState(loop[l].st) /\ loop[l].pc = "choosing" /\ UNCHANGED continued
      BY DEF BossInv, LoopOK, ChooseTask, At
<1>2. IsLoop(x) /\ x.st = loop[l].st /\ x.pc = "choosing"
      BY <1>1 DEF IsLoop
<1>3. \A pc : IsLoop(y(pc)) /\ y(pc).st = loop[l].st /\ y(pc).pc = pc /\ y(pc).task = t
      BY <1>1 DEF IsLoop, Chosen
<1> HIDE DEF x, y
<1>4. \/ loop' = [loop EXCEPT ![l] = x] /\ UNCHANGED <<orch, evidence>>
      \/ Close(l, loop[l].st, "AWAITING_USER")
      \/ \E pc \in {"working", "judging"} : loop' = [loop EXCEPT ![l] = y(pc)] /\ UNCHANGED <<orch, evidence>>
  <2>1. CASE Verified(t)
        BY <2>1 DEF ChooseTask, x
  <2>2. CASE ~Verified(t) /\ PlannedAgain(l, t, w)
        BY <2>2 DEF ChooseTask, St
  <2>3. CASE ~Verified(t) /\ ~PlannedAgain(l, t, w)
        BY <2>3 DEF ChooseTask, y
  <2> QED BY <2>1, <2>2, <2>3
<1>5. CASE loop' = [loop EXCEPT ![l] = x] /\ UNCHANGED <<orch, evidence>>
      BY <1>1, <1>2, <1>5, SameEvidence, WorkKeeps DEF SameBoss, WithTask
<1>6. CASE Close(l, loop[l].st, "AWAITING_USER")
      BY <1>1, <1>6, CloseKeeps DEF SameBoss
<1>7. ASSUME NEW pc \in {"working", "judging"}, loop' = [loop EXCEPT ![l] = y(pc)], UNCHANGED <<orch, evidence>>
      PROVE  BossInv' /\ PinChange(orch, orch')
  <2> DEFINE z == y(pc)
  <2>1. IsLoop(z) /\ IsState(z.st) /\ SameBoss(z.st, loop[l].st) /\ z.pc = pc /\ z.task \in Tasks
        BY <1>1, <1>3 DEF SameBoss
  <2> HIDE DEF z
  <2>2. loop' = [loop EXCEPT ![l] = z]
        BY <1>7 DEF z
  <2> QED BY <1>1, <1>7, <2>1, <2>2, SameEvidence, WorkKeeps
<1> QED BY <1>4, <1>5, <1>6, <1>7

LEMMA StepKeeps ==
    ASSUME BossInv, OneLoop, NEW l \in Loops, NEW x, loop' = [loop EXCEPT ![l] = x],
           LoopOK(x, orch', evidence', continued'), UNCHANGED orch, EvidenceOK(evidence'),
           continued' \in [Tasks -> 0 .. 1], \A t \in Tasks : continued'[t] = 1 => Assessed(evidence', t)
    PROVE  BossInv' /\ PinChange(orch, orch')
<1>1. loop' = [k \in Loops |-> x]
      BY DEF BossInv, OneLoop
<1>2. IsState(orch')
      BY DEF BossInv, IsState
<1> QED BY <1>1, <1>2 DEF BossInv, PinChange

\* A report is no assessment, so what is assessed now was not before.
LEMMA WorkerKeeps ==
    ASSUME BossInv, OneLoop, NEW l \in Loops, NEW how, WorkerEnds(l, how)
    PROVE  BossInv' /\ PinChange(orch, orch')
<1> DEFINE t == loop[l].task
           reported == IF how \in Reports
                         THEN Admitted(evidence, t, "implementation-result", SourceOf(l)) ELSE evidence
<1>1. /\ IsLoop(loop[l]) /\ IsState(loop[l].st) /\ loop[l].pc \in {"working", "continuing"} /\ t \in Tasks
      /\ SameBoss(loop[l].st, orch) /\ EvidenceOK(evidence) /\ UNCHANGED <<orch, continued>>
      BY DEF BossInv, LoopOK, WorkerEnds, Working, At, WithTask
<1>2. EvidenceOK(reported) /\ SameAssessed(evidence, reported)
  <2> DEFINE src == SourceOf(l)
             f == Admitted(evidence, t, "implementation-result", src)
  <2>1. src \in {"now", "past", "none"} /\ "implementation-result" \in EvidenceKind
        BY DEF SourceOf, EvidenceKind
  <2> HIDE DEF src
  <2>2. EvidenceOK(f) /\ SameAssessed(evidence, f)
        BY <1>1, <2>1, AdmittedKeeps DEF SameAssessed
  <2>3. reported \in {evidence, f}
        BY DEF src
  <2> HIDE DEF f, reported
  <2> QED BY <1>1, <2>2, <2>3 DEF SameAssessed
<1> HIDE DEF reported
<1>3. evidence' = reported \/ evidence' = Admitted(reported, t, "other", "none")
      BY DEF WorkerEnds, reported
<1>4. EvidenceOK(evidence') /\ SameAssessed(evidence, evidence')
  <2> DEFINE f == Admitted(reported, t, "other", "none")
  <2>1. "other" \in EvidenceKind
        BY DEF EvidenceKind
  <2>2. EvidenceOK(f) /\ SameAssessed(reported, f)
        BY <1>1, <1>2, <2>1, AdmittedKeeps DEF SameAssessed
  <2> HIDE DEF f
  <2> QED BY <1>2, <1>3, <2>2 DEF SameAssessed, f
<1>5. PICK pc \in AfterRun(l, how) : Goto(l, pc)
      BY DEF WorkerEnds
<1>6. pc \in {"verifying", "stopping", "judging", "unsafe", "assessing"}
      BY <1>5 DEF AfterRun
<1>7. pc = "assessing" => ~Assessed(evidence, t)
  <2>1. pc = "assessing" => Assessments(t) < 1
        BY <1>5 DEF AfterRun, MAX_AUTONOMOUS_RECOVERY_SEQUENCES_PER_TASK
  <2> QED BY <1>1, <2>1, AssessmentsCount
<1>8. CASE pc # "assessing"
      BY <1>1, <1>4, <1>5, <1>6, <1>8, GotoKeeps
<1>9. CASE pc = "assessing"
  <2> DEFINE x == [loop[l] EXCEPT !.pc = pc]
  <2>1. IsLoop(x) /\ x.st = loop[l].st /\ x.pc = pc /\ x.task = t
        BY <1>1 DEF IsLoop
  <2>2. loop' = [loop EXCEPT ![l] = x]
        BY <1>5 DEF Goto
  <2> HIDE DEF x
  <2>3. LoopOK(x, orch', evidence', continued')
        BY <1>1, <1>4, <1>7, <1>9, <2>1 DEF LoopOK, SameBoss, SameAssessed
  <2>4. continued' \in [Tasks -> 0 .. 1] /\ \A k \in Tasks : continued'[k] = 1 => Assessed(evidence', k)
        BY <1>1, <1>4 DEF BossInv, SameAssessed
  <2> QED BY <1>1, <1>4, <2>2, <2>3, <2>4, StepKeeps
<1> QED BY <1>8, <1>9

\* Steps that leave the recovery alone, or abort.
LEMMA TaskStepsKeep ==
    ASSUME BossInv, OneLoop, NEW l \in Loops, EndTasks(l) \/ DispatchAborts(l) \/ WorkerIsLate(l)
    PROVE  BossInv' /\ PinChange(orch, orch')
<1>1. IsLoop(loop[l]) /\ IsState(loop[l].st)
      BY DEF BossInv, LoopOK
<1>2. CASE EndTasks(l)
  <2> DEFINE x == [loop[l] EXCEPT !.pc = "evaluating", !.left = 0]
  <2>1. loop' = [loop EXCEPT ![l] = x] /\ UNCHANGED <<orch, continued, evidence>> /\ loop[l].pc # "idle"
        BY <1>1, <1>2 DEF EndTasks, At
  <2>2. IsLoop(x) /\ x.st = loop[l].st /\ x.pc = "evaluating"
        BY <1>1 DEF IsLoop
  <2> HIDE DEF x
  <2> QED BY <1>1, <2>1, <2>2, SameEvidence, WorkKeeps DEF SameBoss, WithTask
<1>3. CASE DispatchAborts(l)
  <2>1. loop[l].pc # "idle" /\ UNCHANGED continued /\ \E end : Close(l, loop[l].st, end)
        BY <1>3 DEF DispatchAborts, Cancel, At, St
  <2> QED BY <1>1, <2>1, CloseKeeps DEF SameBoss
<1>4. CASE WorkerIsLate(l)
  <2>1. /\ loop[l].pc \in {"working", "continuing"} /\ Goto(l, "judging")
        /\ UNCHANGED <<orch, continued, evidence>>
        BY <1>4 DEF WorkerIsLate, Working, At
  <2>2. loop[l].task \in Tasks
        BY <2>1 DEF BossInv, LoopOK, WithTask
  <2> QED BY <2>1, <2>2, SameEvidence, GotoKeeps
<1> QED BY <1>2, <1>3, <1>4

\* The assessment of partial work is recorded before anything is made of it.
LEMMA AssessKeeps ==
    ASSUME BossInv, OneLoop, NEW l \in Loops, Assess(l)
    PROVE  BossInv' /\ PinChange(orch, orch')
<1> DEFINE t == loop[l].task
<1>1. /\ IsLoop(loop[l]) /\ IsState(loop[l].st) /\ loop[l].pc = "assessing" /\ t \in Tasks
      /\ SameBoss(loop[l].st, orch) /\ EvidenceOK(evidence) /\ ~Assessed(evidence, t)
      /\ UNCHANGED <<orch, continued>>
      BY DEF BossInv, LoopOK, Assess, At, WithTask
<1>2. EvidenceOK(evidence') /\ \A k \in Tasks : Assessed(evidence', k) <=> Assessed(evidence, k) \/ k = t
  <2>1. "recovery-assessment" \in EvidenceKind
        BY DEF EvidenceKind
  <2> QED BY <1>1, <2>1, AdmittedKeeps DEF Assess
<1>3. continued \in [Tasks -> 0 .. 1] /\ continued[t] = 0
      BY <1>1 DEF BossInv
<1>4. PICK pc \in {"deciding", "judging", "stopping"} : Goto(l, pc)
      BY DEF Assess
<1> DEFINE x == [loop[l] EXCEPT !.pc = pc]
<1>5. IsLoop(x) /\ x.st = loop[l].st /\ x.pc = pc /\ x.task = t
      BY <1>1 DEF IsLoop
<1>6. loop' = [loop EXCEPT ![l] = x]
      BY <1>4 DEF Goto
<1> HIDE DEF x
<1>7. LoopOK(x, orch', evidence', continued')
      BY <1>1, <1>2, <1>3, <1>4, <1>5 DEF LoopOK, SameBoss
<1>8. continued' \in [Tasks -> 0 .. 1] /\ \A k \in Tasks : continued'[k] = 1 => Assessed(evidence', k)
      BY <1>1, <1>2 DEF BossInv
<1> QED BY <1>1, <1>2, <1>6, <1>7, <1>8, StepKeeps

\* Work is gone on with from an assessment only, and the next assessment is refused.
LEMMA DecideKeeps ==
    ASSUME BossInv, OneLoop, NEW l \in Loops, Decide(l)
    PROVE  BossInv' /\ PinChange(orch, orch')
<1> DEFINE t == loop[l].task
           c == [continued EXCEPT ![t] = @ + 1]
<1>1. /\ IsLoop(loop[l]) /\ IsState(loop[l].st) /\ loop[l].pc = "deciding" /\ t \in Tasks
      /\ SameBoss(loop[l].st, orch) /\ EvidenceOK(evidence) /\ Assessed(evidence, t) /\ continued[t] = 0
      /\ UNCHANGED <<orch, evidence>>
      BY DEF BossInv, LoopOK, Decide, At, WithTask
<1>2. \/ continued' = c /\ Goto(l, "continuing")
      \/ UNCHANGED continued /\ \E pc \in {"judging", "stopping"} : Goto(l, pc)
      BY DEF Decide
<1>3. CASE UNCHANGED continued /\ \E pc \in {"judging", "stopping"} : Goto(l, pc)
      BY <1>1, <1>3, SameEvidence, GotoKeeps
<1>4. CASE continued' = c /\ Goto(l, "continuing")
  <2> DEFINE x == [loop[l] EXCEPT !.pc = "continuing"]
  <2>1. IsLoop(x) /\ x.st = loop[l].st /\ x.pc = "continuing" /\ x.task = t
        BY <1>1 DEF IsLoop
  <2>2. loop' = [loop EXCEPT ![l] = x]
        BY <1>4 DEF Goto
  <2> HIDE DEF x
  <2>3. LoopOK(x, orch', evidence', continued')
        BY <1>1, <2>1 DEF LoopOK, SameBoss
  <2>4. c \in [Tasks -> 0 .. 1] /\ \A k \in Tasks : c[k] = 1 => Assessed(evidence, k)
    <3>1. continued \in [Tasks -> 0 .. 1] /\ \A k \in Tasks : continued[k] = 1 => Assessed(evidence, k)
          BY DEF BossInv
    <3> QED BY <1>1, <3>1
  <2> HIDE DEF c
  <2>5. continued' \in [Tasks -> 0 .. 1] /\ \A k \in Tasks : continued'[k] = 1 => Assessed(evidence', k)
        BY <1>1, <1>4, <2>4
  <2>6. EvidenceOK(evidence')
        BY <1>1 DEF EvidenceOK
  <2> QED BY <1>1, <2>2, <2>3, <2>5, <2>6, StepKeeps
<1> QED BY <1>2, <1>3, <1>4

-------------------------------------------------------------------------------
(* Verification, and everybody else                                        *)

LEMMA NextTaskIs ==
    ASSUME NEW l, IsLoop(loop[l])
    PROVE  IsLoop(NextTask(l)) /\ NextTask(l).st = loop[l].st /\ NextTask(l).pc = "choosing"
BY DEF NextTask, IsLoop

LEMMA ReviewKeeps ==
    ASSUME BossInv, OneLoop, NEW l \in Loops,
           \/ OpenReview(l) \/ ReviewerPasses(l) \/ ReviewerFails(l) \/ ReviewerAborts(l)
           \/ \E fix, verdict : ReviewerRejects(l, fix, verdict)
    PROVE  BossInv' /\ PinChange(orch, orch')
<1> DEFINE x == [loop[l] EXCEPT !.pc = "promoting", !.item = 1]
<1>1. /\ IsLoop(loop[l]) /\ IsState(loop[l].st) /\ loop[l].pc \in {"verifying", "reviewing"}
      /\ loop[l].task \in Tasks /\ UNCHANGED <<orch, continued, evidence>>
      BY DEF BossInv, LoopOK, WithTask, At, OpenReview, ReviewerPasses, ReviewerFails, ReviewerAborts, ReviewerRejects
<1>2. IsLoop(x) /\ x.st = loop[l].st /\ x.pc = "promoting" /\ x.task = loop[l].task
      BY <1>1 DEF IsLoop
<1> DEFINE y == NextTask(l)
<1>3. IsLoop(y) /\ y.st = loop[l].st /\ y.pc = "choosing"
      BY <1>1, NextTaskIs
<1> HIDE DEF x
<1>4. \/ \E pc \in {"reviewing", "judging", "stopping"} : Goto(l, pc)
      \/ loop' = [loop EXCEPT ![l] = x]
      \/ loop' = [loop EXCEPT ![l] = y]
      BY <1>1 DEF OpenReview, ReviewerPasses, ReviewerFails, ReviewerAborts, ReviewerRejects, x
<1> HIDE DEF y
<1>5. CASE \E pc \in {"reviewing", "judging", "stopping"} : Goto(l, pc)
      BY <1>1, <1>5, SameEvidence, GotoKeeps
<1>6. CASE loop' = [loop EXCEPT ![l] = x]
      BY <1>1, <1>2, <1>6, SameEvidence, WorkKeeps DEF SameBoss
<1>7. CASE loop' = [loop EXCEPT ![l] = y]
      BY <1>1, <1>3, <1>7, SameEvidence, WorkKeeps DEF SameBoss, WithTask
<1> QED BY <1>4, <1>5, <1>6, <1>7

\* A review of one piece of evidence, by the loop or by somebody else.
LEMMA EvidenceReviewKeeps ==
    ASSUME EvidenceOK(evidence), NEW t \in Tasks, NEW i \in Proposed(t),
           PromoteEvidence(t, i) \/ RejectEvidence(t, i)
    PROVE  EvidenceOK(evidence') /\ SameAssessed(evidence, evidence')
<1> DEFINE f(status) == Reviewed(t, i, status)
<1>1. i \in DOMAIN evidence[t]
      BY DEF Proposed
<1>2. \A status \in {"proposed", "accepted", "rejected", "stale"} :
         EvidenceOK(f(status)) /\ SameAssessed(evidence, f(status))
      BY <1>1, ReviewedKeeps
<1>3. evidence' = f("stale") \/ evidence' = f("rejected") \/ NewRevision({}, f("accepted"))
      BY DEF PromoteEvidence, RejectEvidence
<1> HIDE DEF f
<1>4. CASE NewRevision({}, f("accepted"))
  <2> DEFINE g == f("accepted")
  <2>1. EvidenceOK(g) /\ SameAssessed(evidence, g) /\ NewRevision({}, g)
        BY <1>2, <1>4
  <2> HIDE DEF g
  <2> QED BY <2>1, Revised
<1>5. CASE evidence' = f("stale") \/ evidence' = f("rejected")
      BY <1>2, <1>5
<1> QED BY <1>3, <1>4, <1>5

LEMMA PromoteKeeps ==
    ASSUME BossInv, OneLoop, NEW l \in Loops, Promote(l)
    PROVE  BossInv' /\ PinChange(orch, orch')
<1> DEFINE t == loop[l].task
           todo == {i \in Proposed(t) : i >= loop[l].item}
           next == CHOOSE i \in todo : \A k \in todo : i <= k
           x == [loop[l] EXCEPT !.item = next + 1]
           y == NextTask(l)
<1>1. /\ IsLoop(loop[l]) /\ IsState(loop[l].st) /\ loop[l].pc = "promoting" /\ t \in Tasks
      /\ EvidenceOK(evidence) /\ UNCHANGED <<orch, continued>>
      BY DEF BossInv, LoopOK, Promote, At, WithTask
<1>2. IsLoop(y) /\ y.st = loop[l].st /\ y.pc = "choosing"
      BY <1>1, NextTaskIs
<1>3. IsLoop(x) /\ x.st = loop[l].st /\ x.pc = "promoting" /\ x.task = t
      BY <1>1 DEF IsLoop
<1>4. CASE todo = {}
  <2>1. loop' = [loop EXCEPT ![l] = y] /\ UNCHANGED evidence
        BY <1>4 DEF Promote
  <2> HIDE DEF y
  <2> QED BY <1>1, <1>2, <2>1, SameEvidence, WorkKeeps DEF SameBoss, WithTask
<1>5. CASE todo # {}
  <2>1. PromoteEvidence(t, next) /\ loop' = [loop EXCEPT ![l] = x]
        BY <1>1, <1>5 DEF Promote
  <2>2. next \in todo
    <3>1. todo \subseteq Nat
      <4>1. evidence[t] \in Seq(EvidenceRow)
            BY <1>1 DEF EvidenceOK
      <4>2. DOMAIN evidence[t] = 1 .. Len(evidence[t]) /\ Len(evidence[t]) \in Nat
            BY <4>1
      <4>3. \A i \in 1 .. Len(evidence[t]) : i \in Nat
            BY <4>2
      <4> QED BY <4>2, <4>3 DEF Proposed
    <3> HIDE DEF todo
    <3> QED BY <1>5, <3>1, LeastOf
  <2>3. next \in Proposed(t)
        BY <2>2
  <2> HIDE DEF todo, next, x, t
  <2>4. EvidenceOK(evidence') /\ SameAssessed(evidence, evidence')
        BY <1>1, <2>1, <2>3, EvidenceReviewKeeps
  <2> QED BY <1>1, <1>3, <2>1, <2>4, WorkKeeps DEF SameBoss
<1> QED BY <1>4, <1>5

LEMMA JudgeKeeps ==
    ASSUME BossInv, OneLoop, NEW l \in Loops, Judge(l)
    PROVE  BossInv' /\ PinChange(orch, orch')
<1> DEFINE s == loop[l].st
           fp == Fingerprint(loop[l].task, loop[l].words)
           n == IF s.fp = fp THEN s.count + 1 ELSE 1
           u == [s EXCEPT !.fp = fp, !.count = n]
           v == IF fp = NoText THEN s ELSE u
           x == [NextTask(l) EXCEPT !.st = v]
<1>1. /\ IsLoop(loop[l]) /\ IsState(s) /\ loop[l].pc = "judging" /\ UNCHANGED continued
      BY DEF BossInv, LoopOK, Judge, At
<1>2. Close(l, v, "AWAITING_USER") \/ (loop' = [loop EXCEPT ![l] = x] /\ UNCHANGED <<orch, evidence>>)
      BY DEF Judge, St
<1>3. IsState(v) /\ SameBoss(v, s)
  <2>1. IsState(u) /\ SameBoss(u, s)
        BY <1>1 DEF IsState, SameBoss
  <2>2. v \in {s, u}
        OBVIOUS
  <2> HIDE DEF u, v
  <2> QED BY <1>1, <2>1, <2>2 DEF SameBoss
<1> HIDE DEF v
<1>4. IsLoop(x) /\ x.st = v /\ x.pc = "choosing"
      BY <1>1, NextTaskIs DEF IsLoop
<1> HIDE DEF x
<1>5. CASE Close(l, v, "AWAITING_USER")
      BY <1>1, <1>3, <1>5, CloseKeeps
<1>6. CASE loop' = [loop EXCEPT ![l] = x] /\ UNCHANGED <<orch, evidence>>
      BY <1>1, <1>3, <1>4, <1>6, SameEvidence, WorkKeeps DEF WithTask
<1> QED BY <1>2, <1>5, <1>6

\* Nobody else writes the route, the fallbacks or an assessment.
LEMMA OthersKeep ==
    ASSUME BossInv, OneLoop, Others
    PROVE  BossInv' /\ PinChange(orch, orch')
<1>1. EvidenceOK(evidence) /\ SameAssessed(evidence, evidence) /\ IsState(orch)
      BY DEF BossInv, SameAssessed
<1>2. ASSUME UNCHANGED <<orch, loop, continued>>, EvidenceOK(evidence'), SameAssessed(evidence, evidence')
      PROVE  BossInv' /\ PinChange(orch, orch')
      BY <1>2 DEF BossInv, LoopOK, PinChange, SameAssessed, SameBoss, IsState, WithTask
<1>3. ASSUME NEW status, MissionMoves(status) PROVE BossInv' /\ PinChange(orch, orch')
  <2>1. NewRevision({}, evidence) /\ UNCHANGED <<orch, loop, continued>>
        BY <1>3 DEF MissionMoves
  <2> QED BY <1>1, <1>2, <2>1, Revised
<1>4. ASSUME NEW t \in Tasks, NEW i \in Proposed(t), EvidenceReviewed(t, i)
      PROVE  BossInv' /\ PinChange(orch, orch')
      BY <1>1, <1>2, <1>4, EvidenceReviewKeeps DEF EvidenceReviewed
<1>5. ASSUME NEW gone, Recover(gone)
      PROVE  /\ EvidenceOK(evidence') /\ SameAssessed(evidence, evidence') /\ UNCHANGED continued
             /\ IsState(orch') /\ SameBoss(orch', orch) /\ PinChange(orch, orch')
  <2> DEFINE o == [orch EXCEPT !.terminal = "INTERRUPTED"]
  <2>1. IsState(o) /\ SameBoss(o, orch)
        BY <1>1 DEF IsState, SameBoss
  <2>2. orch' = o \/ UNCHANGED orch
        BY <1>5 DEF Recover
  <2>3. NewRevision({}, evidence) \/ UNCHANGED evidence
        BY <1>5 DEF Recover
  <2>4. EvidenceOK(evidence') /\ SameAssessed(evidence, evidence')
        BY <1>1, <2>3, Revised, SameEvidence
  <2>5. UNCHANGED continued
        BY <1>5 DEF Recover
  <2> HIDE DEF o
  <2> QED BY <1>1, <2>1, <2>2, <2>4, <2>5 DEF SameBoss, PinChange, IsState
<1>6. ASSUME NEW l \in Loops, Restart(l) PROVE BossInv' /\ PinChange(orch, orch')
  <2>1. Stop(l) /\ Recover({l})
        BY <1>6 DEF Restart
  <2> QED BY <1>5, <2>1, StopKeeps
<1>7. CASE StartBeside
  <2>1. Recover({}) /\ UNCHANGED loop
        BY <1>7 DEF StartBeside
  <2>2. /\ EvidenceOK(evidence') /\ SameAssessed(evidence, evidence') /\ UNCHANGED <<loop, continued>>
        /\ IsState(orch') /\ SameBoss(orch', orch) /\ PinChange(orch, orch')
        BY <1>5, <2>1
  <2>3. \A l \in Loops : LoopOK(loop'[l], orch', evidence', continued')
        BY <2>2 DEF BossInv, LoopOK, SameBoss, SameAssessed, WithTask
  <2> QED BY <2>2, <2>3 DEF BossInv, SameAssessed
<1> QED BY <1>3, <1>4, <1>6, <1>7 DEF Others

-------------------------------------------------------------------------------
(* The types, for any number of processes on the mission.                  *)

IsTask(r) ==
    r \in [status : {r.status}, quality : {r.quality}, decision : {r.decision}, end : {r.end},
           run : {r.run}, review : {r.review}]
StateOK(s) ==
    /\ IsState(s)
    /\ s.cycle \in 0 .. MaxCycles /\ s.on \in Routes \cup {NoRoute} /\ s.terminal \in Terminal \cup {"none"}

\* A loop that asks its Boss or works on the tasks has a cycle left to count.
OutsideCycles == {"idle", "assigning", "cycling", "closing"}
LoopTyped(x) ==
    /\ IsLoop(x) /\ StateOK(x.st) /\ x.cycle \in 0 .. MaxCycles
    /\ x.pc \notin OutsideCycles => x.cycle < MaxCycles
    /\ x.pc \in WithTask => x.task \in Tasks

RowOK(r, rows) ==
    /\ IsTask(r)
    /\ r.end = NoText => rows = <<>>
    /\ r.status = "running" <=> r.run # NoText
TasksOK(T, e) == T = [t \in Tasks |-> T[t]] /\ \A t \in Tasks : RowOK(T[t], e[t])

\* The inductive invariant: what is assessed has had a run that ended.
TypeInv ==
    /\ mission \in MissionState /\ StateOK(orch) /\ EvidenceOK(evidence)
    /\ fresh \subseteq Loops /\ begun \subseteq Loops
    /\ loop = [l \in Loops |-> loop[l]] /\ \A l \in Loops : LoopTyped(loop[l])
    /\ TasksOK(task, evidence)
    /\ \A l \in Loops : loop[l].pc = "assessing" => task[loop[l].task].end # NoText

LEMMA NoTaskOK == IsTask(NoTask) /\ NoTask.end = NoText /\ NoTask.run = NoText /\ NoTask.status = "absent"
BY DEF NoTask, IsTask

LEMMA DefaultOK == StateOK(DefaultState) /\ LoopTyped(NoLoop) /\ NoLoop.pc = "idle"
<1>1. IsState(DefaultState) /\ IsLoop(NoLoop) /\ NoLoop.pc = "idle"
      BY NoLoopOK
<1>2. 0 \in 0 .. MaxCycles
      BY CycleBounds
<1>3. StateOK(DefaultState)
      BY <1>1, <1>2 DEF StateOK, DefaultState
<1>4. NoLoop.st = DefaultState /\ NoLoop.cycle = 0 /\ NoLoop.pc \in OutsideCycles /\ NoLoop.pc \notin WithTask
      BY DEF NoLoop, OutsideCycles, WithTask
<1> QED BY <1>1, <1>2, <1>3, <1>4 DEF LoopTyped

LEMMA TypesInit == ASSUME Init PROVE TypeInv
<1>1. EvidenceOK(evidence) /\ mission \in MissionState
      BY DEF Init, EvidenceOK, MissionState
<1>2. task = [t \in Tasks |-> NoTask] /\ evidence = [t \in Tasks |-> <<>>] /\ loop = [l \in Loops |-> NoLoop]
      BY DEF Init
<1>3. TasksOK(task, evidence)
  <2>1. \A t \in Tasks : task[t] = NoTask /\ evidence[t] = <<>>
        BY <1>2
  <2>2. RowOK(NoTask, <<>>)
        BY NoTaskOK DEF RowOK
  <2> QED BY <1>2, <2>1, <2>2 DEF TasksOK
<1>4. \A l \in Loops : loop[l] = NoLoop
      BY <1>2
<1> QED BY <1>1, <1>2, <1>3, <1>4, DefaultOK DEF TypeInv, Init

LEMMA TypesMean == ASSUME TypeInv PROVE BossTypeOK
BY DEF TypeInv, BossTypeOK, StateOK, EvidenceOK, TasksOK, RowOK, LoopTyped

\* Evidence is added and reviewed, never taken away.
EmptyStays(e, f) == \A t \in Tasks : e[t] = <<>> => f[t] = <<>>

LEMMA AgedEmpty == ASSUME NEW e PROVE EmptyStays(e, Aged(e))
<1> SUFFICES ASSUME NEW t \in Tasks, e[t] = <<>> PROVE Aged(e)[t] = <<>>
    BY DEF EmptyStays
<1>1. Aged(e)[t] = [i \in DOMAIN e[t] |->
                      IF e[t][i].src = "now" THEN [e[t][i] EXCEPT !.src = "past"] ELSE e[t][i]]
      BY DEF Aged
<1>2. DOMAIN e[t] = 1 .. 0
      OBVIOUS
<1> QED BY <1>1, <1>2

LEMMA RevisedTypes ==
    ASSUME EvidenceOK(evidence), NEW by, by \subseteq Loops, NEW e, EvidenceOK(e), EmptyStays(evidence, e),
           NewRevision(by, e)
    PROVE  /\ EvidenceOK(evidence') /\ EmptyStays(evidence, evidence')
           /\ fresh' \subseteq Loops /\ begun' \subseteq Loops
<1>1. evidence' = Aged(e) /\ fresh' = by /\ begun' = {}
      BY DEF NewRevision
<1> QED BY <1>1, AgedKeeps, AgedEmpty DEF EmptyStays

\* The rows of the tasks, when none changes and when one does.
EndsKept(T, U) == \A t \in Tasks : T[t].end # NoText => U[t].end # NoText

LEMMA RowsStay ==
    ASSUME TypeInv, UNCHANGED task, EmptyStays(evidence, evidence')
    PROVE  TasksOK(task', evidence') /\ EndsKept(task, task')
BY DEF TypeInv, TasksOK, RowOK, EmptyStays, EndsKept

LEMMA RowChanges ==
    ASSUME TypeInv, NEW t \in Tasks, NEW r, task' = [task EXCEPT ![t] = r],
           RowOK(r, evidence'[t]), task[t].end # NoText => r.end # NoText,
           \A k \in Tasks : k # t /\ evidence[k] = <<>> => evidence'[k] = <<>>
    PROVE  TasksOK(task', evidence') /\ EndsKept(task, task') /\ task'[t] = r
<1>1. task = [k \in Tasks |-> task[k]] /\ \A k \in Tasks : RowOK(task[k], evidence[k])
      BY DEF TypeInv, TasksOK
<1>2. task' = [k \in Tasks |-> IF k = t THEN r ELSE task[k]]
      BY <1>1
<1>3. \A k \in Tasks : task'[k] = IF k = t THEN r ELSE task[k]
      BY <1>2
<1>4. \A k \in Tasks : RowOK(task'[k], evidence'[k])
      BY <1>1, <1>3 DEF RowOK
<1> QED BY <1>2, <1>3, <1>4 DEF TasksOK, EndsKept

\* A step of one loop.
LEMMA TypesMove ==
    ASSUME TypeInv, NEW l \in Loops, NEW x, loop' = [loop EXCEPT ![l] = x], LoopTyped(x),
           mission' \in MissionState, StateOK(orch'), EvidenceOK(evidence'),
           fresh' \subseteq Loops, begun' \subseteq Loops,
           TasksOK(task', evidence'), EndsKept(task, task'),
           x.pc = "assessing" => task'[x.task].end # NoText
    PROVE  TypeInv'
<1>1. loop = [k \in Loops |-> loop[k]] /\ \A k \in Loops : LoopTyped(loop[k])
      BY DEF TypeInv
<1>2. loop' = [k \in Loops |-> IF k = l THEN x ELSE loop[k]]
      BY <1>1
<1>3. \A k \in Loops : loop'[k] = IF k = l THEN x ELSE loop[k]
      BY <1>2
<1>4. \A k \in Loops : LoopTyped(loop'[k])
      BY <1>1, <1>3
<1>5. ASSUME NEW k \in Loops, loop'[k].pc = "assessing" PROVE task'[loop'[k].task].end # NoText
  <2>1. CASE k = l
        BY <1>3, <1>5, <2>1
  <2>2. CASE k # l
    <3>1. loop'[k] = loop[k] /\ loop[k].pc = "assessing"
          BY <1>3, <1>5, <2>2
    <3>2. loop[k].task \in Tasks
          BY <1>1, <3>1 DEF LoopTyped, WithTask
    <3> QED BY <3>1, <3>2 DEF TypeInv, EndsKept
  <2> QED BY <2>1, <2>2
<1>6. loop' = [k \in Loops |-> loop'[k]]
      BY <1>2
<1> QED BY <1>4, <1>5, <1>6 DEF TypeInv

\* Nothing changes but where the loop is.
LEMMA LoopSteps ==
    ASSUME TypeInv, NEW l \in Loops, NEW x, loop' = [loop EXCEPT ![l] = x], LoopTyped(x), x.pc # "assessing",
           UNCHANGED <<mission, orch, task, begun>>, fresh' \subseteq Loops,
           EvidenceOK(evidence'), EmptyStays(evidence, evidence')
    PROVE  TypeInv'
<1>1. TasksOK(task', evidence') /\ EndsKept(task, task')
      BY RowsStay
<1>2. StateOK(orch') /\ mission' \in MissionState /\ begun' \subseteq Loops
      BY DEF TypeInv, StateOK, IsState
<1> QED BY <1>1, <1>2, TypesMove

LEMMA StopTypes ==
    ASSUME TypeInv, NEW l \in Loops, Stop(l), mission' \in MissionState, StateOK(orch'), EvidenceOK(evidence'),
           fresh' \subseteq Loops, begun' \subseteq Loops, TasksOK(task', evidence'), EndsKept(task, task')
    PROVE  TypeInv'
<1>1. loop' = [loop EXCEPT ![l] = NoLoop] /\ NoLoop.pc # "assessing" /\ LoopTyped(NoLoop)
      BY DefaultOK DEF Stop
<1> QED BY <1>1, TypesMove

\* A state that is written, with the loop at x, or a stale one, with the loop gone.
LEMMA PersistTypes ==
    ASSUME TypeInv, NEW l \in Loops, NEW s, StateOK(s), NEW x, LoopTyped(x), x.pc # "assessing",
           \/ orch' = s /\ NewRevision({l}, evidence) /\ loop' = [loop EXCEPT ![l] = x]
           \/ Stop(l) /\ UNCHANGED <<orch, evidence, revisionVars>>,
           UNCHANGED <<mission, task>>
    PROVE  TypeInv'
<1>1. EvidenceOK(evidence) /\ StateOK(orch) /\ mission' \in MissionState /\ EmptyStays(evidence, evidence)
      BY DEF TypeInv, EmptyStays
<1>2. CASE orch' = s /\ NewRevision({l}, evidence) /\ loop' = [loop EXCEPT ![l] = x]
  <2>1. /\ EvidenceOK(evidence') /\ EmptyStays(evidence, evidence')
        /\ fresh' \subseteq Loops /\ begun' \subseteq Loops
        BY <1>1, <1>2, RevisedTypes
  <2>2. TasksOK(task', evidence') /\ EndsKept(task, task')
        BY <2>1, RowsStay
  <2>3. StateOK(orch')
        BY <1>2
  <2> QED BY <1>1, <1>2, <2>1, <2>2, <2>3, TypesMove
<1>3. CASE Stop(l) /\ UNCHANGED <<orch, evidence, revisionVars>>
  <2>1. /\ EvidenceOK(evidence') /\ EmptyStays(evidence, evidence') /\ StateOK(orch')
        /\ fresh' \subseteq Loops /\ begun' \subseteq Loops
        BY <1>1, <1>3 DEF TypeInv, revisionVars, StateOK, IsState, EvidenceOK, EmptyStays
  <2>2. TasksOK(task', evidence') /\ EndsKept(task, task')
        BY <2>1, RowsStay
  <2> QED BY <1>1, <1>3, <2>1, <2>2, StopTypes
<1> QED BY <1>2, <1>3

LEMMA SaveTypes ==
    ASSUME TypeInv, NEW l \in Loops, NEW s, StateOK(s), NEW pc, Save(l, s, pc), pc \notin WithTask,
           pc \in OutsideCycles \/ loop[l].cycle < MaxCycles, UNCHANGED <<mission, task>>
    PROVE  TypeInv'
<1> DEFINE x == [loop[l] EXCEPT !.st = s, !.pc = pc]
<1>1. LoopTyped(loop[l]) /\ loop = [k \in Loops |-> loop[k]]
      BY DEF TypeInv
<1>2. IsLoop(x) /\ x.st = s /\ x.pc = pc /\ x.cycle = loop[l].cycle
      BY <1>1 DEF IsLoop, LoopTyped
<1>3. \/ orch' = s /\ NewRevision({l}, evidence) /\ loop' = [loop EXCEPT ![l] = x]
      \/ Stop(l) /\ UNCHANGED <<orch, evidence, revisionVars>>
      BY <1>1 DEF Save
<1> HIDE DEF x
<1>4. LoopTyped(x) /\ x.pc # "assessing"
      BY <1>1, <1>2 DEF LoopTyped, WithTask
<1> QED BY <1>3, <1>4, PersistTypes

LEMMA CloseTypes ==
    ASSUME TypeInv, NEW l \in Loops, NEW s, StateOK(s), NEW end \in Terminal, Close(l, s, end),
           UNCHANGED <<mission, task>>
    PROVE  TypeInv'
<1> DEFINE n == [s EXCEPT !.terminal = end]
<1>1. StateOK(n)
      BY DEF StateOK, IsState
<1>2. Save(l, n, "closing") /\ "closing" \notin WithTask /\ "closing" \in OutsideCycles
      BY DEF Close, WithTask, OutsideCycles
<1> HIDE DEF n
<1> QED BY <1>1, <1>2, SaveTypes

\* Only the evidence and the revision change.
LEMMA RevisionTypes ==
    ASSUME TypeInv, UNCHANGED <<orch, task, loop>>, mission' \in MissionState,
           EvidenceOK(evidence'), EmptyStays(evidence, evidence'), fresh' \subseteq Loops, begun' \subseteq Loops
    PROVE  TypeInv'
<1>1. TasksOK(task', evidence') /\ EndsKept(task, task')
      BY RowsStay
<1> QED BY <1>1 DEF TypeInv, StateOK, IsState, LoopTyped, IsLoop, WithTask, OutsideCycles

LEMMA FinishCloseTypes == ASSUME TypeInv, NEW l \in Loops, FinishClose(l) PROVE TypeInv'
<1> DEFINE target == MissionStatusFor(St(l).terminal)
           steps == l \in fresh /\ target = "completed" /\ mission = "running"
           changes == UNCHANGED <<mission, evidence, revisionVars>>
                      \/ \E status \in MissionState : SetStatus(l, status)
<1>1. UNCHANGED <<orch, task>>
      BY DEF FinishClose
<1>2. target \in MissionState /\ "awaiting-review" \in MissionState
      BY DEF MissionStatusFor, MissionState
<1>3. changes
  <2>1. CASE steps
        BY <1>2, <2>1 DEF FinishClose
  <2>2. CASE ~steps
        BY <1>2, <2>2 DEF FinishClose
  <2> QED BY <2>1, <2>2
<1>4. /\ mission' \in MissionState /\ EvidenceOK(evidence') /\ EmptyStays(evidence, evidence')
      /\ fresh' \subseteq Loops /\ begun' \subseteq Loops
  <2>1. EvidenceOK(evidence) /\ EmptyStays(evidence, evidence)
        BY DEF TypeInv, EmptyStays
  <2>2. CASE UNCHANGED <<mission, evidence, revisionVars>>
        BY <2>1, <2>2 DEF TypeInv, revisionVars, EmptyStays, EvidenceOK
  <2>3. ASSUME NEW status \in MissionState, SetStatus(l, status)
        PROVE  /\ mission' \in MissionState /\ EvidenceOK(evidence') /\ EmptyStays(evidence, evidence')
               /\ fresh' \subseteq Loops /\ begun' \subseteq Loops
        BY <2>1, <2>3, RevisedTypes DEF SetStatus
  <2> QED BY <1>3, <2>2, <2>3
<1>5. CASE UNCHANGED loop
      BY <1>1, <1>4, <1>5, RevisionTypes
<1>6. CASE Stop(l)
  <2>1. TasksOK(task', evidence') /\ EndsKept(task, task')
        BY <1>1, <1>4, RowsStay
  <2>2. StateOK(orch')
        BY <1>1 DEF TypeInv, StateOK, IsState
  <2> QED BY <1>4, <1>6, <2>1, <2>2, StopTypes
<1>7. UNCHANGED loop \/ Stop(l)
  <2>1. CASE steps
        BY <2>1 DEF FinishClose
  <2>2. CASE ~steps
        BY <2>2 DEF FinishClose
  <2> QED BY <2>1, <2>2
<1> QED BY <1>5, <1>6, <1>7

LEMMA BeginTypes == ASSUME TypeInv, NEW l \in Loops, Begin(l) PROVE TypeInv'
<1> DEFINE x == [NoLoop EXCEPT !.pc = "assigning", !.st = orch, !.cycle = orch.cycle]
<1>1. IsLoop(x) /\ x.st = orch /\ x.pc = "assigning" /\ x.cycle = orch.cycle
      BY NoLoopOK DEF IsLoop
<1>2. loop' = [loop EXCEPT ![l] = x] /\ UNCHANGED <<orch, task>>
      BY DEF Begin
<1> HIDE DEF x
<1>3. LoopTyped(x) /\ x.pc # "assessing" /\ StateOK(orch')
      BY <1>1, <1>2 DEF TypeInv, LoopTyped, StateOK, IsState, OutsideCycles, WithTask
<1>4. /\ mission' \in MissionState /\ EvidenceOK(evidence') /\ EmptyStays(evidence, evidence')
      /\ fresh' \subseteq Loops /\ begun' \subseteq Loops
  <2>1. EvidenceOK(evidence) /\ EmptyStays(evidence, evidence)
        BY DEF TypeInv, EmptyStays
  <2>2. CASE mission = "running"
        BY <2>1, <2>2 DEF Begin, TypeInv
  <2>3. CASE mission # "running"
    <3>1. mission' = "running" /\ NewRevision({l}, evidence)
          BY <2>3 DEF Begin, SetStatus
    <3> QED BY <2>1, <3>1, RevisedTypes DEF MissionState
  <2> QED BY <2>2, <2>3
<1>5. TasksOK(task', evidence') /\ EndsKept(task, task')
      BY <1>2, <1>4, RowsStay
<1> QED BY <1>2, <1>3, <1>4, <1>5, TypesMove

\* A fallback is one of the entries of the profile.
LEMMA FallbackIsRoute ==
    ASSUME NEW s, Fallbacks(s) # {}
    PROVE  SelectBossFallbackEntry(s) \in Routes
<1>1. DOMAIN Entries \subseteq Nat
      BY EntriesOrdered
<1>2. SelectBossFallbackEntry(s) = Entries[CHOOSE i \in Fallbacks(s) : \A k \in Fallbacks(s) : i <= k]
      BY DEF SelectBossFallbackEntry
<1>3. Fallbacks(s) \subseteq DOMAIN Entries
      BY DEF Fallbacks
<1> DEFINE F == Fallbacks(s)
           i == CHOOSE i \in F : \A k \in F : i <= k
<1> HIDE DEF F
<1>4. i \in F
      BY <1>1, <1>3, LeastOf DEF F
<1>5. Entries[i] \in Routes
      BY <1>3, <1>4 DEF F, Routes, Range
<1> QED BY <1>2, <1>5 DEF F

LEMMA RouteTypes ==
    ASSUME TypeInv, NEW l \in Loops, Assign(l) \/ StartCycle(l) \/ InfrastructureFails(l)
    PROVE  TypeInv'
<1> DEFINE s == loop[l].st
<1>1. LoopTyped(loop[l]) /\ StateOK(s) /\ UNCHANGED <<mission, task>>
      BY DEF TypeInv, LoopTyped, Assign, StartCycle, InfrastructureFails
<1>2. ASSUME NEW end \in Terminal, Close(l, s, end) PROVE TypeInv'
      BY <1>1, <1>2, CloseTypes
<1>3. {"BLOCKED", "AWAITING_USER", "CANCELLED"} \subseteq Terminal
      BY DEF Terminal
<1>4. CASE Assign(l)
  <2>1. \/ \E end \in {"BLOCKED", "AWAITING_USER", "CANCELLED"} : Close(l, s, end)
        \/ \E x \in Weighted : Save(l, [s EXCEPT !.on = x], "cycling")
        \/ Goto(l, "cycling") /\ UNCHANGED <<orch, evidence, revisionVars>>
        BY <1>4 DEF Assign, Cancel, St
  <2>2. ASSUME NEW x \in Weighted, Save(l, [s EXCEPT !.on = x], "cycling") PROVE TypeInv'
    <3> DEFINE n == [s EXCEPT !.on = x]
    <3>1. x \in Routes
          BY RoutesKnown DEF Routes
    <3>2. StateOK(n)
          BY <1>1, <3>1 DEF StateOK, IsState
    <3>3. Save(l, n, "cycling") /\ "cycling" \notin WithTask /\ "cycling" \in OutsideCycles
          BY <2>2 DEF WithTask, OutsideCycles
    <3> HIDE DEF n
    <3> QED BY <1>1, <3>2, <3>3, SaveTypes
  <2>3. CASE Goto(l, "cycling") /\ UNCHANGED <<orch, evidence, revisionVars>>
    <3> DEFINE x == [loop[l] EXCEPT !.pc = "cycling"]
    <3>1. loop' = [loop EXCEPT ![l] = x]
          BY <2>3 DEF Goto
    <3>2. LoopTyped(x) /\ x.pc = "cycling"
          BY <1>1 DEF LoopTyped, IsLoop, OutsideCycles, WithTask
    <3> HIDE DEF x
    <3>3. EvidenceOK(evidence') /\ EmptyStays(evidence, evidence') /\ fresh' \subseteq Loops
          BY <2>3 DEF TypeInv, EmptyStays, EvidenceOK, revisionVars
    <3> QED BY <1>1, <2>3, <3>1, <3>2, <3>3, LoopSteps DEF revisionVars
  <2> QED BY <1>2, <1>3, <2>1, <2>2, <2>3
<1>5. CASE StartCycle(l)
  <2> DEFINE n == [s EXCEPT !.cycle = loop[l].cycle]
  <2>1. \/ \E end \in {"AWAITING_USER", "CANCELLED"} : Close(l, s, end)
        \/ loop[l].cycle < MaxCycles /\ Save(l, n, "planning")
        BY <1>5 DEF StartCycle, Cancel, St
  <2>2. StateOK(n) /\ "planning" \notin WithTask
        BY <1>1 DEF StateOK, IsState, LoopTyped, WithTask
  <2> HIDE DEF n
  <2> QED BY <1>1, <1>2, <1>3, <2>1, <2>2, SaveTypes
<1>6. CASE InfrastructureFails(l)
  <2> DEFINE x == SelectBossFallbackEntry(s)
             n == [s EXCEPT !.on = x, !.history = @ \cup {[from |-> s.on, to |-> x]}]
  <2>1. loop[l].pc \in {"planning", "evaluating"}
        BY <1>6 DEF InfrastructureFails, Asking, At
  <2>2. CASE Fallbacks(s) = {}
        BY <1>2, <1>3, <1>6, <2>2 DEF InfrastructureFails, St
  <2>3. CASE Fallbacks(s) # {}
    <3>1. x \in Routes
          BY <2>3, FallbackIsRoute
    <3>2. Save(l, n, loop[l].pc)
          BY <1>6, <2>3 DEF InfrastructureFails, St
    <3> HIDE DEF x
    <3>3. StateOK(n)
          BY <1>1, <3>1 DEF StateOK, IsState
    <3> HIDE DEF n
    <3>4. loop[l].pc \notin WithTask /\ loop[l].cycle < MaxCycles
          BY <1>1, <2>1 DEF LoopTyped, WithTask, OutsideCycles
    <3> QED BY <1>1, <3>2, <3>3, <3>4, SaveTypes
  <2> QED BY <2>2, <2>3
<1> QED BY <1>4, <1>5, <1>6

\* A cycle is counted while there is one left.
LEMMA AnswerTypes == ASSUME TypeInv, NEW l \in Loops, BossAnswers(l) PROVE TypeInv'
<1> DEFINE s == loop[l].st
           next == loop[l].cycle + 1
<1>1. LoopTyped(loop[l]) /\ IsLoop(loop[l]) /\ StateOK(s) /\ MaxCycles \in Nat
      BY CycleBounds DEF TypeInv, LoopTyped
<1>2. Asking(l) => loop[l].cycle \in 0 .. MaxCycles /\ next \in 0 .. MaxCycles
      BY <1>1 DEF LoopTyped, Asking, At, OutsideCycles
<1>3. ASSUME NEW end \in Terminal, NEW n, StateOK(n), Close(l, n, end), UNCHANGED <<mission, task>> PROVE TypeInv'
      BY <1>3, CloseTypes
<1>4. {"BLOCKED", "AWAITING_USER", "CANCELLED", "SAFETY_STOP", "COMPLETED"} \subseteq Terminal
      BY DEF Terminal
<1>5. ASSUME NEW answer, BossAborts(l, answer) PROVE TypeInv'
  <2>1. UNCHANGED <<mission, task>> /\ \E end \in {"CANCELLED", "SAFETY_STOP"} : Close(l, s, end)
        BY <1>5 DEF BossAborts, St
  <2> QED BY <1>1, <1>3, <1>4, <2>1
<1>6. ASSUME NEW e, ProtocolFails(l, e) PROVE TypeInv'
  <2> DEFINE n == [s EXCEPT !.err = e]
             x == [loop[l] EXCEPT !.st = n, !.pc = "cycling", !.cycle = @ + 1, !.repeated = RepeatedError(l, e)]
  <2>1. UNCHANGED <<mission, task>> /\ Asking(l)
        BY <1>6 DEF ProtocolFails
  <2>2. \/ Close(l, n, "AWAITING_USER")
        \/ orch' = n /\ NewRevision({l}, evidence) /\ loop' = [loop EXCEPT ![l] = x]
        \/ Stop(l) /\ UNCHANGED <<orch, evidence, revisionVars>>
        BY <1>1, <1>6 DEF ProtocolFails, St, TypeInv
  <2>3. StateOK(n)
        BY <1>1 DEF IsState, StateOK
  <2> HIDE DEF n
  <2>4. IsLoop(x) /\ x.st = n /\ x.pc = "cycling" /\ x.cycle = next
        BY <1>1 DEF IsLoop
  <2> HIDE DEF x
  <2>5. LoopTyped(x) /\ x.pc # "assessing"
        BY <1>2, <2>1, <2>3, <2>4 DEF LoopTyped, OutsideCycles, WithTask
  <2> QED BY <1>3, <1>4, <2>1, <2>2, <2>3, <2>5, PersistTypes
<1>7. ASSUME NEW action, NEW satisfied, PlanDecided(l, action, satisfied) PROVE TypeInv'
  <2> DEFINE x == [loop[l] EXCEPT !.pc = "choosing", !.left = MaxTasks]
  <2>1. UNCHANGED <<mission, task>> /\ loop[l].pc = "planning"
        BY <1>7 DEF PlanDecided, At
  <2>2. \/ \E end \in {"BLOCKED", "AWAITING_USER", "COMPLETED"} : Close(l, s, end)
        \/ orch' = s /\ NewRevision({l}, evidence) /\ loop' = [loop EXCEPT ![l] = x]
        \/ Stop(l) /\ UNCHANGED <<orch, evidence, revisionVars>>
        BY <1>1, <1>7 DEF PlanDecided, St, EndFor, TypeInv
  <2>3. IsLoop(x) /\ x.st = s /\ x.pc = "choosing" /\ x.cycle = loop[l].cycle
        BY <1>1 DEF IsLoop
  <2> HIDE DEF x
  <2>4. LoopTyped(x) /\ x.pc # "assessing"
        BY <1>1, <2>1, <2>3 DEF LoopTyped, OutsideCycles, WithTask
  <2> QED BY <1>1, <1>3, <1>4, <2>1, <2>2, <2>4, PersistTypes
<1>8. ASSUME NEW action, NEW satisfied, EvaluationDecided(l, action, satisfied) PROVE TypeInv'
  <2> DEFINE n == [s EXCEPT !.cycle = loop[l].cycle + 1]
             x == [loop[l] EXCEPT !.st = n, !.pc = "cycling", !.cycle = @ + 1]
  <2>1. UNCHANGED <<mission, task>> /\ Asking(l)
        BY <1>8 DEF EvaluationDecided, Asking
  <2>2. \/ \E end \in {"BLOCKED", "AWAITING_USER", "COMPLETED"} : Close(l, s, end)
        \/ Close(l, n, "AWAITING_USER")
        \/ orch' = n /\ NewRevision({l}, evidence) /\ loop' = [loop EXCEPT ![l] = x]
        \/ Stop(l) /\ UNCHANGED <<orch, evidence, revisionVars>>
        BY <1>1, <1>8 DEF EvaluationDecided, St, EndFor, TypeInv
  <2>3. StateOK(n)
        BY <1>1, <1>2, <2>1 DEF IsState, StateOK
  <2> HIDE DEF n
  <2>4. IsLoop(x) /\ x.st = n /\ x.pc = "cycling" /\ x.cycle = next
        BY <1>1 DEF IsLoop
  <2> HIDE DEF x
  <2>5. LoopTyped(x) /\ x.pc # "assessing"
        BY <1>2, <2>1, <2>3, <2>4 DEF LoopTyped, OutsideCycles, WithTask
  <2> QED BY <1>1, <1>3, <1>4, <2>1, <2>2, <2>3, <2>5, PersistTypes
<1> QED BY <1>5, <1>6, <1>7, <1>8, RouteTypes DEF BossAnswers

\* What the provers need of the row of one task.
LEMMA RowIs ==
    ASSUME TypeInv, NEW t \in Tasks
    PROVE  RowOK(task[t], evidence[t]) /\ IsTask(task[t]) /\ task = [k \in Tasks |-> task[k]]
BY DEF TypeInv, TasksOK, RowOK

\* A run begins on a task that none runs on.
LEMMA RunTypes ==
    ASSUME TypeInv, NEW l \in Loops, NEW t \in Tasks, StartRun(l, t), UNCHANGED evidence
    PROVE  TasksOK(task', evidence') /\ EndsKept(task, task') /\ begun' \subseteq Loops
<1> DEFINE r == [task[t] EXCEPT !.status = "running", !.quality = "unverified", !.run = l]
<1>1. RowOK(task[t], evidence[t]) /\ IsTask(task[t]) /\ task = [k \in Tasks |-> task[k]]
      BY RowIs
<1>2. task' = [task EXCEPT ![t] = r] /\ begun' = begun \cup {l}
      BY <1>1 DEF StartRun
<1>3. IsTask(r) /\ r.status = "running" /\ r.run = l /\ r.end = task[t].end
      BY <1>1 DEF IsTask
<1> HIDE DEF r
<1>4. RowOK(r, evidence[t])
      BY <1>1, <1>3, NoTextIsNone DEF RowOK
<1> QED BY <1>2, <1>3, <1>4, RowChanges DEF TypeInv

LEMMA ChoiceTypes ==
    ASSUME TypeInv, NEW l \in Loops, NEW t \in Tasks, NEW w, ChooseTask(l, t, w)
    PROVE  TypeInv'
<1> DEFINE x == [loop[l] EXCEPT !.left = @ - 1]
           y(pc) == Chosen(l, t, w, pc)
           planned == [task[t] EXCEPT !.status = IF @ = "absent" THEN "planned" ELSE @]
<1>1. LoopTyped(loop[l]) /\ loop[l].pc = "choosing" /\ UNCHANGED mission
      BY DEF TypeInv, ChooseTask, At
<1>2. LoopTyped(x) /\ x.pc # "assessing"
      BY <1>1 DEF LoopTyped, IsLoop, WithTask, OutsideCycles
<1>3. \A pc \in {"working", "judging"} : LoopTyped(y(pc)) /\ y(pc).pc # "assessing"
      BY <1>1 DEF LoopTyped, IsLoop, Chosen, WithTask, OutsideCycles
<1> HIDE DEF x, y
<1>4. \/ loop' = [loop EXCEPT ![l] = x] /\ UNCHANGED <<orch, evidence, revisionVars, task>>
      \/ Close(l, loop[l].st, "AWAITING_USER") /\ UNCHANGED task
      \/ \E pc \in {"working", "judging"} :
            /\ loop' = [loop EXCEPT ![l] = y(pc)] /\ UNCHANGED <<orch, evidence, fresh>>
            /\ \/ StartRun(l, t)
               \/ task' = [task EXCEPT ![t].status = IF @ = "absent" THEN "planned" ELSE @] /\ UNCHANGED begun
               \/ UNCHANGED <<task, begun>>
  <2>1. CASE Verified(t)
        BY <2>1 DEF ChooseTask, x
  <2>2. CASE ~Verified(t) /\ PlannedAgain(l, t, w)
        BY <2>2 DEF ChooseTask, St
  <2>3. CASE ~Verified(t) /\ ~PlannedAgain(l, t, w)
        BY <2>3 DEF ChooseTask, y, revisionVars
  <2> QED BY <2>1, <2>2, <2>3
<1>5. CASE loop' = [loop EXCEPT ![l] = x] /\ UNCHANGED <<orch, evidence, revisionVars, task>>
  <2>1. EvidenceOK(evidence') /\ EmptyStays(evidence, evidence') /\ fresh' \subseteq Loops
        BY <1>5 DEF TypeInv, EmptyStays, EvidenceOK, revisionVars
  <2> QED BY <1>1, <1>2, <1>5, <2>1, LoopSteps DEF revisionVars
<1>6. CASE Close(l, loop[l].st, "AWAITING_USER") /\ UNCHANGED task
      BY <1>1, <1>6, CloseTypes DEF LoopTyped, Terminal
<1>7. ASSUME NEW pc \in {"working", "judging"},
             loop' = [loop EXCEPT ![l] = y(pc)], UNCHANGED <<orch, evidence, fresh>>,
             \/ StartRun(l, t)
             \/ task' = [task EXCEPT ![t].status = IF @ = "absent" THEN "planned" ELSE @] /\ UNCHANGED begun
             \/ UNCHANGED <<task, begun>>
      PROVE  TypeInv'
  <2>1. TasksOK(task', evidence') /\ EndsKept(task, task') /\ begun' \subseteq Loops
    <3>1. CASE StartRun(l, t)
          BY <1>7, <3>1, RunTypes
    <3>2. CASE task' = [task EXCEPT ![t].status = IF @ = "absent" THEN "planned" ELSE @] /\ UNCHANGED begun
      <4>1. RowOK(task[t], evidence[t]) /\ IsTask(task[t]) /\ task = [k \in Tasks |-> task[k]]
            BY RowIs
      <4>2. task' = [task EXCEPT ![t] = planned]
            BY <3>2, <4>1
      <4>3. /\ IsTask(planned) /\ planned.run = task[t].run /\ planned.end = task[t].end
            /\ planned.status = "running" <=> task[t].status = "running"
            BY <4>1 DEF IsTask
      <4> HIDE DEF planned
      <4>4. RowOK(planned, evidence'[t])
            BY <1>7, <4>1, <4>3 DEF RowOK
      <4>5. TasksOK(task', evidence') /\ EndsKept(task, task')
            BY <1>7, <4>2, <4>3, <4>4, RowChanges
      <4> QED BY <3>2, <4>5 DEF TypeInv
    <3>3. CASE UNCHANGED <<task, begun>>
          BY <1>7, <3>3, RowsStay DEF TypeInv, EmptyStays
    <3> QED BY <1>7, <3>1, <3>2, <3>3
  <2>2. /\ mission' \in MissionState /\ StateOK(orch') /\ EvidenceOK(evidence') /\ fresh' \subseteq Loops
        BY <1>1, <1>7 DEF TypeInv, StateOK, IsState, EvidenceOK
  <2> DEFINE z == y(pc)
  <2>3. LoopTyped(z) /\ z.pc # "assessing" /\ loop' = [loop EXCEPT ![l] = z]
        BY <1>3, <1>7
  <2> HIDE DEF z
  <2> QED BY <2>1, <2>2, <2>3, TypesMove
<1> QED BY <1>4, <1>5, <1>6, <1>7

\* Work that ended leaves how it ended, and nobody's run.
LEMMA WorkerTypes == ASSUME TypeInv, NEW l \in Loops, NEW how \in RunEnds, WorkerEnds(l, how) PROVE TypeInv'
<1> DEFINE t == loop[l].task
           reported == IF how \in Reports
                         THEN Admitted(evidence, t, "implementation-result", SourceOf(l)) ELSE evidence
           r == [task[t] EXCEPT !.status = StatusAfter(how), !.run = NoText,
                                !.end = IF how \in Reports THEN "succeeded" ELSE how]
<1>1. /\ LoopTyped(loop[l]) /\ loop[l].pc \in {"working", "continuing"} /\ t \in Tasks
      /\ EvidenceOK(evidence) /\ UNCHANGED <<mission, orch, fresh>> /\ begun' = begun \ {l}
      BY DEF TypeInv, LoopTyped, WorkerEnds, Working, At, WithTask
<1>2. RowOK(task[t], evidence[t]) /\ IsTask(task[t]) /\ task = [k \in Tasks |-> task[k]]
      BY <1>1, RowIs
<1>3. task' = [task EXCEPT ![t] = r]
      BY <1>2 DEF WorkerEnds
<1>4. IsTask(r) /\ r.status = StatusAfter(how) /\ r.run = NoText /\ r.end \in RunEnds \cup {"succeeded"}
      BY <1>2 DEF IsTask
<1> HIDE DEF r
<1>5. StatusAfter(how) # "running"
      BY DEF StatusAfter
<1>6. r.end # NoText /\ RowOK(r, evidence'[t])
      BY <1>4, <1>5, NoTextIsNone DEF RowOK
<1>7. EvidenceOK(reported) /\ \A k \in Tasks \ {t} : reported[k] = evidence[k]
  <2> DEFINE src == SourceOf(l)
             f == Admitted(evidence, t, "implementation-result", src)
  <2>1. src \in {"now", "past", "none"} /\ "implementation-result" \in EvidenceKind
        BY DEF SourceOf, EvidenceKind
  <2> HIDE DEF src
  <2>2. EvidenceOK(f)
        BY <1>1, <2>1, AdmittedKeeps
  <2>3. \A k \in Tasks \ {t} : f[k] = evidence[k]
        BY <1>1 DEF Admitted, EvidenceOK
  <2>4. reported \in {evidence, f}
        BY DEF src
  <2> HIDE DEF f, reported
  <2> QED BY <1>1, <2>2, <2>3, <2>4
<1> HIDE DEF reported
<1>8. evidence' = reported \/ evidence' = Admitted(reported, t, "other", "none")
      BY DEF WorkerEnds, reported
<1>9. EvidenceOK(evidence') /\ \A k \in Tasks \ {t} : evidence'[k] = evidence[k]
  <2> DEFINE f == Admitted(reported, t, "other", "none")
  <2>1. "other" \in EvidenceKind
        BY DEF EvidenceKind
  <2>2. EvidenceOK(f)
        BY <1>1, <1>7, <2>1, AdmittedKeeps
  <2>3. \A k \in Tasks \ {t} : f[k] = reported[k]
        BY <1>1, <1>7 DEF Admitted, EvidenceOK
  <2> HIDE DEF f
  <2> QED BY <1>7, <1>8, <2>2, <2>3 DEF f
<1>10. TasksOK(task', evidence') /\ EndsKept(task, task') /\ task'[t] = r
       BY <1>1, <1>3, <1>6, <1>9, RowChanges
<1>11. PICK pc \in AfterRun(l, how) : Goto(l, pc)
       BY DEF WorkerEnds
<1>12. pc \in {"verifying", "stopping", "judging", "unsafe", "assessing"}
       BY <1>11 DEF AfterRun
<1> DEFINE x == [loop[l] EXCEPT !.pc = pc]
<1>13. LoopTyped(x) /\ x.task = t
       BY <1>1, <1>12 DEF LoopTyped, IsLoop, WithTask, OutsideCycles
<1>14. loop' = [loop EXCEPT ![l] = x]
       BY <1>11 DEF Goto
<1> HIDE DEF x
<1>15. mission' \in MissionState /\ StateOK(orch') /\ fresh' \subseteq Loops /\ begun' \subseteq Loops
       BY <1>1 DEF TypeInv, StateOK, IsState
<1>16. x.pc = "assessing" => task'[x.task].end # NoText
       BY <1>6, <1>10, <1>13
<1> QED BY <1>9, <1>10, <1>13, <1>14, <1>15, <1>16, TypesMove

\* Steps that change neither the tasks nor the revision.
LEMMA PlainTypes ==
    ASSUME TypeInv, NEW l \in Loops, NEW pc, Goto(l, pc), pc # "assessing", loop[l].cycle < MaxCycles,
           pc \in WithTask => loop[l].task \in Tasks, mission' \in MissionState, UNCHANGED orch,
           EvidenceOK(evidence'), fresh' \subseteq Loops, begun' \subseteq Loops,
           TasksOK(task', evidence'), EndsKept(task, task')
    PROVE  TypeInv'
<1> DEFINE x == [loop[l] EXCEPT !.pc = pc]
<1>1. LoopTyped(loop[l])
      BY DEF TypeInv
<1>2. IsLoop(x) /\ x.st = loop[l].st /\ x.pc = pc /\ x.task = loop[l].task /\ x.cycle = loop[l].cycle
      BY <1>1 DEF LoopTyped, IsLoop
<1>3. loop' = [loop EXCEPT ![l] = x]
      BY DEF Goto
<1> HIDE DEF x
<1>4. LoopTyped(x) /\ StateOK(orch')
      BY <1>1, <1>2 DEF LoopTyped, TypeInv, StateOK, IsState
<1> QED BY <1>2, <1>3, <1>4, TypesMove

LEMMA TaskStepTypes ==
    ASSUME TypeInv, NEW l \in Loops, EndTasks(l) \/ DispatchAborts(l) \/ WorkerIsLate(l) \/ Assess(l) \/ Decide(l)
    PROVE  TypeInv'
<1> DEFINE t == loop[l].task
<1>1. LoopTyped(loop[l]) /\ EvidenceOK(evidence) /\ fresh \subseteq Loops /\ begun \subseteq Loops
      BY DEF TypeInv
<1>2. mission' \in MissionState
      BY DEF TypeInv, EndTasks, DispatchAborts, WorkerIsLate, Assess, Decide
<1>3. UNCHANGED evidence => EvidenceOK(evidence') /\ EmptyStays(evidence, evidence')
      BY <1>1 DEF EmptyStays, EvidenceOK
<1>4. CASE EndTasks(l)
  <2> DEFINE x == [loop[l] EXCEPT !.pc = "evaluating", !.left = 0]
  <2>1. /\ loop' = [loop EXCEPT ![l] = x] /\ loop[l].pc = "choosing"
        /\ UNCHANGED <<evidence, revisionVars, mission, orch, task>>
        BY <1>4 DEF EndTasks, At
  <2>2. LoopTyped(x) /\ x.pc # "assessing"
        BY <1>1, <2>1 DEF LoopTyped, IsLoop, OutsideCycles, WithTask
  <2> HIDE DEF x
  <2> QED BY <1>1, <1>3, <2>1, <2>2, LoopSteps DEF revisionVars
<1>5. CASE DispatchAborts(l)
  <2>1. UNCHANGED <<mission, task>> /\ \E end \in {"CANCELLED", "SAFETY_STOP"} : Close(l, loop[l].st, end)
        BY <1>5 DEF DispatchAborts, Cancel, St
  <2>2. StateOK(loop[l].st) /\ {"CANCELLED", "SAFETY_STOP"} \subseteq Terminal
        BY <1>1 DEF LoopTyped, Terminal
  <2> QED BY <2>1, <2>2, CloseTypes
<1>6. CASE WorkerIsLate(l)
  <2>1. /\ loop[l].pc \in {"working", "continuing"} /\ Goto(l, "judging") /\ begun' = begun \ {l}
        /\ UNCHANGED <<evidence, fresh, orch, task>>
        BY <1>6 DEF WorkerIsLate, Working, At
  <2>2. loop[l].cycle < MaxCycles /\ t \in Tasks
        BY <1>1, <2>1 DEF LoopTyped, WithTask, OutsideCycles
  <2>3. TasksOK(task', evidence') /\ EndsKept(task, task')
        BY <1>3, <2>1, RowsStay
  <2> QED BY <1>1, <1>2, <1>3, <2>1, <2>2, <2>3, PlainTypes
<1>7. CASE Assess(l)
  <2>1. /\ loop[l].pc = "assessing" /\ UNCHANGED <<fresh, begun, orch, task>>
        /\ evidence' = Admitted(evidence, t, "recovery-assessment", "none")
        BY <1>7 DEF Assess, At, revisionVars
  <2>2. loop[l].cycle < MaxCycles /\ t \in Tasks /\ task[t].end # NoText
        BY <1>1, <2>1 DEF LoopTyped, WithTask, OutsideCycles, TypeInv
  <2>3. "recovery-assessment" \in EvidenceKind
        BY DEF EvidenceKind
  <2>4. EvidenceOK(evidence') /\ \A k \in Tasks \ {t} : evidence'[k] = evidence[k]
        BY <1>1, <2>1, <2>2, <2>3, AdmittedKeeps DEF Admitted, EvidenceOK
  <2>5. TasksOK(task', evidence') /\ EndsKept(task, task')
        BY <2>1, <2>2, <2>4 DEF TypeInv, TasksOK, RowOK, EndsKept
  <2>6. PICK pc \in {"deciding", "judging", "stopping"} : Goto(l, pc)
        BY <1>7 DEF Assess
  <2> QED BY <1>1, <1>2, <2>1, <2>2, <2>4, <2>5, <2>6, PlainTypes
<1>8. CASE Decide(l)
  <2>1. loop[l].pc = "deciding" /\ UNCHANGED <<evidence, fresh, orch>>
        BY <1>8 DEF Decide, At
  <2>2. loop[l].cycle < MaxCycles /\ t \in Tasks
        BY <1>1, <2>1 DEF LoopTyped, WithTask, OutsideCycles
  <2>3. PICK pc \in {"continuing", "judging", "stopping"} :
           Goto(l, pc) /\ (StartRun(l, t) \/ UNCHANGED <<begun, task>>)
        BY <1>8 DEF Decide
  <2>4. TasksOK(task', evidence') /\ EndsKept(task, task') /\ begun' \subseteq Loops
    <3>1. CASE StartRun(l, t)
          BY <2>1, <2>2, <3>1, RunTypes
    <3>2. CASE UNCHANGED <<begun, task>>
          BY <1>1, <1>3, <2>1, <3>2, RowsStay
    <3> QED BY <2>3, <3>1, <3>2
  <2> QED BY <1>1, <1>2, <1>3, <2>1, <2>2, <2>3, <2>4, PlainTypes
<1> QED BY <1>4, <1>5, <1>6, <1>7, <1>8

\* A verdict changes no end of a run, and nobody's run.
LEMMA ReviewTypes ==
    ASSUME TypeInv, NEW l \in Loops,
           \/ OpenReview(l) \/ ReviewerPasses(l) \/ ReviewerFails(l) \/ ReviewerAborts(l)
           \/ \E fix, verdict : ReviewerRejects(l, fix, verdict)
    PROVE  TypeInv'
<1> DEFINE t == loop[l].task
           r(review, quality, decision) ==
             [task[t] EXCEPT !.review = review, !.quality = quality, !.decision = decision]
           x == [loop[l] EXCEPT !.pc = "promoting", !.item = 1]
           y == NextTask(l)
<1>1. /\ LoopTyped(loop[l]) /\ loop[l].pc \in {"verifying", "reviewing"} /\ t \in Tasks
      /\ loop[l].cycle < MaxCycles /\ UNCHANGED <<evidence, fresh, begun, mission, orch>>
      BY DEF TypeInv, LoopTyped, WithTask, OutsideCycles, At, revisionVars,
             OpenReview, ReviewerPasses, ReviewerFails, ReviewerAborts, ReviewerRejects
<1>2. RowOK(task[t], evidence[t]) /\ IsTask(task[t]) /\ task = [k \in Tasks |-> task[k]]
      BY <1>1, RowIs
<1>3. /\ EvidenceOK(evidence') /\ EmptyStays(evidence, evidence') /\ fresh' \subseteq Loops /\ begun' \subseteq Loops
      /\ mission' \in MissionState
      BY <1>1 DEF TypeInv, EmptyStays, EvidenceOK
<1>4. \/ UNCHANGED task
      \/ task' = [task EXCEPT ![t].review = l, ![t].quality = "verification_running"]
      \/ \E quality, decision : task' = ReviewEnded(t, quality, decision)
      BY DEF OpenReview, ReviewerPasses, ReviewerFails, ReviewerAborts, ReviewerRejects
<1>5. TasksOK(task', evidence') /\ EndsKept(task, task')
  <2>1. CASE UNCHANGED task
        BY <1>3, <2>1, RowsStay
  <2>2. ASSUME NEW review, NEW quality, NEW decision, task' = [task EXCEPT ![t] = r(review, quality, decision)]
        PROVE  TasksOK(task', evidence') /\ EndsKept(task, task')
    <3> DEFINE z == r(review, quality, decision)
    <3>1. IsTask(z) /\ z.status = task[t].status /\ z.run = task[t].run /\ z.end = task[t].end
          BY <1>2 DEF IsTask
    <3>2. task' = [task EXCEPT ![t] = z]
          BY <2>2
    <3> HIDE DEF z
    <3>3. RowOK(z, evidence'[t])
          BY <1>1, <1>2, <3>1 DEF RowOK
    <3> QED BY <1>1, <3>1, <3>2, <3>3, RowChanges
  <2>3. CASE task' = [task EXCEPT ![t].review = l, ![t].quality = "verification_running"]
    <3>1. task' = [task EXCEPT ![t] = r(l, "verification_running", task[t].decision)]
          BY <1>2, <2>3 DEF IsTask
    <3> QED BY <2>2, <3>1
  <2>4. ASSUME NEW quality, NEW decision, task' = ReviewEnded(t, quality, decision)
        PROVE  TasksOK(task', evidence') /\ EndsKept(task, task')
    <3>1. task' = [task EXCEPT ![t] = r(NoText, quality, decision)]
          BY <1>2, <2>4 DEF ReviewEnded
    <3> QED BY <2>2, <3>1
  <2> QED BY <1>4, <2>1, <2>3, <2>4
<1> HIDE DEF r
<1>6. LoopTyped(x) /\ x.pc # "assessing" /\ LoopTyped(y) /\ y.pc # "assessing"
      BY <1>1 DEF LoopTyped, IsLoop, NextTask, WithTask, OutsideCycles
<1>7. \/ \E pc \in {"reviewing", "judging", "stopping"} : Goto(l, pc)
      \/ loop' = [loop EXCEPT ![l] = x]
      \/ loop' = [loop EXCEPT ![l] = y]
      BY <1>1 DEF OpenReview, ReviewerPasses, ReviewerFails, ReviewerAborts, ReviewerRejects
<1>8. StateOK(orch')
      BY <1>1 DEF TypeInv, StateOK, IsState
<1> HIDE DEF x, y
<1>9. CASE \E pc \in {"reviewing", "judging", "stopping"} : Goto(l, pc)
      BY <1>1, <1>3, <1>5, <1>9, PlainTypes
<1>10. CASE loop' = [loop EXCEPT ![l] = x]
       BY <1>3, <1>5, <1>6, <1>8, <1>10, TypesMove
<1>11. CASE loop' = [loop EXCEPT ![l] = y]
       BY <1>3, <1>5, <1>6, <1>8, <1>11, TypesMove
<1> QED BY <1>7, <1>9, <1>10, <1>11

LEMMA EvidenceReviewTypes ==
    ASSUME TypeInv, NEW t \in Tasks, NEW i \in Proposed(t), PromoteEvidence(t, i) \/ RejectEvidence(t, i)
    PROVE  /\ EvidenceOK(evidence') /\ EmptyStays(evidence, evidence')
           /\ fresh' \subseteq Loops /\ begun' \subseteq Loops
<1> DEFINE f(status) == Reviewed(t, i, status)
<1>1. EvidenceOK(evidence) /\ i \in DOMAIN evidence[t] /\ evidence[t] # <<>>
      BY DEF TypeInv, Proposed
<1>2. \A status \in {"proposed", "accepted", "rejected", "stale"} : EvidenceOK(f(status))
      BY <1>1, ReviewedKeeps
<1>3. \A status : EmptyStays(evidence, f(status))
      BY <1>1 DEF Reviewed, EmptyStays, EvidenceOK
<1>4. \/ evidence' = f("stale") /\ UNCHANGED revisionVars
      \/ evidence' = f("rejected") /\ UNCHANGED revisionVars
      \/ NewRevision({}, f("accepted"))
      BY DEF PromoteEvidence, RejectEvidence
<1> HIDE DEF f
<1>5. CASE NewRevision({}, f("accepted"))
  <2> DEFINE g == f("accepted")
  <2>1. EvidenceOK(g) /\ EmptyStays(evidence, g) /\ NewRevision({}, g)
        BY <1>2, <1>3, <1>5
  <2> HIDE DEF g
  <2> QED BY <1>1, <2>1, RevisedTypes
<1>6. CASE (evidence' = f("stale") \/ evidence' = f("rejected")) /\ UNCHANGED revisionVars
      BY <1>2, <1>3, <1>6 DEF TypeInv, revisionVars
<1> QED BY <1>4, <1>5, <1>6

LEMMA PromoteTypes == ASSUME TypeInv, NEW l \in Loops, Promote(l) PROVE TypeInv'
<1> DEFINE t == loop[l].task
           todo == {i \in Proposed(t) : i >= loop[l].item}
           next == CHOOSE i \in todo : \A k \in todo : i <= k
           x == [loop[l] EXCEPT !.item = next + 1]
           y == NextTask(l)
<1>1. /\ LoopTyped(loop[l]) /\ loop[l].pc = "promoting" /\ t \in Tasks
      /\ EvidenceOK(evidence) /\ UNCHANGED <<mission, orch, task>>
      BY DEF TypeInv, LoopTyped, Promote, At, WithTask
<1>2. LoopTyped(y) /\ y.pc # "assessing" /\ LoopTyped(x) /\ x.pc # "assessing"
      BY <1>1 DEF LoopTyped, IsLoop, NextTask, WithTask, OutsideCycles
<1>3. CASE todo = {}
  <2>1. loop' = [loop EXCEPT ![l] = y] /\ UNCHANGED <<evidence, begun>> /\ fresh' = fresh \cup {l}
        BY <1>3 DEF Promote
  <2> HIDE DEF y
  <2>2. EvidenceOK(evidence') /\ EmptyStays(evidence, evidence') /\ fresh' \subseteq Loops
        BY <1>1, <2>1 DEF TypeInv, EmptyStays
  <2> QED BY <1>1, <1>2, <2>1, <2>2, LoopSteps
<1>4. CASE todo # {}
  <2>1. PromoteEvidence(t, next) /\ loop' = [loop EXCEPT ![l] = x]
        BY <1>1, <1>4 DEF Promote
  <2>2. next \in todo
    <3>1. todo \subseteq Nat
      <4>1. evidence[t] \in Seq(EvidenceRow)
            BY <1>1 DEF EvidenceOK
      <4>2. DOMAIN evidence[t] = 1 .. Len(evidence[t]) /\ Len(evidence[t]) \in Nat
            BY <4>1
      <4>3. \A i \in 1 .. Len(evidence[t]) : i \in Nat
            BY <4>2
      <4> QED BY <4>2, <4>3 DEF Proposed
    <3> HIDE DEF todo
    <3> QED BY <1>4, <3>1, LeastOf
  <2>3. next \in Proposed(t)
        BY <2>2
  <2> HIDE DEF todo, next, x, t
  <2>4. /\ EvidenceOK(evidence') /\ EmptyStays(evidence, evidence')
        /\ fresh' \subseteq Loops /\ begun' \subseteq Loops
        BY <1>1, <2>1, <2>3, EvidenceReviewTypes
  <2>5. TasksOK(task', evidence') /\ EndsKept(task, task') /\ StateOK(orch') /\ mission' \in MissionState
        BY <1>1, <2>4, RowsStay DEF TypeInv, StateOK, IsState
  <2> QED BY <1>2, <2>1, <2>4, <2>5, TypesMove
<1> QED BY <1>3, <1>4

LEMMA JudgeTypes == ASSUME TypeInv, NEW l \in Loops, Judge(l) PROVE TypeInv'
<1> DEFINE s == loop[l].st
           fp == Fingerprint(loop[l].task, loop[l].words)
           n == IF s.fp = fp THEN s.count + 1 ELSE 1
           u == [s EXCEPT !.fp = fp, !.count = n]
           v == IF fp = NoText THEN s ELSE u
           x == [NextTask(l) EXCEPT !.st = v]
<1>1. LoopTyped(loop[l]) /\ StateOK(s) /\ loop[l].pc = "judging" /\ UNCHANGED <<mission, task>>
      BY DEF TypeInv, LoopTyped, Judge, At
<1>2. \/ Close(l, v, "AWAITING_USER")
      \/ loop' = [loop EXCEPT ![l] = x] /\ UNCHANGED <<orch, evidence, revisionVars>>
      BY DEF Judge, St
<1>3. StateOK(v)
  <2>1. StateOK(u)
        BY <1>1 DEF StateOK, IsState
  <2>2. v \in {s, u}
        OBVIOUS
  <2> HIDE DEF u, v
  <2> QED BY <1>1, <2>1, <2>2
<1> HIDE DEF v
<1>4. LoopTyped(x) /\ x.pc # "assessing"
  <2>1. /\ IsLoop(x) /\ x.st = v /\ x.pc = "choosing" /\ x.cycle = loop[l].cycle
        BY <1>1 DEF LoopTyped, IsLoop, NextTask
  <2> HIDE DEF x
  <2> QED BY <1>1, <1>3, <2>1 DEF LoopTyped, WithTask, OutsideCycles
<1> HIDE DEF x
<1>5. CASE Close(l, v, "AWAITING_USER")
      BY <1>1, <1>3, <1>5, CloseTypes DEF Terminal
<1>6. CASE loop' = [loop EXCEPT ![l] = x] /\ UNCHANGED <<orch, evidence, revisionVars>>
  <2>1. EvidenceOK(evidence') /\ EmptyStays(evidence, evidence') /\ fresh' \subseteq Loops
        BY <1>6 DEF TypeInv, EmptyStays, EvidenceOK, revisionVars
  <2> QED BY <1>1, <1>4, <1>6, <2>1, LoopSteps DEF revisionVars
<1> QED BY <1>2, <1>5, <1>6

\* A recovery ends every run it finds, in other processes too, and says how.
LEMMA RecoverTypes ==
    ASSUME TypeInv, NEW gone, Recover(gone)
    PROVE  /\ mission' \in MissionState /\ StateOK(orch') /\ EvidenceOK(evidence')
           /\ fresh' \subseteq Loops /\ begun' \subseteq Loops
           /\ TasksOK(task', evidence') /\ EndsKept(task, task')
<1> DEFINE run == {t \in Tasks : task[t].run # NoText}
           reviewed == {t \in Tasks : task[t].review # NoText}
           r(t) == [task[t] EXCEPT !.status = IF t \in run THEN "interrupted" ELSE @,
                                   !.end = IF t \in run THEN "recovered_interrupted" ELSE @,
                                   !.quality = IF t \in reviewed THEN "review_required" ELSE @,
                                   !.run = NoText, !.review = NoText]
           o == [orch EXCEPT !.terminal = "INTERRUPTED"]
<1>1. /\ mission \in MissionState /\ StateOK(orch) /\ EvidenceOK(evidence) /\ EmptyStays(evidence, evidence)
      /\ fresh \subseteq Loops /\ begun \subseteq Loops
      BY DEF TypeInv, EmptyStays
<1>2. StateOK(o)
      BY <1>1 DEF StateOK, IsState, Terminal
<1> HIDE DEF o
<1>3. \/ orch' = o /\ mission' = "awaiting-review" /\ NewRevision({}, evidence)
      \/ /\ fresh' = fresh \ gone /\ begun' = begun \ gone
         /\ UNCHANGED <<orch, mission, evidence>>
      BY DEF Recover, o
<1>4. UNCHANGED task \/ task' = [t \in Tasks |-> r(t)]
      BY DEF Recover
<1>5. /\ mission' \in MissionState /\ StateOK(orch') /\ EvidenceOK(evidence') /\ EmptyStays(evidence, evidence')
      /\ fresh' \subseteq Loops /\ begun' \subseteq Loops
  <2>1. CASE orch' = o /\ mission' = "awaiting-review" /\ NewRevision({}, evidence)
        BY <1>1, <1>2, <2>1, RevisedTypes DEF MissionState
  <2>2. CASE fresh' = fresh \ gone /\ begun' = begun \ gone /\ UNCHANGED <<orch, mission, evidence>>
        BY <1>1, <2>2
  <2> QED BY <1>3, <2>1, <2>2
<1>6. ASSUME NEW t \in Tasks
      PROVE  /\ RowOK(r(t), evidence'[t])
             /\ task[t].end # NoText => r(t).end # NoText
  <2>1. RowOK(task[t], evidence[t]) /\ IsTask(task[t])
        BY RowIs
  <2>2. /\ IsTask(r(t)) /\ r(t).run = NoText
        /\ r(t).status = IF t \in run THEN "interrupted" ELSE task[t].status
        /\ r(t).end = IF t \in run THEN "recovered_interrupted" ELSE task[t].end
        BY <2>1 DEF IsTask
  <2>3. "recovered_interrupted" # NoText
        BY NoTextIsNone
  <2>4. t \notin run => task[t].status # "running"
        BY <2>1 DEF RowOK
  <2>5. evidence[t] = <<>> => evidence'[t] = <<>>
        BY <1>5 DEF EmptyStays
  <2> DEFINE z == r(t)
  <2>6. z = r(t)
        OBVIOUS
  <2> HIDE DEF z, r
  <2>7. RowOK(z, evidence'[t]) /\ (task[t].end # NoText => z.end # NoText)
    <3>1. CASE t \in run
          BY <2>2, <2>3, <2>6, <3>1 DEF RowOK
    <3>2. CASE t \notin run
          BY <2>1, <2>2, <2>4, <2>5, <2>6, <3>2 DEF RowOK
    <3> QED BY <3>1, <3>2
  <2> QED BY <2>6, <2>7
<1>7. TasksOK(task', evidence') /\ EndsKept(task, task')
  <2>1. CASE UNCHANGED task
        BY <1>5, <2>1, RowsStay
  <2>2. CASE task' = [t \in Tasks |-> r(t)]
    <3> HIDE DEF r
    <3>1. \A t \in Tasks : task'[t] = r(t)
          BY <2>2
    <3>2. task' = [t \in Tasks |-> task'[t]]
          BY <2>2
    <3> QED BY <1>6, <3>1, <3>2 DEF TasksOK, EndsKept
  <2> QED BY <1>4, <2>1, <2>2
<1> QED BY <1>5, <1>7

LEMMA OthersTypes == ASSUME TypeInv, Others PROVE TypeInv'
<1>1. ASSUME NEW status \in MissionState, MissionMoves(status) PROVE TypeInv'
  <2>1. mission' = status /\ NewRevision({}, evidence) /\ UNCHANGED <<orch, task, loop>>
        BY <1>1 DEF MissionMoves
  <2>2. /\ EvidenceOK(evidence') /\ EmptyStays(evidence, evidence')
        /\ fresh' \subseteq Loops /\ begun' \subseteq Loops
        BY <2>1, RevisedTypes DEF TypeInv, EmptyStays
  <2> QED BY <2>1, <2>2, RevisionTypes
<1>2. ASSUME NEW t \in Tasks, NEW i \in Proposed(t), EvidenceReviewed(t, i) PROVE TypeInv'
  <2>1. /\ PromoteEvidence(t, i) \/ RejectEvidence(t, i)
        /\ UNCHANGED <<mission, orch, task, loop>>
        BY <1>2 DEF EvidenceReviewed
  <2>2. mission' \in MissionState
        BY <2>1 DEF TypeInv
  <2> QED BY <2>1, <2>2, EvidenceReviewTypes, RevisionTypes
<1>3. ASSUME NEW l \in Loops, Restart(l) PROVE TypeInv'
  <2>1. Stop(l) /\ Recover({l})
        BY <1>3 DEF Restart
  <2> QED BY <2>1, RecoverTypes, StopTypes
<1>4. CASE StartBeside
  <2>1. UNCHANGED loop /\ Recover({})
        BY <1>4 DEF StartBeside
  <2>2. /\ mission' \in MissionState /\ StateOK(orch') /\ EvidenceOK(evidence')
        /\ fresh' \subseteq Loops /\ begun' \subseteq Loops
        /\ TasksOK(task', evidence') /\ EndsKept(task, task')
        BY <2>1, RecoverTypes
  <2>3. \A l \in Loops : loop[l].pc = "assessing" => loop[l].task \in Tasks
        BY DEF TypeInv, LoopTyped, WithTask
  <2>4. \A l \in Loops : loop'[l].pc = "assessing" => task'[loop'[l].task].end # NoText
        BY <2>1, <2>2, <2>3 DEF TypeInv, EndsKept
  <2>5. loop' = [l \in Loops |-> loop'[l]] /\ \A l \in Loops : LoopTyped(loop'[l])
        BY <2>1 DEF TypeInv
  <2> QED BY <2>2, <2>4, <2>5 DEF TypeInv
<1> QED BY <1>1, <1>2, <1>3, <1>4 DEF Others

LEMMA TypesKept == ASSUME TypeInv, [Next]_allVars PROVE TypeInv'
<1>1. CASE UNCHANGED allVars
  <2>1. UNCHANGED <<evidence, fresh, begun, mission, orch, task, loop>>
        BY <1>1 DEF allVars, bossVars, revisionVars
  <2>2. EvidenceOK(evidence') /\ EmptyStays(evidence, evidence')
        BY <2>1 DEF TypeInv, EvidenceOK, EmptyStays
  <2>3. fresh' \subseteq Loops /\ begun' \subseteq Loops /\ mission' \in MissionState
        BY <2>1 DEF TypeInv
  <2> QED BY <2>1, <2>2, <2>3, RevisionTypes
<1>2. ASSUME NEW l \in Loops, LoopStep(l) PROVE TypeInv'
  <2>1. CASE Assign(l) \/ StartCycle(l) \/ BossAnswers(l) \/ FinishClose(l)
        BY <2>1, RouteTypes, AnswerTypes, FinishCloseTypes
  <2>2. CASE TaskStep(l)
        BY <2>2, ChoiceTypes, TaskStepTypes, WorkerTypes DEF TaskStep
  <2>3. CASE ReviewStep(l)
        BY <2>3, ReviewTypes, PromoteTypes, JudgeTypes DEF ReviewStep, ReviewerSubmits
  <2> QED BY <1>2, <2>1, <2>2, <2>3 DEF LoopStep
<1> QED BY <1>1, <1>2, BeginTypes, OthersTypes DEF Next

-------------------------------------------------------------------------------
(* The theorems                                                            *)

LEMMA InitHolds == ASSUME Init PROVE BossInv
<1>1. EvidenceOK(evidence)
      BY DEF Init, EvidenceOK
<1>2. \A l \in Loops : loop[l] = NoLoop
      BY DEF Init
<1>3. NoLoop.pc \notin WithTask
      BY NoLoopOK DEF WithTask
<1> QED BY <1>1, <1>2, <1>3, NoLoopOK DEF Init, BossInv, LoopOK

LEMMA NextKeeps ==
    ASSUME BossInv, OneLoop, [Next]_allVars
    PROVE  BossInv' /\ PinChange(orch, orch')
<1>1. CASE UNCHANGED allVars
  <2>1. UNCHANGED <<evidence, orch, loop, continued>>
        BY <1>1 DEF allVars, bossVars
  <2> QED BY <2>1 DEF BossInv, LoopOK, PinChange, SameBoss, IsState, WithTask
<1>2. ASSUME NEW l \in Loops, LoopStep(l) PROVE BossInv' /\ PinChange(orch, orch')
  <2>1. CASE Assign(l) \/ StartCycle(l) \/ BossAnswers(l) \/ FinishClose(l)
        BY <2>1, RoutesKeep, AnswersKeep, FinishCloseKeeps
  <2>2. CASE TaskStep(l)
        BY <2>2, ChoiceKeeps, TaskStepsKeep, WorkerKeeps, AssessKeeps, DecideKeeps DEF TaskStep
  <2>3. CASE ReviewStep(l)
        BY <2>3, ReviewKeeps, PromoteKeeps, JudgeKeeps DEF ReviewStep, ReviewerSubmits
  <2> QED BY <1>2, <2>1, <2>2, <2>3 DEF LoopStep
<1> QED BY <1>1, <1>2, BeginKeeps, OthersKeep DEF Next

\* While one process works on a mission, its Boss changes only by a fallback that is
\* recorded with the change, to a route that was not left before (boss.ts:344, 456).
THEOREM BossStaysPinned == ASSUME OneLoop PROVE BossSpec => PinnedBoss
<1>1. Init => BossInv
      BY InitHolds
<1>2. BossInv /\ [Next]_allVars => BossInv'
      BY NextKeeps
<1>3. BossInv /\ [Next]_allVars =>
        [orch'.on # orch.on =>
           \/ orch.on = NoRoute
           \/ /\ [from |-> orch.on, to |-> orch'.on] \in orch'.history
              /\ orch'.on \notin FailedRoutes(orch)]_allVars
      BY NextKeeps DEF PinChange
<1> QED BY <1>1, <1>2, <1>3, PTL DEF BossSpec, PinnedBoss

\* While one process works on a mission, the partial work of a task is gone on with at
\* most once, whatever crashes: the assessment is on record before the child starts
\* (orchestrate.ts:157, 176).
THEOREM RecoveryHappensOnce == ASSUME OneLoop PROVE BossSpec => []RecoverOnce
<1>1. Init => BossInv
      BY InitHolds
<1>2. BossInv /\ [Next]_allVars => BossInv'
      BY NextKeeps
<1>3. BossInv => RecoverOnce
      BY DEF BossInv, RecoverOnce, MAX_AUTONOMOUS_RECOVERY_SEQUENCES_PER_TASK
<1> QED BY <1>1, <1>2, <1>3, PTL DEF BossSpec

\* Whatever processes work on a mission, crash and recover it: no loop counts past its
\* budget of cycles, the Boss is on a route of the profile or on none, a task that runs
\* has a loop whose attempt it is, and evidence is only of a task whose run has ended.
THEOREM BossTypes == BossSpec => []BossTypeOK
<1>1. Init => TypeInv
      BY TypesInit
<1>2. TypeInv /\ [Next]_allVars => TypeInv'
      BY TypesKept
<1>3. TypeInv => BossTypeOK
      BY TypesMean
<1> QED BY <1>1, <1>2, <1>3, PTL DEF BossSpec
===============================================================================
