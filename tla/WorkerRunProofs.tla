--------------------------- MODULE WorkerRunProofs ---------------------------
(***************************************************************************)
(* Theorems about the runs of the executor: one writer in a directory, no   *)
(* second child after a change of files, a true report, no way back to a    *)
(* route that was left, and no more attempts than the policy allows. All    *)
(* follow from one inductive invariant, which is about one run and its      *)
(* child, and about the line for the directory. Before it, the choice of a  *)
(* route, for every pool.                                                   *)
(***************************************************************************)
EXTENDS WorkerRun, SequenceTheorems, WellFoundedInduction, TLAPS

-------------------------------------------------------------------------------
(* Chains of else-ifs                                                      *)

\* The first condition that holds decides.
FirstHit(tests, i) ==
    i \in DOMAIN tests /\ tests[i][1] /\ \A k \in DOMAIN tests : k < i => ~tests[k][1]

LEMMA FirstOfIs ==
    ASSUME NEW n \in Nat, NEW tests, DOMAIN tests = 1 .. n, NEW i, FirstHit(tests, i)
    PROVE  FirstOf(tests) = tests[i][2]
<1> DEFINE hits == {k \in DOMAIN tests : tests[k][1]}
           first == CHOOSE j \in hits : \A k \in hits : j <= k
<1>1. i \in hits /\ \A k \in hits : i <= k
  <2>1. \A k \in hits : ~(k < i) /\ k \in 1 .. n /\ i \in 1 .. n
        BY DEF FirstHit
  <2> QED BY <2>1 DEF FirstHit
<1>2. first \in hits /\ \A k \in hits : first <= k
      BY <1>1
<1>3. first <= i /\ i <= first /\ first \in 1 .. n /\ i \in 1 .. n
      BY <1>1, <1>2
<1>4. first = i
      BY <1>3
<1> QED BY <1>4 DEF FirstOf

-------------------------------------------------------------------------------
(* The choice of a route                                                   *)

\* Of any routes one comes first in the pool.
LEMMA FirstOfPool ==
    ASSUME NEW S, S \subseteq Routes, S # {}
    PROVE  \E x \in S : \A y \in S : Position[x] <= Position[y]
<1> DEFINE places == {Position[x] : x \in S}
           less == OpToRel(<, Nat)
<1>1. places \subseteq Nat /\ places # {}
      BY RoutingAssumption
<1> HIDE DEF places
<1>2. PICK n \in places : \A m \in places : ~(<<m, n>> \in less)
      BY <1>1, NatLessThanWellFounded, WFMin
<1>3. \A m \in places : n <= m
  <2>1. ASSUME NEW m \in places, m < n PROVE <<m, n>> \in less
    <3>1. m \in Nat /\ n \in Nat /\ <<m, n>> \in Nat \X Nat
          BY <1>1
    <3> QED BY <2>1, <3>1 DEF OpToRel
  <2>2. \A m \in places : m \in Nat /\ n \in Nat /\ ~(m < n)
        BY <1>1, <1>2, <2>1
  <2> QED BY <2>2
<1>4. PICK x \in S : Position[x] = n
      BY DEF places
<1>5. \A y \in S : Position[y] \in places
      BY DEF places
<1> QED BY <1>3, <1>4, <1>5

\* For any pool, records, attempts and policy: what selectRoute returns is eligible, it returns none only where
\* no route is, a route that conflicts with the request's diversity only where it has to, and under "priority"
\* no other than the first of those (selectRoute, routing/index.ts:260).
THEOREM SelectionIsRight ==
    ASSUME NEW states, NEW records, NEW t, NEW attempted
    PROVE  LET Eligible(x) == EvaluateCandidate(x, states[x], records[x], t, attempted)
               chosen == SelectRoute(states, records, t, attempted)
           IN  /\ \A x \in chosen : x \in Routes /\ Eligible(x)
               /\ chosen = {} => \A x \in Routes : ~Eligible(x)
               /\ Diversity = "prefer" /\ (\E x \in Routes \ Conflicting : Eligible(x)) =>
                    chosen \cap Conflicting = {}
               /\ Scheduling = "priority" => \A x, y \in chosen : x = y
<1> DEFINE Eligible(x) == EvaluateCandidate(x, states[x], records[x], t, attempted)
           eligible == {x \in Routes : Eligible(x)}
           clear == IF Diversity = "prefer" THEN eligible \ Conflicting ELSE eligible
           from == IF clear # {} THEN clear ELSE eligible
           chosen == SelectRoute(states, records, t, attempted)
<1>1. chosen = IF Scheduling = "weighted" THEN from ELSE {x \in from : \A y \in from : Position[x] <= Position[y]}
      BY DEF SelectRoute
<1>2. /\ eligible \subseteq Routes /\ \A x \in Routes : x \in eligible <=> Eligible(x)
      /\ from \subseteq eligible /\ (from = {} => eligible = {})
      /\ Diversity = "prefer" /\ eligible \ Conflicting # {} => from \cap Conflicting = {}
      OBVIOUS
<1> HIDE DEF eligible, clear, from, chosen, Eligible
<1>3. chosen \subseteq from
      BY <1>1
<1>4. from # {} => chosen # {}
      BY <1>1, <1>2, FirstOfPool
<1>5. ASSUME Scheduling = "priority", NEW x \in chosen, NEW y \in chosen PROVE x = y
  <2>1. Position[x] <= Position[y] /\ Position[y] <= Position[x] /\ x \in Routes /\ y \in Routes
        BY <1>1, <1>2, <1>5
  <2> QED BY <2>1, RoutingAssumption
<1>6. \A x \in chosen : x \in Routes /\ Eligible(x)
      BY <1>2, <1>3
<1>7. chosen = {} => \A x \in Routes : ~Eligible(x)
      BY <1>2, <1>4
<1>8. Diversity = "prefer" /\ (\E x \in Routes \ Conflicting : Eligible(x)) => chosen \cap Conflicting = {}
      BY <1>2, <1>3
<1> QED BY <1>5, <1>6, <1>7, <1>8 DEF Eligible, chosen

-------------------------------------------------------------------------------
(* The inductive invariant                                                 *)

\* Records by their fields.
IsRun(x) ==
    x \in [at : {x.at}, attempted : {x.attempted}, failed : {x.failed}, current : {x.current}, on : {x.on},
           aborted : {x.aborted}, mutated : BOOLEAN, outcome : {x.outcome}, failure : {x.failure},
           after : {x.after}, result : {x.result}, provider : {x.provider}, violation : {x.violation},
           finalized : {x.finalized}, status : {x.status}]
IsChild(c) ==
    c \in [live : BOOLEAN, used : {c.used}, wrote : BOOLEAN, subs : {c.subs}, captured : {c.captured},
           broken : {c.broken}, safety : {c.safety}]

Before == {"idle", "waiting", "choosing", "resolving", "creating"}
WithChild == {"working", "stopping", "finalizing", "closing"}
After == {"praising", "blaming", "deciding"}

\* What the run has counted: on each route it has failed at most as often as it started, the count lags behind
\* by the attempt under way, and a route is taken again only while the policy leaves an attempt.
Counted(x, s) ==
    /\ x.failed = [y \in Routes |-> x.failed[y]]
    /\ \A y \in Routes : x.failed[y] \in Nat /\ s[y] \in 0 .. MaxAttempts /\ x.failed[y] <= s[y]
    /\ x.at \in {"idle", "waiting"} => x.current = NoRoute
    /\ x.at \in {"resolving", "creating"} \/ (x.at = "choosing" /\ x.current # NoRoute) =>
         x.on \in Routes /\ s[x.on] = x.failed[x.on] /\ s[x.on] < MaxAttempts
    /\ x.at \in WithChild \cup {"praising"} => x.on \in Routes /\ s[x.on] = x.failed[x.on] + 1
    /\ x.at \in {"blaming", "deciding"} =>
         x.on \in Routes /\ (x.failure # NoFailure => s[x.on] = x.failed[x.on])

\* A run x with child c, where w and s are its histories wrote and starts, and o its loose: no child lives
\* outside of an attempt; a route it has started on is the current one or attempted; and what its
\* children have changed is known to the child at work, then to the run, then from its report.
RunOK(x, c, w, o, s) ==
    /\ IsRun(x) /\ IsChild(c) /\ w \in BOOLEAN /\ x.at \in Before \cup WithChild \cup After \cup {"ended"}
    /\ c.live => x.at \in WithChild
    /\ x.current \in {NoRoute, x.on}
    /\ s = [y \in Routes |-> s[y]] /\ Counted(x, s)
    /\ \A y \in Routes : s[y] # 0 => y \in x.attempted \/ (y = x.on /\ x.at \in WithChild \cup {"praising"})
                                       \/ x.at = "ended"
    /\ x.at = "ended" /\ x.status = "completed" => x.result /\ ~x.violation
    /\ Obedient => /\ ~o
                   /\ w => /\ x.at \notin Before
                           /\ x.at \in WithChild => c.wrote
                           /\ x.at \in After => x.mutated
                           /\ x.at = "ended" => x.status \in {"completed", "partial_mutation_requires_review"}

\* The head of a line is inside, and whoever waits stands in it.
Held(at) == at \notin {"idle", "waiting", "ended"}
InLine(r, at, queued) ==
    /\ Held(at) => queued # <<>> /\ Head(queued) = r
    /\ at = "waiting" => \E i \in DOMAIN queued : queued[i] = r

WorkerInv ==
    /\ run = [r \in Runs |-> run[r]] /\ child = [r \in Runs |-> child[r]]
    /\ wrote = [r \in Runs |-> wrote[r]] /\ loose = [r \in Runs |-> loose[r]]
    /\ starts = [r \in Runs |-> starts[r]]
    /\ \A r \in Runs : RunOK(run[r], child[r], wrote[r], loose[r], starts[r])
    /\ line \in [Procs -> Seq(Runs)]
    /\ \A r \in Writers : InLine(r, run[r].at, line[ProcOf[r]])

\* What the properties say of a step.
NoReplay == \A r \in Runs : starts'[r] # starts[r] => ~wrote[r]
Forward ==
    \A r \in Runs : LET x == run'[r].on IN
         x \notin {run[r].on, NoRoute} => starts[r][x] = 0
Kept == WorkerInv' /\ (Obedient => NoReplay) /\ Forward

-------------------------------------------------------------------------------
(* Steps of one run                                                        *)

LEMMA StepKeeps ==
    ASSUME WorkerInv, NEW r \in Runs, NEW x, NEW c, NEW w, NEW o, NEW s,
           run' = [run EXCEPT ![r] = x], child' = [child EXCEPT ![r] = c],
           wrote' = [wrote EXCEPT ![r] = w], loose' = [loose EXCEPT ![r] = o],
           starts' = [starts EXCEPT ![r] = s], RunOK(x, c, w, o, s),
           line' \in [Procs -> Seq(Runs)],
           \A k \in Writers : InLine(k, run'[k].at, line'[ProcOf[k]]),
           Obedient /\ s # starts[r] => ~wrote[r],
           x.on \notin {run[r].on, NoRoute} => starts[r][x.on] = 0
    PROVE  Kept
<1>1. /\ run' = [k \in Runs |-> IF k = r THEN x ELSE run[k]]
      /\ child' = [k \in Runs |-> IF k = r THEN c ELSE child[k]]
      /\ wrote' = [k \in Runs |-> IF k = r THEN w ELSE wrote[k]]
      /\ loose' = [k \in Runs |-> IF k = r THEN o ELSE loose[k]]
      /\ starts' = [k \in Runs |-> IF k = r THEN s ELSE starts[k]]
      BY DEF WorkerInv
<1>2. /\ run' = [k \in Runs |-> run'[k]] /\ child' = [k \in Runs |-> child'[k]]
      /\ wrote' = [k \in Runs |-> wrote'[k]] /\ loose' = [k \in Runs |-> loose'[k]]
      /\ starts' = [k \in Runs |-> starts'[k]]
      BY <1>1
<1>3. \A k \in Runs : RunOK(run'[k], child'[k], wrote'[k], loose'[k], starts'[k])
      BY <1>1 DEF WorkerInv
<1>4. WorkerInv'
      BY <1>2, <1>3 DEF WorkerInv
<1>5. Obedient => NoReplay
      BY <1>1 DEF NoReplay
<1>6. Forward
      BY <1>1 DEF Forward
<1> QED BY <1>4, <1>5, <1>6 DEF Kept

LEMMA NothingMoves ==
    ASSUME WorkerInv, UNCHANGED <<run, child, wrote, loose, starts, line>>
    PROVE  Kept
<1>1. WorkerInv'
      BY DEF WorkerInv
<1> QED BY <1>1 DEF Kept, NoReplay, Forward

\* The line stays, and the run inside or outside of it.
LEMMA SameLine ==
    ASSUME WorkerInv, NEW r \in Runs, NEW x, run' = [run EXCEPT ![r] = x], UNCHANGED line,
           x.at = run[r].at \/ (Held(run[r].at) /\ Held(x.at)) \/ r \notin Writers
    PROVE  /\ line' \in [Procs -> Seq(Runs)]
           /\ \A k \in Writers : InLine(k, run'[k].at, line'[ProcOf[k]])
<1>1. \A k \in Runs : run'[k] = IF k = r THEN x ELSE run[k]
      BY DEF WorkerInv
<1> QED BY <1>1, WorkersKnown DEF WorkerInv, InLine, Held

\* A step of the run alone.
LEMMA RunMoves ==
    ASSUME WorkerInv, NEW r \in Runs, NEW x, Sets(r, x), UNCHANGED <<child, loose, wrote, starts, line>>,
           x.at = run[r].at \/ (Held(run[r].at) /\ Held(x.at)) \/ r \notin Writers,
           RunOK(x, child[r], wrote[r], loose[r], starts[r]),
           x.on \notin {run[r].on, NoRoute} => starts[r][x.on] = 0
    PROVE  Kept
<1> DEFINE c == child[r]
           w == wrote[r]
           o == loose[r]
           s == starts[r]
<1>1. /\ run' = [run EXCEPT ![r] = x]
      /\ child' = [child EXCEPT ![r] = c] /\ wrote' = [wrote EXCEPT ![r] = w]
      /\ loose' = [loose EXCEPT ![r] = o] /\ starts' = [starts EXCEPT ![r] = s]
      BY DEF Sets, WorkerInv
<1>2. /\ line' \in [Procs -> Seq(Runs)]
      /\ \A k \in Writers : InLine(k, run'[k].at, line'[ProcOf[k]])
      BY <1>1, SameLine
<1>3. RunOK(x, c, w, o, s)
      OBVIOUS
<1>4. Obedient /\ s # starts[r] => ~wrote[r]
      OBVIOUS
<1>5. x.on \notin {run[r].on, NoRoute} => starts[r][x.on] = 0
      OBVIOUS
<1> HIDE DEF c, w, o, s
<1> QED BY <1>1, <1>2, <1>3, <1>4, <1>5, StepKeeps

-------------------------------------------------------------------------------
(* The attempt                                                             *)

SameRoutes(x, y) == x.attempted = y.attempted /\ x.current = y.current /\ x.on = y.on /\ x.failed = y.failed

\* The counts are about the routes of the run and the part of the attempt it is in.
SamePart(x, y) ==
    \/ x.at = y.at /\ (x.at \in {"blaming", "deciding"} => x.failure = y.failure)
    \/ y.at \in WithChild /\ x.at \in WithChild \cup {"praising"}
    \/ y.at \in {"idle", "waiting"} /\ x.at \in {"waiting", "choosing"}
    \/ y.at = "resolving" /\ x.at = "creating"

LEMMA StillCounted ==
    ASSUME NEW x, NEW y, NEW s, Counted(y, s), SameRoutes(x, y), SamePart(x, y)
    PROVE  Counted(x, s)
BY DEF Counted, SameRoutes, SamePart, WithChild

LEMMA AtWork ==
    ASSUME WorkerInv, NEW r \in Runs, run[r].at \in WithChild, NEW x, Sets(r, x),
           UNCHANGED <<child, loose, wrote, starts, line>>,
           IsRun(x), SameRoutes(x, run[r]), x.at \in WithChild
    PROVE  Kept
<1>1. Held(run[r].at) /\ Held(x.at)
      BY DEF Held, WithChild
<1>2. RunOK(run[r], child[r], wrote[r], loose[r], starts[r])
      BY DEF WorkerInv
<1>3. RunOK(x, child[r], wrote[r], loose[r], starts[r])
  <2>1. Counted(x, starts[r])
        BY <1>2, StillCounted DEF RunOK, SamePart
  <2> QED BY <1>2, <2>1 DEF RunOK, SameRoutes, WithChild, Before, After
<1>4. x.on = run[r].on
      BY DEF SameRoutes
<1> QED BY <1>1, <1>3, <1>4, RunMoves

\* The work phase or the finalisation goes on, or is over.
LEMMA WorkGoesOn ==
    ASSUME WorkerInv, NEW r \in Runs, run[r].at \in WithChild, NEW rec, IsRun(rec), SameRoutes(rec, run[r]),
           UNCHANGED <<child, loose, wrote, starts, line>>,
           Closes(r, rec) \/ \E at \in WithChild : Sets(r, [rec EXCEPT !.at = at])
    PROVE  Kept
<1>1. ASSUME NEW at \in WithChild, Sets(r, [rec EXCEPT !.at = at]) PROVE Kept
  <2> DEFINE x == [rec EXCEPT !.at = at]
  <2>1. IsRun(x) /\ SameRoutes(x, run[r]) /\ x.at = at
        BY DEF IsRun, SameRoutes
  <2>2. Sets(r, x)
        BY <1>1
  <2> HIDE DEF x
  <2> QED BY <1>1, <2>1, <2>2, AtWork
<1>2. "closing" \in WithChild
      BY DEF WithChild
<1> QED BY <1>1, <1>2 DEF Closes

LEMMA PromptKeeps ==
    ASSUME WorkerInv, NEW r \in Runs, PromptStep(r)
    PROVE  Kept
<1> DEFINE y == run[r]
<1>1. IsRun(y) /\ SameRoutes(y, y)
      BY DEF WorkerInv, RunOK, SameRoutes
<1>2. y.at \in {"working", "stopping", "finalizing"} /\ y.at \in WithChild
      BY DEF PromptStep, Finalize, At, FinalCounts, WithChild, PromptCancelled, PromptTimesOut, PromptAborts, PromptDone,
             PromptFails, FinalCancelled, FinalTimesOut, FinalDone, FinalFails
<1>3. UNCHANGED <<child, loose, wrote, starts, line>>
      BY DEF PromptStep, Finalize, Settles, PromptCancelled, PromptTimesOut, PromptAborts, PromptDone,
             PromptFails, FinalCancelled, FinalTimesOut, FinalDone, FinalFails
<1>4. "stopping" \in WithChild /\ "finalizing" \in WithChild
      BY DEF WithChild
<1>5. ASSUME NEW rec, IsRun(rec), SameRoutes(rec, y),
             \/ Closes(r, rec)
             \/ Sets(r, [rec EXCEPT !.at = "stopping"])
             \/ Sets(r, [rec EXCEPT !.at = "finalizing"])
      PROVE  Kept
      BY <1>2, <1>3, <1>4, <1>5, WorkGoesOn
<1>6. ASSUME PromptCancelled(r) PROVE Kept
  <2> DEFINE rec == [y EXCEPT !.outcome = "cancelled"]
  <2>1. IsRun(rec) /\ SameRoutes(rec, y)
        BY <1>1 DEF IsRun, SameRoutes
  <2>2. Closes(r, rec)
        BY <1>6 DEF PromptCancelled
  <2> HIDE DEF rec
  <2> QED BY <1>5, <2>1, <2>2
<1>7. ASSUME PromptTimesOut(r) PROVE Kept
  <2> DEFINE rec == [y EXCEPT !.outcome = "timed_out", !.failure = "timeout"]
  <2>1. IsRun(rec) /\ SameRoutes(rec, y)
        BY <1>1 DEF IsRun, SameRoutes
  <2>2. Closes(r, rec) \/ Sets(r, [rec EXCEPT !.at = "stopping"])
        BY <1>7 DEF PromptTimesOut
  <2> HIDE DEF rec
  <2> QED BY <1>5, <2>1, <2>2
<1>8. ASSUME NEW f, NEW thrown, PromptFails(r, f, thrown) PROVE Kept
  <2> DEFINE class == IF thrown THEN ClassOfError(f.words, f.status) ELSE ClassOfText(f.words, f.status)
             out == OutcomeOf(class)
             rec == [y EXCEPT !.failure = class, !.after = f.after, !.outcome = out]
  <2>1. Closes(r, rec)
        BY <1>8 DEF PromptFails
  <2> HIDE DEF class, out
  <2>2. IsRun(rec) /\ SameRoutes(rec, y)
        BY <1>1 DEF IsRun, SameRoutes
  <2> HIDE DEF rec
  <2> QED BY <1>5, <2>1, <2>2
<1>9. ASSUME PromptAborts(r) PROVE Kept
  <2> DEFINE class == IF run[r].aborted THEN "cancelled" ELSE "timeout"
             out == OutcomeOf(class)
             rec == [y EXCEPT !.failure = class, !.outcome = out]
  <2>1. Closes(r, rec)
        BY <1>9 DEF PromptAborts
  <2> HIDE DEF class, out
  <2>2. IsRun(rec) /\ SameRoutes(rec, y)
        BY <1>1 DEF IsRun, SameRoutes
  <2> HIDE DEF rec
  <2> QED BY <1>5, <2>1, <2>2
<1>10. ASSUME PromptDone(r) PROVE Kept
  <2> DEFINE viol == y.violation \/ Broken(r)
             capt == Captured(r)
             done == [y EXCEPT !.provider = TRUE, !.result = capt, !.violation = viol]
             a == [done EXCEPT !.outcome = IF Captured(r) THEN "completed" ELSE "invalid_child_result"]
             b == [done EXCEPT !.finalized = TRUE]
             c == [done EXCEPT !.outcome = IF done.violation THEN "protocol_violation"
                                             ELSE IF Captured(r) THEN "completed" ELSE "invalid_child_result"]
  <2>1. Closes(r, a) \/ Sets(r, [done EXCEPT !.at = "finalizing", !.finalized = TRUE]) \/ Closes(r, c)
    <3>1. CASE child[r].safety
          BY <1>10, <3>1 DEF PromptDone
    <3>2. CASE ~child[r].safety /\ ~Captured(r) /\ ~done.violation /\ ~run[r].aborted
          BY <1>10, <3>2 DEF PromptDone
    <3>3. CASE ~child[r].safety /\ ~(~Captured(r) /\ ~done.violation /\ ~run[r].aborted)
          BY <1>10, <3>3 DEF PromptDone
    <3> QED BY <3>1, <3>2, <3>3
  <2> HIDE DEF viol, capt
  <2>2. IsRun(done) /\ SameRoutes(done, y)
        BY <1>1 DEF IsRun, SameRoutes
  <2> HIDE DEF done
  <2>3. /\ IsRun(a) /\ SameRoutes(a, y) /\ IsRun(b) /\ SameRoutes(b, y) /\ IsRun(c) /\ SameRoutes(c, y)
        /\ [done EXCEPT !.at = "finalizing", !.finalized = TRUE] = [b EXCEPT !.at = "finalizing"]
        BY <2>2 DEF IsRun, SameRoutes
  <2> HIDE DEF a, b, c
  <2> QED BY <1>5, <2>1, <2>3
<1>11. ASSUME FinalCancelled(r) PROVE Kept
  <2> DEFINE fail == IF run[r].provider THEN y.failure ELSE "cancelled"
             rec == [y EXCEPT !.outcome = "cancelled", !.failure = fail]
  <2>1. Closes(r, rec)
        BY <1>11 DEF FinalCancelled
  <2> HIDE DEF fail
  <2>2. IsRun(rec) /\ SameRoutes(rec, y)
        BY <1>1 DEF IsRun, SameRoutes
  <2> HIDE DEF rec
  <2> QED BY <1>5, <2>1, <2>2
<1>12. ASSUME NEW f, FinalFails(r, f) PROVE Kept
  <2> DEFINE class == ClassOfError(f.words, f.status)
             out == OutcomeOf(class)
             rec == [y EXCEPT !.failure = class, !.after = f.after, !.outcome = out]
  <2>1. Closes(r, rec) \/ Closes(r, y)
        BY <1>12 DEF FinalFails
  <2> HIDE DEF class, out
  <2>2. IsRun(rec) /\ SameRoutes(rec, y)
        BY <1>1 DEF IsRun, SameRoutes
  <2> HIDE DEF rec
  <2> QED BY <1>1, <1>5, <2>1, <2>2
<1>13. ASSUME FinalTimesOut(r) PROVE Kept
  <2> DEFINE rec == [y EXCEPT !.outcome = "timed_out", !.failure = "timeout"]
  <2>1. IsRun(rec) /\ SameRoutes(rec, y)
        BY <1>1 DEF IsRun, SameRoutes
  <2>2. Closes(r, rec)
        BY <1>13 DEF FinalTimesOut
  <2> HIDE DEF rec
  <2> QED BY <1>5, <2>1, <2>2
<1>14. ASSUME FinalDone(r) PROVE Kept
  <2> DEFINE violated == Broken(r) /\ ~Captured(r)
             capt == Captured(r)
             done == [y EXCEPT !.result = capt, !.violation = violated]
             a == [done EXCEPT !.outcome = "completed", !.failure = NoFailure, !.provider = TRUE]
             b == [done EXCEPT !.outcome = IF violated THEN "protocol_violation" ELSE "invalid_child_result"]
  <2>1. Closes(r, a) \/ Closes(r, b) \/ Closes(r, done)
    <3>1. CASE Captured(r)
          BY <1>14, <3>1 DEF FinalDone
    <3>2. CASE ~Captured(r) /\ run[r].provider
          BY <1>14, <3>2 DEF FinalDone
    <3>3. CASE ~Captured(r) /\ ~run[r].provider
          BY <1>14, <3>3 DEF FinalDone
    <3> QED BY <3>1, <3>2, <3>3
  <2> HIDE DEF violated, capt
  <2>2. IsRun(done) /\ SameRoutes(done, y)
        BY <1>1 DEF IsRun, SameRoutes
  <2> HIDE DEF done
  <2>3. IsRun(a) /\ SameRoutes(a, y) /\ IsRun(b) /\ SameRoutes(b, y)
        BY <2>2 DEF IsRun, SameRoutes
  <2> HIDE DEF a, b
  <2> QED BY <1>5, <2>1, <2>2, <2>3
<1>15. ASSUME Finalize(r) PROVE Kept
  <2> DEFINE rec == [y EXCEPT !.finalized = TRUE]
  <2>1. IsRun(rec) /\ SameRoutes(rec, y) /\ [y EXCEPT !.at = "finalizing", !.finalized = TRUE] = [rec EXCEPT !.at = "finalizing"]
        BY <1>1 DEF IsRun, SameRoutes
  <2>2. Sets(r, [y EXCEPT !.at = "finalizing", !.finalized = TRUE])
        BY <1>15 DEF Finalize
  <2> HIDE DEF rec
  <2> QED BY <1>5, <2>1, <2>2
<1> QED BY <1>6, <1>7, <1>8, <1>9, <1>10, <1>11, <1>12, <1>13, <1>14, <1>15 DEF PromptStep

\* What the child does, and its end.
LEMMA ChildMoves ==
    ASSUME WorkerInv, NEW r \in Runs, run[r].at \in WithChild,
           NEW x, IsRun(x), SameRoutes(x, run[r]), x.at = run[r].at, run' = [run EXCEPT ![r] = x],
           NEW c, IsChild(c), child' = [child EXCEPT ![r] = c], child[r].wrote => c.wrote,
           NEW w \in BOOLEAN, wrote' = [wrote EXCEPT ![r] = w], w => wrote[r] \/ c.wrote,
           UNCHANGED <<loose, starts, line>>
    PROVE  Kept
<1> DEFINE o == loose[r]
           s == starts[r]
<1>1. RunOK(run[r], child[r], wrote[r], loose[r], starts[r])
      BY DEF WorkerInv
<1>2. RunOK(x, c, w, o, s)
  <2>1. Counted(x, s)
        BY <1>1, StillCounted DEF RunOK, SamePart
  <2> QED BY <1>1, <2>1 DEF RunOK, SameRoutes, WithChild, Before, After
<1>3. loose' = [loose EXCEPT ![r] = o] /\ starts' = [starts EXCEPT ![r] = s]
      BY DEF WorkerInv
<1>4. /\ line' \in [Procs -> Seq(Runs)]
      /\ \A k \in Writers : InLine(k, run'[k].at, line'[ProcOf[k]])
      BY SameLine
<1>5. x.on = run[r].on /\ s = starts[r]
      BY DEF SameRoutes
<1> HIDE DEF o, s
<1> QED BY <1>2, <1>3, <1>4, <1>5, StepKeeps

LEMMA ChildKeeps ==
    ASSUME WorkerInv, NEW r \in Runs, ChildStep(r)
    PROVE  Kept
<1> DEFINE y == run[r]
           d == child[r]
<1>1. /\ IsRun(y) /\ SameRoutes(y, y) /\ IsChild(d) /\ wrote[r] \in BOOLEAN
      /\ RunOK(y, d, wrote[r], loose[r], starts[r])
      BY DEF WorkerInv, RunOK, SameRoutes
<1>2. Active(r) => y.at \in WithChild
      BY DEF Active, WithChild
<1>3. ASSUME NEW writes \in BOOLEAN, ChildTool(r, writes) PROVE Kept
  <2> DEFINE v == y.violation \/ d.subs > 0
             x == [y EXCEPT !.violation = v]
             n == d.used + 1
             m == d.wrote \/ writes
             c == [d EXCEPT !.used = n, !.wrote = m]
             w == wrote[r] \/ (writes /\ r \in Writers)
  <2>1. Sets(r, x) /\ child' = [child EXCEPT ![r] = c] /\ wrote' = [wrote EXCEPT ![r] = w]
        BY <1>3 DEF ChildTool
  <2>2. m \in BOOLEAN /\ (d.wrote => m) /\ w \in BOOLEAN /\ (w => wrote[r] \/ m)
        BY <1>1 DEF IsChild
  <2> HIDE DEF v, n, m, w
  <2>3. IsRun(x) /\ SameRoutes(x, y) /\ x.at = y.at
        BY <1>1 DEF IsRun, SameRoutes
  <2>4. IsChild(c) /\ c.wrote = m
        BY <1>1, <2>2 DEF IsChild
  <2> HIDE DEF x, c
  <2>5. y.at \in WithChild /\ UNCHANGED <<loose, starts, line>>
        BY <1>2, <1>3 DEF ChildTool
  <2> QED BY <2>1, <2>2, <2>3, <2>4, <2>5, ChildMoves DEF Sets
<1>4. ASSUME SafetyBlock(r) PROVE Kept
  <2> DEFINE v == y.violation \/ d.subs > 0
             x == [y EXCEPT !.violation = v]
             c == [d EXCEPT !.safety = TRUE, !.wrote = TRUE]
             w == wrote[r]
  <2>1. Sets(r, x) /\ child' = [child EXCEPT ![r] = c] /\ UNCHANGED wrote
        BY <1>4 DEF SafetyBlock
  <2> HIDE DEF v
  <2>2. IsRun(x) /\ SameRoutes(x, y) /\ x.at = y.at
        BY <1>1 DEF IsRun, SameRoutes
  <2>3. IsChild(c) /\ c.wrote
        BY <1>1 DEF IsChild
  <2> HIDE DEF x, c
  <2>4. y.at \in WithChild /\ UNCHANGED <<loose, starts, line>>
        BY <1>2, <1>4 DEF SafetyBlock
  <2>5. wrote' = [wrote EXCEPT ![r] = w] /\ w \in BOOLEAN /\ (w => wrote[r])
        BY <1>1, <2>1 DEF WorkerInv
  <2> HIDE DEF w
  <2> QED BY <2>1, <2>2, <2>3, <2>4, <2>5, ChildMoves DEF Sets
<1>5. ASSUME NEW c, IsChild(c), c.wrote = d.wrote, child' = [child EXCEPT ![r] = c], Active(r),
             UNCHANGED <<run, loose, wrote, starts, line>>
      PROVE  Kept
  <2> DEFINE x == y
             w == wrote[r]
  <2>1. run' = [run EXCEPT ![r] = x] /\ wrote' = [wrote EXCEPT ![r] = w]
        BY <1>5 DEF WorkerInv
  <2>2. w \in BOOLEAN /\ (w => wrote[r]) /\ IsRun(x) /\ SameRoutes(x, y) /\ x.at = y.at
        BY <1>1
  <2> HIDE DEF x, w
  <2> QED BY <1>2, <1>5, <2>1, <2>2, ChildMoves
<1>6. ASSUME NEW kind, ChildSubmits(r, kind) PROVE Kept
  <2> DEFINE n == d.subs + 1
             k == IF child[r].subs = 0 /\ kind # "oversize" THEN kind ELSE d.captured
             b == d.broken \/ child[r].subs > 0 \/ kind = "oversize"
             c == [d EXCEPT !.subs = n, !.captured = k, !.broken = b]
  <2>1. child' = [child EXCEPT ![r] = c] /\ Active(r) /\ UNCHANGED <<run, loose, wrote, starts, line>>
        BY <1>6 DEF ChildSubmits
  <2> HIDE DEF n, k, b
  <2>2. IsChild(c) /\ c.wrote = d.wrote
        BY <1>1 DEF IsChild
  <2> HIDE DEF c
  <2> QED BY <1>5, <2>1, <2>2
<1>7. ASSUME ChildStops(r) PROVE Kept
  <2> DEFINE c == [d EXCEPT !.live = FALSE]
  <2>1. child' = [child EXCEPT ![r] = c] /\ Active(r) /\ UNCHANGED <<run, loose, wrote, starts, line>>
        BY <1>7 DEF ChildStops
  <2>2. IsChild(c) /\ c.wrote = d.wrote
        BY <1>1 DEF IsChild
  <2> HIDE DEF c
  <2> QED BY <1>5, <2>1, <2>2
<1>8. ASSUME LooseWrites(r) PROVE Kept
  <2> DEFINE x == y
             c == d
             w == TRUE
             o == loose[r]
             s == starts[r]
  <2>1. /\ run' = [run EXCEPT ![r] = x] /\ child' = [child EXCEPT ![r] = c]
        /\ wrote' = [wrote EXCEPT ![r] = w] /\ loose' = [loose EXCEPT ![r] = o]
        /\ starts' = [starts EXCEPT ![r] = s] /\ UNCHANGED line
        BY <1>8 DEF LooseWrites, WorkerInv
  <2>2. ~Obedient
        BY <1>1, <1>8 DEF LooseWrites, RunOK
  <2>3. RunOK(x, c, w, o, s)
        BY <1>1, <2>2 DEF RunOK
  <2>4. x.on = run[r].on /\ s = starts[r] /\ x.at = run[r].at
        OBVIOUS
  <2> HIDE DEF x, c, w, o, s
  <2>5. /\ line' \in [Procs -> Seq(Runs)]
        /\ \A k \in Writers : InLine(k, run'[k].at, line'[ProcOf[k]])
        BY <2>1, <2>4, SameLine
  <2> QED BY <2>1, <2>2, <2>3, <2>4, <2>5, StepKeeps
<1> QED BY <1>3, <1>4, <1>6, <1>7, <1>8 DEF ChildStep

\* The attempt is over: what its child has changed is known, if the child has stopped.
LEMMA DetachKeeps ==
    ASSUME WorkerInv, NEW r \in Runs, Detach(r)
    PROVE  Kept
<1> DEFINE m == child[r].wrote
           x == [run[r] EXCEPT !.at = "praising", !.mutated = m]
           o == loose[r] \/ child[r].live
           w == wrote[r]
           s == starts[r]
           c == NoChild
<1>1. /\ IsRun(run[r]) /\ run[r].at = "closing" /\ (child[r].live => ~Obedient)
      /\ RunOK(run[r], child[r], w, loose[r], s)
      BY DEF WorkerInv, RunOK, Detach, At
<1>2. /\ run' = [run EXCEPT ![r] = x] /\ child' = [child EXCEPT ![r] = c]
      /\ wrote' = [wrote EXCEPT ![r] = w] /\ loose' = [loose EXCEPT ![r] = o]
      /\ starts' = [starts EXCEPT ![r] = s] /\ UNCHANGED line
      BY DEF Detach, WorkerInv, Sets
<1>3. Obedient => ~o
      BY <1>1 DEF RunOK
<1>4. IsChild(c) /\ ~c.live
      BY DEF NoChild, NewChild, IsChild
<1>5. IsRun(x) /\ SameRoutes(x, run[r]) /\ x.at = "praising" /\ x.mutated = m
  <2>1. m \in BOOLEAN
        BY <1>1 DEF RunOK, IsChild
  <2> HIDE DEF m
  <2> QED BY <1>1, <2>1 DEF IsRun, SameRoutes
<1> HIDE DEF x, o, c
<1>6. RunOK(x, c, w, o, s)
  <2>1. run[r].at \in WithChild
        BY <1>1 DEF WithChild
  <2>2. Counted(x, s)
        BY <1>1, <1>5, <2>1, StillCounted DEF RunOK, SamePart
  <2> QED BY <1>1, <1>3, <1>4, <1>5, <2>2 DEF RunOK, SameRoutes, WithChild, Before, After
<1>7. Held(x.at) /\ Held(run[r].at) /\ x.on = run[r].on /\ s = starts[r]
      BY <1>1, <1>5 DEF Held, SameRoutes
<1> HIDE DEF m, w, s
<1>8. /\ line' \in [Procs -> Seq(Runs)]
      /\ \A k \in Writers : InLine(k, run'[k].at, line'[ProcOf[k]])
      BY <1>2, <1>7, SameLine
<1> QED BY <1>2, <1>6, <1>7, <1>8, StepKeeps

-------------------------------------------------------------------------------
(* Start and end of a run                                                  *)

LEMMA NewRunIs ==
    /\ IsRun(NewRun) /\ NewRun.on = NoRoute /\ NewRun.current = NoRoute
    /\ IsChild(NewChild) /\ ~NewChild.wrote
    /\ IsChild(NoChild) /\ ~NoChild.live
    /\ NewRun.failed = [x \in Routes |-> 0]
BY DEF NewRun, NewChild, NoChild, IsRun, IsChild

LEMMA TailLine ==
    ASSUME NEW q \in Seq(Runs), q # <<>>
    PROVE  /\ Tail(q) \in Seq(Runs)
           /\ \A k : k # Head(q) /\ (\E i \in DOMAIN q : q[i] = k) =>
                 \E i \in DOMAIN Tail(q) : Tail(q)[i] = k
<1>1. /\ Tail(q) \in Seq(Runs) /\ Len(Tail(q)) = Len(q) - 1 /\ Len(q) \in Nat \ {0}
      /\ \A i \in 1 .. Len(Tail(q)) : Tail(q)[i] = q[i + 1]
      BY HeadTailProperties
<1>2. Head(q) = q[1] /\ DOMAIN q = 1 .. Len(q) /\ DOMAIN Tail(q) = 1 .. Len(Tail(q))
      BY <1>1
<1>3. ASSUME NEW k, k # Head(q), NEW i \in DOMAIN q, q[i] = k
      PROVE  \E j \in DOMAIN Tail(q) : Tail(q)[j] = k
  <2>1. i # 1 /\ i \in 1 .. Len(q)
        BY <1>2, <1>3
  <2>2. i - 1 \in 1 .. Len(Tail(q))
        BY <1>1, <2>1
  <2>3. Tail(q)[i - 1] = q[(i - 1) + 1] /\ (i - 1) + 1 = i
        BY <1>1, <2>1, <2>2
  <2> QED BY <1>2, <1>3, <2>2, <2>3
<1> QED BY <1>1, <1>3

LEMMA AppendLine ==
    ASSUME NEW q \in Seq(Runs), NEW r \in Runs
    PROVE  /\ Append(q, r) \in Seq(Runs) /\ Append(q, r) # <<>>
           /\ q # <<>> => Head(Append(q, r)) = Head(q)
           /\ \E i \in DOMAIN Append(q, r) : Append(q, r)[i] = r
           /\ \A k : (\E i \in DOMAIN q : q[i] = k) => \E i \in DOMAIN Append(q, r) : Append(q, r)[i] = k
<1> DEFINE u == Append(q, r)
           n == Len(q)
<1>1. /\ u \in Seq(Runs) /\ Len(u) = n + 1 /\ n \in Nat /\ u[n + 1] = r
      /\ \A i \in 1 .. n : u[i] = q[i]
      BY AppendProperties
<1>2. DOMAIN u = 1 .. (n + 1) /\ DOMAIN q = 1 .. n
      BY <1>1
<1> HIDE DEF u
<1>3. u # <<>>
      BY <1>1
<1>4. q # <<>> => Head(u) = Head(q)
  <2>1. Head(u) = u[1]
        BY <1>1
  <2>2. q # <<>> => 1 \in 1 .. n /\ Head(q) = q[1]
        BY <1>1
  <2> QED BY <1>1, <2>1, <2>2
<1>5. \E i \in DOMAIN u : u[i] = r
      BY <1>1, <1>2
<1> HIDE DEF n
<1>6. \A i \in DOMAIN q : i \in DOMAIN u /\ u[i] = q[i]
      BY <1>1, <1>2
<1> QED BY <1>1, <1>3, <1>4, <1>5, <1>6 DEF u

\* Who leaves lets the next one of the line in.
LEMMA LeavingLine ==
    ASSUME WorkerInv, NEW r \in Runs, NEW x, run' = [run EXCEPT ![r] = x], x.at = "ended",
           r \in Writers => Held(run[r].at) \/ run[r].at = "idle",
           line' = IF r \in Writers /\ ~At(r, "idle") THEN [line EXCEPT ![ProcOf[r]] = Tail(@)] ELSE line
    PROVE  /\ line' \in [Procs -> Seq(Runs)]
           /\ \A k \in Writers : InLine(k, run'[k].at, line'[ProcOf[k]])
<1>1. \A k \in Runs : run'[k] = IF k = r THEN x ELSE run[k]
      BY DEF WorkerInv
<1>2. /\ line \in [Procs -> Seq(Runs)] /\ ProcOf \in [Runs -> Procs] /\ Writers \subseteq Runs
      /\ \A k \in Writers : InLine(k, run[k].at, line[ProcOf[k]])
      BY WorkersKnown DEF WorkerInv
<1>3. CASE line' = line
      BY <1>1, <1>2, <1>3 DEF InLine, Held
<1>4. CASE r \in Writers /\ Held(run[r].at)
  <2> DEFINE p == ProcOf[r]
             q == line[p]
             t == Tail(q)
  <2>1. p \in Procs /\ q \in Seq(Runs) /\ q # <<>> /\ Head(q) = r
        BY <1>2, <1>4 DEF InLine
  <2>2. /\ t \in Seq(Runs)
        /\ \A k : k # r /\ (\E i \in DOMAIN q : q[i] = k) => \E i \in DOMAIN t : t[i] = k
        BY <2>1, TailLine
  <2>3. line' = [line EXCEPT ![p] = t]
        BY <1>4 DEF At, Held
  <2> HIDE DEF t
  <2>4. line' \in [Procs -> Seq(Runs)] /\ \A o \in Procs : line'[o] = IF o = p THEN t ELSE line[o]
        BY <1>2, <2>1, <2>2, <2>3
  <2>5. ASSUME NEW k \in Writers PROVE InLine(k, run'[k].at, line'[ProcOf[k]])
    <3>1. k \in Runs /\ ProcOf[k] \in Procs /\ InLine(k, run[k].at, line[ProcOf[k]])
          BY <1>2
    <3>2. CASE k = r
          BY <1>1, <3>1, <3>2 DEF InLine, Held
    <3>3. CASE k # r /\ ProcOf[k] # p
          BY <1>1, <2>4, <3>1, <3>3
    <3>4. CASE k # r /\ ProcOf[k] = p
      <4>1. ~Held(run[k].at) /\ run'[k] = run[k] /\ line'[ProcOf[k]] = t
            BY <1>1, <2>1, <2>4, <3>1, <3>4 DEF InLine
      <4>2. run[k].at = "waiting" => \E i \in DOMAIN q : q[i] = k
            BY <3>1, <3>4 DEF InLine
      <4>3. run[k].at = "waiting" => \E i \in DOMAIN t : t[i] = k
            BY <2>2, <3>4, <4>2
      <4> QED BY <4>1, <4>3 DEF InLine
    <3> QED BY <3>2, <3>3, <3>4
  <2> QED BY <2>4, <2>5
<1> QED BY <1>3, <1>4 DEF At

LEMMA EndsKeeps ==
    ASSUME WorkerInv, NEW r \in Runs, NEW status, Ends(r, status), UNCHANGED <<child, loose, wrote, starts>>,
           run[r].at \in {"idle"} \cup (Before \ {"waiting"}) \cup After,
           Obedient /\ wrote[r] => status \in {"completed", "partial_mutation_requires_review"},
           status = "completed" => run[r].result /\ ~run[r].violation
    PROVE  Kept
<1> DEFINE ab == run[r].aborted
           re == run[r].result
           vi == run[r].violation
           x == [NewRun EXCEPT !.at = "ended", !.status = status, !.aborted = ab, !.result = re, !.violation = vi]
           c == child[r]
           w == wrote[r]
           o == loose[r]
           s == starts[r]
<1>1. RunOK(run[r], c, w, o, s)
      BY DEF WorkerInv
<1>2. /\ run' = [run EXCEPT ![r] = x] /\ child' = [child EXCEPT ![r] = c]
      /\ wrote' = [wrote EXCEPT ![r] = w] /\ loose' = [loose EXCEPT ![r] = o]
      /\ starts' = [starts EXCEPT ![r] = s]
      BY DEF Ends, Sets, WorkerInv
<1> HIDE DEF c, o
<1>3. /\ IsRun(x) /\ x.at = "ended" /\ x.status = status /\ x.result = re /\ x.violation = vi
      /\ x.on = NoRoute /\ x.current = NoRoute /\ x.failed = [y \in Routes |-> 0]
      BY NewRunIs DEF IsRun
<1> HIDE DEF x
<1>4. ~c.live
      BY <1>1 DEF RunOK, Before, WithChild, After
<1>5. RunOK(x, c, w, o, s)
  <2>1. \A y \in Routes : x.failed[y] = 0 /\ s[y] \in 0 .. MaxAttempts
        BY <1>1, <1>3 DEF RunOK, Counted
  <2>2. \A y \in Routes : x.failed[y] \in Nat /\ x.failed[y] <= s[y]
        BY <2>1
  <2>3. x.failed = [y \in Routes |-> x.failed[y]]
        BY <1>3
  <2>4. Counted(x, s)
        BY <1>3, <2>1, <2>2, <2>3 DEF Counted, WithChild
  <2> QED BY <1>1, <1>3, <1>4, <2>4 DEF RunOK, Before, WithChild, After
<1>6. /\ line' \in [Procs -> Seq(Runs)]
      /\ \A k \in Writers : InLine(k, run'[k].at, line'[ProcOf[k]])
  <2>1. Held(run[r].at) \/ run[r].at = "idle"
        BY DEF Held, Before, After
  <2>2. line' = IF r \in Writers /\ ~At(r, "idle") THEN [line EXCEPT ![ProcOf[r]] = Tail(@)] ELSE line
        BY DEF Ends
  <2> QED BY <1>2, <1>3, <2>1, <2>2, LeavingLine
<1>7. Obedient /\ s # starts[r] => ~wrote[r]
      OBVIOUS
<1> HIDE DEF w, s
<1> QED BY <1>2, <1>3, <1>5, <1>6, <1>7, StepKeeps

\* A verdict on a run that changed files, and one that says the run is completed.
LEMMA VerdictIs ==
    ASSUME NEW r, IsRun(run[r])
    PROVE  /\ run[r].mutated => Verdict(r) \in {"completed", "partial_mutation_requires_review"}
           /\ Verdict(r) = "completed" => run[r].result /\ ~run[r].violation
           /\ Verdict(r) = None => run[r].failure # NoFailure
<1> DEFINE o == run[r].outcome
           partial == "partial_mutation_requires_review"
           a == IF run[r].mutated THEN partial ELSE "cancelled"
           b == IF run[r].mutated THEN partial ELSE "invalid_child_result"
           c1 == o = "cancelled"
           c2 == o = "timed_out" /\ run[r].mutated
           c3 == o = "completed" /\ run[r].result /\ ~run[r].violation
           c4 == /\ o \in {"invalid_child_result", "protocol_violation"}
                 /\ run[r].mutated \/ ~CapabilityEligible(r)
           c5 == run[r].mutated
           c6 == o = "child_runtime_error"
           c7 == run[r].failure = NoFailure
           d == "completed"
           e == "child_runtime_error"
           f == "infrastructure_stopped"
           v == IF c1 THEN a ELSE IF c2 THEN partial ELSE IF c3 THEN d ELSE IF c4 THEN b
                ELSE IF c5 THEN partial ELSE IF c6 THEN e ELSE IF c7 THEN f ELSE None
<1>1. Verdict(r) = FirstOf(<< <<c1, a>>, <<c2, partial>>, <<c3, d>>, <<c4, b>>, <<c5, partial>>,
                              <<c6, e>>, <<c7, f>>, <<TRUE, None>> >>)
      BY DEF Verdict
<1>2. /\ c1 \in BOOLEAN /\ c2 \in BOOLEAN /\ c3 \in BOOLEAN /\ c4 \in BOOLEAN
      /\ c5 \in BOOLEAN /\ c6 \in BOOLEAN /\ c7 \in BOOLEAN
      BY DEF IsRun
<1>3. /\ c5 => a = partial /\ b = partial
      /\ a # d /\ b # d /\ e # d /\ f # d /\ None # d /\ partial # d
      /\ a # None /\ b # None /\ e # None /\ f # None /\ partial # None
      /\ c7 <=> run[r].failure = NoFailure
      /\ c3 => run[r].result /\ ~run[r].violation
      /\ c5 <=> run[r].mutated
      BY <1>2 DEF None
<1> HIDE DEF a, b, d, e, f, partial, c1, c2, c3, c4, c5, c6, c7
<1>4. Verdict(r) = v
  <2> DEFINE n1 == <<c1, a>>
             n2 == <<c2, partial>>
             n3 == <<c3, d>>
             n4 == <<c4, b>>
             n5 == <<c5, partial>>
             n6 == <<c6, e>>
             n7 == <<c7, f>>
             n8 == <<TRUE, None>>
             t == <<n1, n2, n3, n4, n5, n6, n7, n8>>
  <2>1. /\ n1[1] = c1 /\ n2[1] = c2 /\ n3[1] = c3 /\ n4[1] = c4
        /\ n5[1] = c5 /\ n6[1] = c6 /\ n7[1] = c7 /\ n8[1] = TRUE
        OBVIOUS
  <2>2. /\ n1[2] = a /\ n2[2] = partial /\ n3[2] = d /\ n4[2] = b
        /\ n5[2] = partial /\ n6[2] = e /\ n7[2] = f /\ n8[2] = None
        OBVIOUS
  <2> HIDE DEF n1, n2, n3, n4, n5, n6, n7, n8
  <2>3. DOMAIN t = 1 .. 8
        OBVIOUS
  <2>4. t[1] = n1 /\ t[2] = n2 /\ t[3] = n3 /\ t[4] = n4
        OBVIOUS
  <2>5. t[5] = n5 /\ t[6] = n6 /\ t[7] = n7 /\ t[8] = n8
        OBVIOUS
  <2> HIDE DEF t
  <2> DEFINE Past(i) == \A k \in 1 .. 8 : k < i => ~t[k][1]
  <2>6. Past(1) /\ \A i \in 1 .. 7 : Past(i) /\ ~t[i][1] => Past(i + 1)
        OBVIOUS
  <2>7. \A i \in 1 .. 8 : Past(i) /\ t[i][1] => FirstOf(t) = t[i][2]
        BY <2>3, FirstOfIs DEF FirstHit
  <2> HIDE DEF Past
  <2>8. /\ t[1][1] = c1 /\ t[2][1] = c2 /\ t[3][1] = c3 /\ t[4][1] = c4
        /\ t[5][1] = c5 /\ t[6][1] = c6 /\ t[7][1] = c7 /\ t[8][1] = TRUE
        BY <2>1, <2>4, <2>5
  <2>9. /\ t[1][2] = a /\ t[2][2] = partial /\ t[3][2] = d /\ t[4][2] = b
        /\ t[5][2] = partial /\ t[6][2] = e /\ t[7][2] = f /\ t[8][2] = None
        BY <2>2, <2>4, <2>5
  <2>10. /\ Past(1) /\ (Past(1) /\ ~c1 => Past(2)) /\ (Past(2) /\ ~c2 => Past(3))
         /\ (Past(3) /\ ~c3 => Past(4)) /\ (Past(4) /\ ~c4 => Past(5))
         BY <1>2, <2>6, <2>8
  <2>11. /\ (Past(5) /\ ~c5 => Past(6)) /\ (Past(6) /\ ~c6 => Past(7)) /\ (Past(7) /\ ~c7 => Past(8))
         BY <1>2, <2>6, <2>8
  <2>12. /\ (Past(1) /\ c1 => FirstOf(t) = a) /\ (Past(2) /\ c2 => FirstOf(t) = partial)
         /\ (Past(3) /\ c3 => FirstOf(t) = d) /\ (Past(4) /\ c4 => FirstOf(t) = b)
         BY <1>2, <2>7, <2>8, <2>9
  <2>13. /\ (Past(5) /\ c5 => FirstOf(t) = partial) /\ (Past(6) /\ c6 => FirstOf(t) = e)
         /\ (Past(7) /\ c7 => FirstOf(t) = f) /\ (Past(8) => FirstOf(t) = None)
         BY <1>2, <2>7, <2>8, <2>9
  <2>14. FirstOf(t) = IF c1 THEN a ELSE IF c2 THEN partial ELSE IF c3 THEN d ELSE IF c4 THEN b
                      ELSE IF c5 THEN partial ELSE IF c6 THEN e ELSE IF c7 THEN f ELSE None
        BY <1>2, <2>10, <2>11, <2>12, <2>13
  <2> QED BY <1>1, <2>14 DEF t, n1, n2, n3, n4, n5, n6, n7, n8
<1>5. /\ c5 => v \in {d, partial}
      /\ v = d => c3
      /\ v = None => ~c7
      BY <1>2, <1>3
<1> QED BY <1>3, <1>4, <1>5 DEF d, partial

-------------------------------------------------------------------------------
(* The steps of the executor                                               *)

LEMMA StartKeeps ==
    ASSUME WorkerInv, NEW r \in Runs, Begin(r) \/ Enter(r)
    PROVE  Kept
<1> DEFINE y == run[r]
           c == child[r]
           w == wrote[r]
           o == loose[r]
           s == starts[r]
           x(at) == [y EXCEPT !.at = at]
<1>1. RunOK(y, c, w, o, s) /\ y.at \in {"idle", "waiting"}
      BY DEF WorkerInv, Begin, Enter, At
<1>2. /\ child' = [child EXCEPT ![r] = c] /\ wrote' = [wrote EXCEPT ![r] = w]
      /\ loose' = [loose EXCEPT ![r] = o] /\ starts' = [starts EXCEPT ![r] = s]
      BY DEF Begin, Enter, WorkerInv
<1>3. \A at : IsRun(x(at)) /\ SameRoutes(x(at), y) /\ x(at).at = at
      BY <1>1 DEF IsRun, SameRoutes, RunOK
<1> HIDE DEF x
<1>4. \A at \in {"waiting", "choosing"} : RunOK(x(at), c, w, o, s)
  <2>1. \A at \in {"waiting", "choosing"} : Counted(x(at), s)
        BY <1>1, <1>3, StillCounted DEF RunOK, SamePart
  <2> QED BY <1>1, <1>3, <2>1 DEF RunOK, SameRoutes, Before, WithChild, After
<1>5. ASSUME NEW at \in {"waiting", "choosing"}, Sets(r, x(at)), line' \in [Procs -> Seq(Runs)],
             \A k \in Writers : InLine(k, run'[k].at, line'[ProcOf[k]])
      PROVE  Kept
  <2> DEFINE z == x(at)
  <2>1. RunOK(z, c, w, o, s) /\ z.on = run[r].on /\ s = starts[r] /\ run' = [run EXCEPT ![r] = z]
        BY <1>3, <1>4, <1>5 DEF SameRoutes, Sets
  <2> HIDE DEF z, c, w, o, s
  <2> QED BY <1>2, <1>5, <2>1, StepKeeps
<1>6. /\ line \in [Procs -> Seq(Runs)] /\ ProcOf \in [Runs -> Procs] /\ Writers \subseteq Runs
      /\ \A k \in Writers : InLine(k, run[k].at, line[ProcOf[k]])
      BY WorkersKnown DEF WorkerInv
<1>7. \A at : Sets(r, x(at)) => \A k \in Runs : run'[k] = IF k = r THEN x(at) ELSE run[k]
      BY DEF WorkerInv, Sets
<1>8. ASSUME Begin(r), run[r].aborted PROVE Kept
  <2>1. Ends(r, "cancelled") /\ UNCHANGED <<child, loose, wrote, starts>> /\ run[r].at = "idle"
        BY <1>8 DEF Begin, At
  <2>2. ~(Obedient /\ wrote[r])
        BY <1>1, <2>1 DEF RunOK, Before
  <2> QED BY <2>1, <2>2, EndsKeeps
<1>9. ASSUME Begin(r), ~run[r].aborted, r \in Writers PROVE Kept
  <2> DEFINE p == ProcOf[r]
             q == line[p]
             t == Append(q, r)
  <2>1. Sets(r, x("waiting")) /\ line' = [line EXCEPT ![p] = t]
        BY <1>9 DEF Begin, Goes, x
  <2>2. p \in Procs /\ q \in Seq(Runs)
        BY <1>6
  <2>3. /\ t \in Seq(Runs) /\ t # <<>>
        /\ q # <<>> => Head(t) = Head(q)
        /\ \E i \in DOMAIN t : t[i] = r
        /\ \A k : (\E i \in DOMAIN q : q[i] = k) => \E i \in DOMAIN t : t[i] = k
        BY <2>2, AppendLine
  <2> HIDE DEF t
  <2>4. line' \in [Procs -> Seq(Runs)] /\ \A k \in Procs : line'[k] = IF k = p THEN t ELSE line[k]
        BY <1>6, <2>1, <2>2, <2>3
  <2>5. ASSUME NEW k \in Writers PROVE InLine(k, run'[k].at, line'[ProcOf[k]])
    <3>1. k \in Runs /\ ProcOf[k] \in Procs /\ InLine(k, run[k].at, line[ProcOf[k]])
          BY <1>6
    <3>2. CASE k = r
      <4>1. run'[k].at = "waiting" /\ line'[ProcOf[k]] = t
            BY <1>3, <1>7, <2>1, <2>4, <3>1, <3>2
      <4> QED BY <2>3, <3>2, <4>1 DEF InLine, Held
    <3>3. CASE k # r /\ ProcOf[k] # p
      <4>1. run'[k] = run[k] /\ line'[ProcOf[k]] = line[ProcOf[k]]
            BY <1>7, <2>1, <2>4, <3>1, <3>3
      <4> QED BY <3>1, <4>1
    <3>4. CASE k # r /\ ProcOf[k] = p
      <4>1. run'[k] = run[k] /\ line'[ProcOf[k]] = t /\ InLine(k, run[k].at, q)
            BY <1>7, <2>1, <2>4, <3>1, <3>4
      <4>2. Held(run[k].at) => t # <<>> /\ Head(t) = k
            BY <2>3, <4>1 DEF InLine
      <4>3. run[k].at = "waiting" => \E i \in DOMAIN t : t[i] = k
            BY <2>3, <4>1 DEF InLine
      <4> QED BY <4>1, <4>2, <4>3 DEF InLine
    <3> QED BY <3>2, <3>3, <3>4
  <2> QED BY <1>5, <2>1, <2>4, <2>5
<1>10. ASSUME Begin(r), ~run[r].aborted, r \notin Writers PROVE Kept
  <2>1. Sets(r, x("choosing")) /\ UNCHANGED line
        BY <1>10 DEF Begin, Goes, x
  <2>2. \A k \in Writers : run'[k] = run[k]
        BY <1>6, <1>7, <1>10, <2>1
  <2>3. \A k \in Writers : InLine(k, run'[k].at, line'[ProcOf[k]])
        BY <1>6, <2>1, <2>2
  <2> QED BY <1>5, <1>6, <2>1, <2>3
<1>11. ASSUME Enter(r) PROVE Kept
  <2>1. Sets(r, x("choosing")) /\ UNCHANGED line /\ Head(line[ProcOf[r]]) = r /\ y.at = "waiting"
        BY <1>11 DEF Enter, Goes, At, x
  <2>2. ASSUME NEW k \in Writers PROVE InLine(k, run'[k].at, line'[ProcOf[k]])
    <3>1. InLine(k, run[k].at, line[ProcOf[k]]) /\ k \in Runs /\ line[ProcOf[k]] \in Seq(Runs)
          BY <1>6
    <3>2. CASE k # r
          BY <1>7, <2>1, <3>1, <3>2
    <3>3. CASE k = r
      <4> DEFINE q == line[ProcOf[k]]
      <4>1. run'[k].at = "choosing" /\ line'[ProcOf[k]] = q /\ Head(q) = k
            BY <1>3, <1>7, <2>1, <3>1, <3>3
      <4>2. \E i \in DOMAIN q : q[i] = k
            BY <2>1, <3>1, <3>3 DEF InLine
      <4>3. q # <<>>
            BY <4>2
      <4> HIDE DEF q
      <4> QED BY <4>1, <4>3 DEF InLine, Held
    <3> QED BY <3>2, <3>3
  <2>3. line' \in [Procs -> Seq(Runs)]
        BY <1>6, <2>1
  <2> QED BY <1>5, <2>1, <2>2, <2>3
<1> QED BY <1>8, <1>9, <1>10, <1>11

\* A step inside, with no child: the run has another place, and may have another route.
LEMMA InsideKeeps ==
    ASSUME WorkerInv, NEW r \in Runs, run[r].at \in (Before \ {"idle", "waiting"}) \cup After, NEW x, IsRun(x),
           Sets(r, x), UNCHANGED <<child, loose, wrote, starts, line>>,
           x.at \in (Before \ {"idle", "waiting"}) \cup After, x.current \in {NoRoute, x.on},
           \A y \in Routes : starts[r][y] # 0 => y \in x.attempted \/ (y = x.on /\ x.at = "praising"),
           Obedient /\ wrote[r] => x.at \in After /\ x.mutated, Counted(x, starts[r]),
           x.on \notin {run[r].on, NoRoute} => starts[r][x.on] = 0
    PROVE  Kept
<1>1. RunOK(run[r], child[r], wrote[r], loose[r], starts[r])
      BY DEF WorkerInv
<1>2. Held(x.at) /\ Held(run[r].at)
      BY DEF Held, Before, After
<1>3. x.at \notin {"ended"} \cup WithChild /\ run[r].at \notin {"ended"} \cup WithChild
      BY DEF Before, After, WithChild
<1>4. x.at \in After => x.at \notin Before
      BY DEF Before, After
<1>5. RunOK(x, child[r], wrote[r], loose[r], starts[r])
      BY <1>1, <1>3, <1>4 DEF RunOK
<1> QED BY <1>2, <1>5, RunMoves

\* What is known of a run inside, with no child.
LEMMA InsideIs ==
    ASSUME WorkerInv, NEW r \in Runs, run[r].at \in Before \cup After
    PROVE  /\ IsRun(run[r]) /\ run[r].current \in {NoRoute, run[r].on}
           /\ \A y \in Routes : starts[r][y] # 0 => y \in run[r].attempted \/ (y = run[r].on /\ run[r].at = "praising")
           /\ Obedient /\ wrote[r] => run[r].at \in After /\ run[r].mutated
           /\ Counted(run[r], starts[r])
<1>1. RunOK(run[r], child[r], wrote[r], loose[r], starts[r])
      BY DEF WorkerInv
<1>2. run[r].at \notin WithChild /\ run[r].at # "ended" /\ (run[r].at \notin Before => run[r].at \in After)
      BY DEF Before, After, WithChild
<1> QED BY <1>1, <1>2 DEF RunOK

\* Only routes that were not attempted are offered.
LEMMA OfferedIs ==
    ASSUME NEW r, NEW x \in Offered(r)
    PROVE  x \in Routes /\ x \notin run[r].attempted
<1> DEFINE eligible == {y \in Routes : EvaluateCandidate(y, state[y], Listed[y], now, run[r].attempted)}
<1>1. x \in eligible
      BY DEF Offered, SelectRoute
<1> QED BY <1>1 DEF EvaluateCandidate

LEMMA ChoiceKeeps ==
    ASSUME WorkerInv, NEW r \in Runs,
           \/ CancelledBetween(r) \/ Retry(r) \/ Select(r) \/ RoutingFails(r) \/ NoEligibleRoute(r)
           \/ Resolve(r) \/ ResolveFails(r)
    PROVE  Kept
<1> DEFINE y == run[r]
<1>1. y.at \in {"choosing", "resolving"} /\ y.at \in Before /\ UNCHANGED <<child, loose, wrote, starts>>
      BY DEF CancelledBetween, Retry, Select, RoutingFails, NoEligibleRoute, Resolve, ResolveFails, CanChoose, At, Before
<1>2. /\ IsRun(y) /\ y.current \in {NoRoute, y.on} /\ ~(Obedient /\ wrote[r]) /\ Counted(y, starts[r])
      /\ \A z \in Routes : starts[r][z] # 0 => z \in y.attempted
      BY <1>1, InsideIs DEF After
<1>3. y.at \in (Before \ {"idle", "waiting"}) \cup After
      BY <1>1 DEF Before
<1>4. "resolving" \in Before \ {"idle", "waiting"} /\ "creating" \in Before \ {"idle", "waiting"}
      BY DEF Before
<1>5. ASSUME NEW status, status # "completed", Ends(r, status) PROVE Kept
  <2>1. y.at \in {"idle"} \cup (Before \ {"waiting"}) \cup After
        BY <1>3
  <2> QED BY <1>1, <1>2, <1>5, <2>1, EndsKeeps
<1>6. CASE CancelledBetween(r) \/ RoutingFails(r) \/ NoEligibleRoute(r) \/ ResolveFails(r)
  <2>1. \E status : status # "completed" /\ Ends(r, status)
        BY <1>6 DEF CancelledBetween, RoutingFails, NoEligibleRoute, ResolveFails
  <2> QED BY <1>5, <2>1
<1>7. CASE Retry(r)
  <2> DEFINE x == [y EXCEPT !.at = "resolving", !.on = y.current]
  <2>1. Sets(r, x) /\ y.current = y.on /\ y.current # NoRoute /\ y.at = "choosing" /\ UNCHANGED line
        BY <1>2, <1>7 DEF Retry, CanChoose, At
  <2>2. /\ IsRun(x) /\ x.at = "resolving" /\ x.on = y.on /\ x.current = y.on /\ x.attempted = y.attempted
        /\ x.failed = y.failed
        BY <1>2, <2>1 DEF IsRun
  <2> HIDE DEF x
  <2>3. Counted(x, starts[r])
        BY <1>2, <2>1, <2>2 DEF Counted, WithChild
  <2> QED BY <1>1, <1>2, <1>3, <1>4, <2>1, <2>2, <2>3, InsideKeeps
<1>8. CASE Select(r)
  <2>1. PICK z \in Offered(r) : Sets(r, [y EXCEPT !.at = "resolving", !.on = z, !.current = NoRoute])
        BY <1>8 DEF Select
  <2> DEFINE x == [y EXCEPT !.at = "resolving", !.on = z, !.current = NoRoute]
  <2>2. /\ IsRun(x) /\ x.at = "resolving" /\ x.on = z /\ x.current = NoRoute /\ x.attempted = y.attempted
        /\ x.failed = y.failed
        BY <1>2 DEF IsRun
  <2>3. Sets(r, x)
        BY <2>1
  <2> HIDE DEF x
  <2>4. z \in Routes /\ z \notin y.attempted
        BY OfferedIs
  <2>5. starts[r][x.on] = 0 /\ UNCHANGED line
        BY <1>2, <1>8, <2>2, <2>4 DEF Select
  <2>6. Counted(x, starts[r])
    <3>1. y.failed[z] \in Nat /\ y.failed[z] <= starts[r][z] /\ starts[r][z] = 0
          BY <1>2, <2>2, <2>4, <2>5 DEF Counted
    <3>2. y.failed[z] = 0 /\ 0 < MaxAttempts
          BY <3>1, RoutingAssumption
    <3> QED BY <1>2, <2>2, <2>4, <3>1, <3>2 DEF Counted, WithChild
  <2> QED BY <1>1, <1>2, <1>3, <1>4, <2>2, <2>3, <2>5, <2>6, InsideKeeps
<1>9. CASE Resolve(r)
  <2> DEFINE x == [y EXCEPT !.at = "creating"]
  <2>1. Sets(r, x) /\ y.at = "resolving" /\ UNCHANGED line
        BY <1>9 DEF Resolve, Goes, At
  <2>2. IsRun(x) /\ x.at = "creating" /\ SameRoutes(x, y)
        BY <1>2 DEF IsRun, SameRoutes
  <2> HIDE DEF x
  <2>3. Counted(x, starts[r])
        BY <1>2, <2>1, <2>2, StillCounted DEF SamePart
  <2>4. x.on = y.on /\ x.current = y.current /\ x.attempted = y.attempted
        BY <2>2 DEF SameRoutes
  <2> QED BY <1>1, <1>2, <1>3, <1>4, <2>1, <2>2, <2>3, <2>4, InsideKeeps
<1> QED BY <1>6, <1>7, <1>8, <1>9

\* A child starts, or cannot: the files of the run are as they were.
LEMMA CreateKeeps ==
    ASSUME WorkerInv, NEW r \in Runs, StartChild(r) \/ CreateFails(r)
    PROVE  Kept
<1> DEFINE y == run[r]
           w == wrote[r]
           o == loose[r]
           s == [starts[r] EXCEPT ![y.on] = @ + 1]
<1>1. y.at = "creating" /\ y.at \in Before
      BY DEF StartChild, CreateFails, At, Before
<1>2. RunOK(y, child[r], w, o, starts[r])
      BY DEF WorkerInv
<1>3. /\ wrote' = [wrote EXCEPT ![r] = w] /\ loose' = [loose EXCEPT ![r] = o]
      /\ starts' = [starts EXCEPT ![r] = s] /\ UNCHANGED line
      BY DEF StartChild, CreateFails, WorkerInv
<1>4. Obedient => ~w
      BY <1>1, <1>2 DEF RunOK
<1>5. /\ s = [z \in Routes |-> s[z]]
      /\ \A z \in Routes : s[z] # 0 => z \in y.attempted \/ z = y.on
  <2>1. /\ starts[r] = [z \in Routes |-> starts[r][z]]
        /\ \A z \in Routes : starts[r][z] # 0 => z \in y.attempted
        BY <1>1, InsideIs, <1>2 DEF RunOK
  <2>2. \A z \in Routes : z # y.on => s[z] = starts[r][z]
        BY <2>1
  <2> QED BY <2>1, <2>2
<1>9. /\ y.failed = [z \in Routes |-> y.failed[z]] /\ y.on \in Routes /\ s[y.on] = y.failed[y.on] + 1
      /\ \A z \in Routes : y.failed[z] \in Nat /\ s[z] \in 0 .. MaxAttempts /\ y.failed[z] <= s[z]
  <2>1. /\ y.failed = [z \in Routes |-> y.failed[z]] /\ y.on \in Routes
        /\ starts[r][y.on] = y.failed[y.on] /\ starts[r][y.on] < MaxAttempts
        /\ \A z \in Routes : y.failed[z] \in Nat /\ starts[r][z] \in 0 .. MaxAttempts /\ y.failed[z] <= starts[r][z]
        BY <1>1, <1>2 DEF RunOK, Counted
  <2>2. starts[r] = [z \in Routes |-> starts[r][z]]
        BY <1>2 DEF RunOK
  <2>3. s[y.on] = starts[r][y.on] + 1 /\ \A z \in Routes : z # y.on => s[z] = starts[r][z]
        BY <2>1, <2>2
  <2> HIDE DEF s, y
  <2> QED BY <2>1, <2>3, RoutingAssumption
<1> HIDE DEF s
<1>6. ASSUME NEW x, IsRun(x), SameRoutes(x, y), NEW c, IsChild(c), run' = [run EXCEPT ![r] = x],
             child' = [child EXCEPT ![r] = c],
             x.at = "working" \/ (x.at = "praising" /\ ~c.live)
      PROVE  Kept
  <2>1. RunOK(x, c, w, o, s)
    <3>1. Counted(x, s)
          BY <1>6, <1>9 DEF Counted, SameRoutes, WithChild
    <3> QED BY <1>2, <1>4, <1>5, <1>6, <3>1 DEF RunOK, SameRoutes, Before, WithChild, After
  <2>2. x.on = run[r].on /\ Held(x.at) /\ Held(run[r].at)
        BY <1>1, <1>6 DEF SameRoutes, Held
  <2>3. /\ line' \in [Procs -> Seq(Runs)]
        /\ \A k \in Writers : InLine(k, run'[k].at, line'[ProcOf[k]])
        BY <1>3, <1>6, <2>2, SameLine
  <2>4. Obedient /\ s # starts[r] => ~wrote[r]
        BY <1>4
  <2> HIDE DEF w, o
  <2> QED BY <1>3, <1>6, <2>1, <2>2, <2>3, <2>4, StepKeeps
<1>7. CASE StartChild(r)
  <2> DEFINE x == [y EXCEPT !.at = "working", !.outcome = None, !.failure = NoFailure, !.after = 0,
                            !.mutated = FALSE, !.result = FALSE, !.provider = FALSE,
                            !.violation = FALSE, !.finalized = FALSE]
             c == NewChild
  <2>1. run' = [run EXCEPT ![r] = x] /\ child' = [child EXCEPT ![r] = c]
        BY <1>7 DEF StartChild, Sets
  <2>2. IsRun(x) /\ SameRoutes(x, y) /\ x.at = "working"
        BY <1>2 DEF IsRun, SameRoutes, RunOK
  <2> HIDE DEF x
  <2> QED BY <1>6, <2>1, <2>2, NewRunIs
<1>8. CASE CreateFails(r)
  <2> DEFINE closed == [y EXCEPT !.at = "praising", !.mutated = FALSE, !.result = FALSE, !.provider = FALSE,
                                 !.violation = FALSE, !.finalized = FALSE]
  <2>1. child' = [child EXCEPT ![r] = NoChild]
        BY <1>8 DEF CreateFails
  <2>2. IsRun(closed) /\ SameRoutes(closed, y) /\ closed.at = "praising"
        BY <1>2 DEF IsRun, SameRoutes, RunOK
  <2>3. \/ Sets(r, [closed EXCEPT !.failure = NoFailure, !.after = 0,
                                  !.outcome = IF y.aborted THEN "cancelled" ELSE "child_runtime_error"])
        \/ \E f \in Failures : Sets(r, [closed EXCEPT !.failure = ClassOfError(f.words, f.status), !.after = f.after,
                                                      !.outcome = OutcomeOf(ClassOfError(f.words, f.status))])
        BY <1>8 DEF CreateFails
  <2> HIDE DEF closed, y
  <2>4. ASSUME NEW fl, NEW af, NEW out, Sets(r, [closed EXCEPT !.failure = fl, !.after = af, !.outcome = out])
        PROVE  Kept
    <3> DEFINE x == [closed EXCEPT !.failure = fl, !.after = af, !.outcome = out]
    <3>1. run' = [run EXCEPT ![r] = x]
          BY <2>4 DEF Sets
    <3>2. IsRun(x) /\ SameRoutes(x, y) /\ x.at = "praising"
          BY <2>2 DEF IsRun, SameRoutes
    <3> HIDE DEF x
    <3> QED BY <1>6, <2>1, <3>1, <3>2, NewRunIs
  <2> QED BY <2>3, <2>4
<1> QED BY <1>7, <1>8

\* The route is retried while fewer than maxAttempts failures are recorded for it.
LEMMA RetryIs ==
    ASSUME NEW r, run[r].failed[run[r].on] \in Nat, Action(r) = "RETRY_SAME_ROUTE"
    PROVE  run[r].failed[run[r].on] < MaxAttempts
<1> DEFINE n == run[r].failed[run[r].on]
           m == IF n = 0 THEN 0 ELSE n - 1
<1>1. DecideFailureAction(run[r].failure, m) = "RETRY_SAME_ROUTE"
      BY DEF Action, NextAfterFailure
<1> HIDE DEF m
<1>2. m < MaxAttempts - 1
      BY <1>1 DEF DecideFailureAction
<1> QED BY <1>2, RoutingAssumption DEF m

LEMMA EndOfAttemptKeeps ==
    ASSUME WorkerInv, NEW r \in Runs, Praise(r) \/ Blame(r) \/ Decide(r) \/ GoOn(r)
    PROVE  Kept
<1> DEFINE y == run[r]
<1>1. y.at \in {"praising", "blaming", "deciding"} /\ y.at \in After
      BY DEF Praise, Blame, Decide, GoOn, CanDecide, At, After
<1>2. /\ IsRun(y) /\ y.current \in {NoRoute, y.on} /\ (Obedient /\ wrote[r] => y.mutated) /\ Counted(y, starts[r])
      /\ \A z \in Routes : starts[r][z] # 0 => z \in y.attempted \/ (z = y.on /\ y.at = "praising")
      BY <1>1, InsideIs
<1>3. "blaming" \in After /\ "deciding" \in After /\ "choosing" \in Before \ {"idle", "waiting"}
      BY DEF After, Before
<1>4. CASE Praise(r)
  <2> DEFINE f == FailureOf(r)
             at2 == y.attempted \cup {y.on}
             n == IF f = NoFailure THEN y.failed ELSE OneMore(y.failed, y.on)
             x == [y EXCEPT !.at = "blaming", !.current = y.on, !.attempted = at2, !.failure = f, !.failed = n]
  <2>1. Sets(r, x) /\ UNCHANGED <<child, loose, wrote, starts, line>> /\ y.at = "praising"
        BY <1>4 DEF Praise, At
  <2>2. y.on \in at2 /\ y.attempted \subseteq at2
        OBVIOUS
  <2>5. /\ n = [z \in Routes |-> n[z]]
        /\ \A z \in Routes : n[z] \in Nat /\ n[z] <= starts[r][z]
        /\ f # NoFailure => starts[r][y.on] = n[y.on]
    <3>1. /\ y.failed = [z \in Routes |-> y.failed[z]] /\ y.on \in Routes /\ starts[r][y.on] = y.failed[y.on] + 1
          /\ \A z \in Routes : y.failed[z] \in Nat /\ y.failed[z] <= starts[r][z]
          BY <1>2, <2>1 DEF Counted
    <3> HIDE DEF f, y
    <3> QED BY <3>1 DEF OneMore
  <2> HIDE DEF f, at2, n
  <2>3. /\ IsRun(x) /\ x.at = "blaming" /\ x.on = y.on /\ x.current = y.on /\ x.attempted = at2
        /\ x.mutated = y.mutated /\ x.failed = n /\ x.failure = f
        BY <1>2 DEF IsRun
  <2> HIDE DEF x
  <2>4. \A z \in Routes : starts[r][z] # 0 => z \in x.attempted
        BY <1>2, <2>2, <2>3
  <2>6. Counted(x, starts[r])
        BY <1>2, <2>1, <2>3, <2>5 DEF Counted, WithChild
  <2> QED BY <1>1, <1>2, <1>3, <2>1, <2>3, <2>4, <2>6, InsideKeeps
<1>5. CASE Blame(r)
  <2> DEFINE x == [y EXCEPT !.at = "deciding"]
  <2>1. Sets(r, x) /\ UNCHANGED <<child, loose, wrote, starts, line>> /\ y.at = "blaming"
        BY <1>5 DEF Blame, Goes, At
  <2>2. IsRun(x) /\ x.at = "deciding" /\ x.on = y.on /\ x.current = y.current /\ x.attempted = y.attempted
        /\ x.mutated = y.mutated /\ x.failed = y.failed /\ x.failure = y.failure
        BY <1>2 DEF IsRun
  <2> HIDE DEF x
  <2>3. Counted(x, starts[r])
        BY <1>2, <2>1, <2>2 DEF Counted, WithChild
  <2> QED BY <1>1, <1>2, <1>3, <2>1, <2>2, <2>3, InsideKeeps
<1>6. CASE Decide(r)
  <2>1. (y.mutated => Verdict(r) \in {"completed", "partial_mutation_requires_review"})
        /\ (Verdict(r) = "completed" => run[r].result /\ ~run[r].violation)
        BY <1>2, VerdictIs
  <2> DEFINE status == IF Verdict(r) # None THEN Verdict(r) ELSE StopStatus(r)
  <2>2. Ends(r, status) /\ UNCHANGED <<child, loose, wrote, starts>>
        BY <1>6 DEF Decide
  <2>3. StopStatus(r) # "completed"
        BY DEF StopStatus
  <2>4. y.mutated => status = Verdict(r)
        BY <2>1 DEF None
  <2>5. status = "completed" => run[r].result /\ ~run[r].violation
        BY <2>1, <2>3
  <2> HIDE DEF status
  <2> QED BY <1>1, <1>2, <2>1, <2>2, <2>4, <2>5, EndsKeeps
<1>7. CASE GoOn(r)
  <2> DEFINE cur == IF Action(r) = "RETRY_SAME_ROUTE" THEN y.current ELSE NoRoute
             x == [y EXCEPT !.at = "choosing", !.current = cur]
  <2>1. Sets(r, x) /\ UNCHANGED <<child, loose, wrote, starts, line>> /\ y.at = "deciding" /\ Verdict(r) = None
        BY <1>7 DEF GoOn, CanDecide, At
  <2>2. cur \in {NoRoute, y.on}
        BY <1>2
  <2>5. cur # NoRoute => y.failed[y.on] < MaxAttempts
        BY <1>2, <2>1, RetryIs DEF Counted
  <2> HIDE DEF cur
  <2>3. /\ IsRun(x) /\ x.at = "choosing" /\ x.on = y.on /\ x.current = cur /\ x.attempted = y.attempted
        /\ x.failed = y.failed
        BY <1>2 DEF IsRun
  <2> HIDE DEF x
  <2>4. ~y.mutated /\ y.failure # NoFailure
        BY <1>2, <2>1, VerdictIs DEF None
  <2>6. Counted(x, starts[r])
        BY <1>2, <2>1, <2>3, <2>4, <2>5 DEF Counted, WithChild
  <2> QED BY <1>1, <1>2, <1>3, <2>1, <2>2, <2>3, <2>4, <2>6, InsideKeeps
<1> QED BY <1>4, <1>5, <1>6, <1>7

LEMMA AbortKeeps ==
    ASSUME WorkerInv, NEW r \in Runs, Abort(r)
    PROVE  Kept
<1> DEFINE x == [run[r] EXCEPT !.aborted = TRUE]
<1>1. RunOK(run[r], child[r], wrote[r], loose[r], starts[r]) /\ run[r].at # "ended"
      BY DEF WorkerInv, Abort
<1>2. IsRun(x) /\ SameRoutes(x, run[r]) /\ x.at = run[r].at /\ x.mutated = run[r].mutated
      /\ x.failure = run[r].failure
      BY <1>1 DEF IsRun, SameRoutes, RunOK
<1>3. Sets(r, x) /\ UNCHANGED <<child, loose, wrote, starts, line>>
      BY DEF Abort
<1> HIDE DEF x
<1>4. RunOK(x, child[r], wrote[r], loose[r], starts[r])
  <2>1. Counted(x, starts[r])
        BY <1>1, <1>2, StillCounted DEF RunOK, SamePart
  <2> QED BY <1>1, <1>2, <2>1 DEF RunOK, SameRoutes
<1> QED BY <1>2, <1>3, <1>4, RunMoves DEF SameRoutes

-------------------------------------------------------------------------------
(* The theorems                                                            *)

LEMMA InitHolds == ASSUME WorkerInit PROVE WorkerInv
<1>1. /\ \A r \in Runs : run[r] = NewRun /\ child[r] = NoChild /\ wrote[r] = FALSE /\ loose[r] = FALSE
      /\ \A r \in Runs : starts[r] = [x \in Routes |-> 0]
      BY DEF WorkerInit
<1>2. NewRun.at = "idle"
      BY DEF NewRun
<1>3. \A r \in Runs : RunOK(run[r], child[r], wrote[r], loose[r], starts[r])
  <2>1. \A r \in Runs : Counted(run[r], starts[r])
        BY <1>1, <1>2, NewRunIs, RoutingAssumption DEF Counted, WithChild
  <2> QED BY <1>1, <1>2, <2>1, NewRunIs DEF RunOK, Before
<1>4. \A r \in Writers : InLine(r, run[r].at, line[ProcOf[r]])
      BY <1>1, <1>2, WorkersKnown DEF InLine, Held
<1>5. line \in [Procs -> Seq(Runs)]
      BY DEF WorkerInit
<1> QED BY <1>1, <1>3, <1>4, <1>5 DEF WorkerInv, WorkerInit

LEMMA NextKeeps ==
    ASSUME WorkerInv, [WorkerNext]_allVars
    PROVE  Kept
<1>1. ASSUME NEW r \in Runs, OwnStep(r) PROVE Kept
      BY <1>1, StartKeeps, ChoiceKeeps, CreateKeeps, PromptKeeps, DetachKeeps, EndOfAttemptKeeps DEF OwnStep
<1>2. ASSUME UNCHANGED allVars \/ Others \/ \E x \in Routes, s \in PoolMoves : PoolMoveTo(x, s)
      PROVE  Kept
  <2>1. UNCHANGED <<run, child, wrote, loose, starts, line>>
        BY <1>2 DEF allVars, workerVars, Others, PoolMoveTo
  <2> QED BY <2>1, NothingMoves
<1> QED BY <1>1, <1>2, PromptKeeps, ChildKeeps, AbortKeeps DEF WorkerNext

LEMMA Invariant == WorkerSpec => []WorkerInv
<1>1. WorkerInit => WorkerInv
      BY InitHolds
<1>2. WorkerInv /\ [WorkerNext]_allVars => WorkerInv'
      BY NextKeeps DEF Kept
<1> QED BY <1>1, <1>2, PTL DEF WorkerSpec

\* The line for a directory lets one child of a run in that may change files, whoever is aborted, fails or
\* leaves a child behind that nobody observes (executor.ts:833).
THEOREM OneWriterInside == WorkerSpec => []OneWriter
<1>1. WorkerInv => OneWriter
  <2>1. SUFFICES ASSUME WorkerInv, NEW r \in Writers, NEW s \in Writers, ProcOf[r] = ProcOf[s],
                        child[r].live, child[s].live
                 PROVE  r = s
        BY DEF OneWriter
  <2>2. r \in Runs /\ s \in Runs
        BY WorkersKnown
  <2>3. Held(run[r].at) /\ Held(run[s].at)
        BY <2>1, <2>2 DEF WorkerInv, RunOK, WithChild, Held
  <2>4. InLine(r, run[r].at, line[ProcOf[r]]) /\ InLine(s, run[s].at, line[ProcOf[s]])
        BY <2>1 DEF WorkerInv
  <2>5. Head(line[ProcOf[r]]) = r /\ Head(line[ProcOf[s]]) = s
        BY <2>3, <2>4 DEF InLine
  <2> QED BY <2>1, <2>5
<1> QED BY <1>1, Invariant, PTL

\* A run never returns to a route it has left, so its attempts are bounded by the routes of the pool and the
\* retries on each (executor.ts:131).
THEOREM NoWayBack == WorkerSpec => NeverBack
<1>1. WorkerInv /\ [WorkerNext]_allVars =>
        [\A r \in Runs : LET x == run'[r].on IN
           x \notin {run[r].on, NoRoute} => starts[r][x] = 0]_allVars
      BY NextKeeps DEF Kept, Forward
<1> QED BY <1>1, Invariant, PTL DEF WorkerSpec, NeverBack

\* A run starts on a route at most maxAttempts times, whatever fails, whichever route comes between and whoever
\* changes the pool or the health file, though the count that limits it is of failures and is taken up again
\* after a choice that reads both afresh (nextAfterFailure, routing/index.ts:244; retrySelection, executor.ts:734).
THEOREM AttemptsBounded == WorkerSpec => [](\A r \in Runs, x \in Routes : starts[r][x] <= MaxAttempts)
<1>1. WorkerInv => \A r \in Runs, x \in Routes : starts[r][x] <= MaxAttempts
  <2>1. SUFFICES ASSUME WorkerInv, NEW r \in Runs, NEW x \in Routes
                 PROVE  starts[r][x] <= MaxAttempts
        OBVIOUS
  <2>2. starts[r][x] \in 0 .. MaxAttempts
        BY <2>1 DEF WorkerInv, RunOK, Counted
  <2> QED BY <2>2, RoutingAssumption
<1> QED BY <1>1, Invariant, PTL

\* Where an aborted child stops within the bounded wait, no child starts after another one of the run began
\* to change files (executor.ts:219).
THEOREM NoSecondMutation == ASSUME Obedient PROVE WorkerSpec => NoReplayAfterMutation
<1>1. WorkerInv /\ [WorkerNext]_allVars => [\A r \in Runs : starts'[r] # starts[r] => ~wrote[r]]_allVars
      BY NextKeeps DEF Kept, NoReplay
<1> QED BY <1>1, Invariant, PTL DEF WorkerSpec, NoReplayAfterMutation

\* Where an aborted child stops within the bounded wait, a run says truly whether files may have changed, and
\* is completed by an accepted submission only (executor.ts:218).
THEOREM TrueReport == ASSUME Obedient PROVE WorkerSpec => []ReportIsTrue
<1>1. WorkerInv => ReportIsTrue
  <2>1. SUFFICES ASSUME WorkerInv, NEW r \in Runs, At(r, "ended")
                 PROVE  /\ wrote[r] => run[r].status \in {"completed", "partial_mutation_requires_review"}
                        /\ run[r].status = "completed" => run[r].result /\ ~run[r].violation
        BY DEF ReportIsTrue
  <2>2. RunOK(run[r], child[r], wrote[r], loose[r], starts[r]) /\ run[r].at = "ended"
        BY <2>1 DEF WorkerInv, At
  <2> QED BY <2>2 DEF RunOK
<1> QED BY <1>1, Invariant, PTL
===============================================================================
