------------------------------- MODULE WorkerRun -------------------------------
(***************************************************************************)
(* SubagentExecutor.run (src/src/core/workers/executor.ts): a run selects a *)
(* route, has a child session work on it, and after a failure retries the   *)
(* route, falls back to another one or stops. Several runs of a process     *)
(* interleave at every await; runs of the implementation pool take turns in *)
(* the directory they share. The child session is the Pi SDK: it calls      *)
(* tools, submits and ends as it likes, within what the wrapper around its  *)
(* tools (session.ts, safety.ts, result-tool.ts) lets through.              *)
(***************************************************************************)
EXTENDS RouteHealth, Sequences

CONSTANTS
    Runs,        \* runs
    ProcOf,      \* ProcOf[r]: the process that executes r
    Writers,     \* runs of the implementation pool, whose children may change files
    Failures,    \* what provider failures may say: records [words, status, after]
    PoolMoves,   \* states the pool or the catalogue may move a route to meanwhile
    Submissions, \* what a child may submit: "good", "bad" or "oversize"
    MaxTools,    \* bound on the tool calls of a child
    Obedient     \* whether an aborted child stops within the bounded wait

ASSUME WorkersKnown ==
    /\ ProcOf \in [Runs -> Procs]
    /\ Writers \subseteq Runs
    /\ Obedient \in BOOLEAN

ASSUME FailuresKnown == \A f \in Failures : f.words \subseteq Words /\ f.status \in Nat /\ f.after \in Nat

VARIABLES
    run,     \* run[r]: the local variables of execute and executeAttempt
    child,   \* child[r]: the session of the attempt under way
    loose,   \* loose[r]: a child of r works on although nobody observes it any more
    wrote,   \* wrote[r]: some child of r has begun to change files (history)
    starts,  \* starts[r][x]: attempts of r on x so far (history)
    line,    \* line[p]: the chain of promises of withCwdLock, its holder first
    state    \* state[x]: what pool and catalogue say of route x

workerVars == <<run, child, loose, wrote, starts, line, state>>
allVars == <<healthVars, workerVars>>

None == "none"
Statuses == {"completed", "cancelled", "timed_out", "no_eligible_route", "infrastructure_stopped",
             "invalid_child_result", "partial_mutation_requires_review", "child_runtime_error"}
Outcomes == {"completed", "cancelled", "timed_out", "infrastructure_failure", "invalid_child_result",
             "protocol_violation", "child_runtime_error"}

\* The places of a run between two awaits.
Places == {"idle", "waiting", "choosing", "resolving", "creating", "working", "stopping", "finalizing",
           "closing", "praising", "blaming", "deciding", "ended"}

NewRun == [at |-> "idle", attempted |-> {}, failed |-> [x \in Routes |-> 0], current |-> NoRoute,
           on |-> NoRoute, aborted |-> FALSE, mutated |-> FALSE, outcome |-> None, failure |-> NoFailure,
           after |-> 0, result |-> FALSE, provider |-> FALSE, violation |-> FALSE, finalized |-> FALSE,
           status |-> None]

\* used, wrote: tools observed, and whether one of them counts as mutating. subs, captured: submissions, and whether
\* the first was kept ("good") or cannot be parsed ("bad"). broken: protocolViolation of the capture.
\* safety: a block that terminates the session.
NewChild == [live |-> TRUE, used |-> 0, wrote |-> FALSE, subs |-> 0, captured |-> None,
             broken |-> FALSE, safety |-> FALSE]
NoChild == [NewChild EXCEPT !.live = FALSE]

WorkerInit ==
    /\ HealthInit
    /\ run = [r \in Runs |-> NewRun]
    /\ child = [r \in Runs |-> NoChild]
    /\ loose = [r \in Runs |-> FALSE]
    /\ wrote = [r \in Runs |-> FALSE]
    /\ starts = [r \in Runs |-> [x \in Routes |-> 0]]
    /\ line = [p \in Procs |-> << >>]
    /\ state = [x \in Routes |-> "available"]

At(r, place) == run[r].at = place
Sets(r, rec) == run' = [run EXCEPT ![r] = rec]
Goes(r, place) == Sets(r, [run[r] EXCEPT !.at = place])

Ends_Keeps(r, status) ==
    /\ Sets(r, [NewRun EXCEPT !.at = "ended", !.status = status])
    /\ UNCHANGED line

\* resultBase: the run ends, and a run that holds the directory lets the next one in.
Ends(r, status) ==
    /\ Sets(r, [NewRun EXCEPT !.at = "ended", !.status = status, !.aborted = run[r].aborted,
                              !.result = run[r].result, !.violation = run[r].violation])
    /\ line' = IF r \in Writers /\ ~At(r, "idle")
               THEN [line EXCEPT ![ProcOf[r]] = Tail(@)] ELSE line

-------------------------------------------------------------------------------
(* The start of a run and the choice of a route *)

\* run: refused when already aborted; a writer joins the line for its directory.
Begin(r) ==
    /\ At(r, "idle")
    /\ IF run[r].aborted THEN Ends(r, "cancelled")
       ELSE IF r \in Writers
            THEN Goes(r, "waiting") /\ line' = [line EXCEPT ![ProcOf[r]] = Append(@, r)]
            ELSE Goes(r, "choosing") /\ UNCHANGED line
    /\ UNCHANGED <<healthVars, child, loose, wrote, starts, state>>

Enter_Early(r) ==
    /\ At(r, "waiting")
    /\ Goes(r, "choosing")
    /\ UNCHANGED <<healthVars, child, loose, wrote, starts, line, state>>

\* withCwdLock: the wait does not look at the abort signal.
Enter(r) ==
    /\ At(r, "waiting")
    /\ Head(line[ProcOf[r]]) = r
    /\ Goes(r, "choosing")
    /\ UNCHANGED <<healthVars, child, loose, wrote, starts, line, state>>

CancelledBetween(r) ==
    /\ At(r, "choosing")
    /\ run[r].aborted
    /\ Ends(r, "cancelled")
    /\ UNCHANGED <<healthVars, child, loose, wrote, starts, state>>

\* routingRequest reads configuration, pool and health; health.list waits for the queue.
CanChoose(r) ==
    /\ At(r, "choosing")
    /\ ~run[r].aborted
    /\ queue[ProcOf[r]] = Idle

Taken(r) == RetrySelection(state[run[r].current], Listed[run[r].current], now)
Offered(r) == SelectRoute(state, Listed, now, run[r].attempted)
\* After a failed retry the run falls back; without fallback it stops there.
MayFallBack(r) == run[r].current = NoRoute \/ FallbackEnabled

Retry(r) ==
    /\ CanChoose(r)
    /\ run[r].current # NoRoute
    /\ Taken(r)
    /\ Sets(r, [run[r] EXCEPT !.at = "resolving", !.on = run[r].current])
    /\ UNCHANGED <<healthVars, child, loose, wrote, starts, line, state>>

Select(r) ==
    /\ CanChoose(r)
    /\ run[r].current # NoRoute => ~Taken(r) /\ FallbackEnabled
    /\ \E x \in Offered(r) : Sets(r, [run[r] EXCEPT !.at = "resolving", !.on = x, !.current = NoRoute])
    /\ UNCHANGED <<healthVars, child, loose, wrote, starts, line, state>>

\* routingRequest or selectRoute throws: pool or configuration cannot be read.
RoutingFails(r) ==
    /\ At(r, "choosing")
    /\ ~run[r].aborted
    /\ Ends(r, "child_runtime_error")
    /\ UNCHANGED <<healthVars, child, loose, wrote, starts, state>>

NoEligibleRoute(r) ==
    /\ CanChoose(r)
    /\ run[r].current # NoRoute => ~Taken(r)
    /\ MayFallBack(r) => Offered(r) = {}
    /\ Ends(r, "no_eligible_route")
    /\ UNCHANGED <<healthVars, child, loose, wrote, starts, state>>

\* resolveExactRoute: the provider registry no longer has the route, or has another model for it.
ResolveFails(r) ==
    /\ At(r, "resolving")
    /\ Ends(r, IF run[r].aborted THEN "cancelled" ELSE "child_runtime_error")
    /\ UNCHANGED <<healthVars, child, loose, wrote, starts, state>>

Resolve(r) ==
    /\ At(r, "resolving")
    /\ Goes(r, "creating")
    /\ UNCHANGED <<healthVars, child, loose, wrote, starts, line, state>>

-------------------------------------------------------------------------------
(* The child session *)

\* sessionFactory.create and session.prompt. The local variables of executeAttempt start afresh.
StartChild(r) ==
    /\ At(r, "creating")
    /\ child' = [child EXCEPT ![r] = NewChild]
    /\ Sets(r, [run[r] EXCEPT !.at = "working", !.outcome = None, !.failure = NoFailure, !.after = 0,
                              !.mutated = FALSE, !.result = FALSE, !.provider = FALSE,
                              !.violation = FALSE, !.finalized = FALSE])
    /\ starts' = [starts EXCEPT ![r][run[r].on] = @ + 1]
    /\ UNCHANGED <<healthVars, loose, wrote, line, state>>

OutcomeOf(class) ==
    CASE class = "cancelled" -> "cancelled"
      [] class = "timeout" -> "timed_out"
      [] OTHER -> "infrastructure_failure"

\* The session cannot be created; there is no child to close. A WorkerError settles the run, any other error is
\* classified like one of the provider.
CreateFails(r) ==
    /\ At(r, "creating")
    /\ LET closed == [run[r] EXCEPT !.at = "praising", !.mutated = FALSE, !.result = FALSE, !.provider = FALSE,
                                    !.violation = FALSE, !.finalized = FALSE]
       IN  \/ Sets(r, [closed EXCEPT !.failure = NoFailure, !.after = 0,
                                     !.outcome = IF run[r].aborted THEN "cancelled" ELSE "child_runtime_error"])
           \/ /\ ~run[r].aborted
              /\ \E f \in Failures :
                     LET class == ClassOfError(f.words, f.status)
                     IN  Sets(r, [closed EXCEPT !.failure = class, !.after = f.after, !.outcome = OutcomeOf(class)])
    /\ child' = [child EXCEPT ![r] = NoChild]
    /\ starts' = [starts EXCEPT ![r][run[r].on] = @ + 1]
    /\ UNCHANGED <<healthVars, loose, wrote, line, state>>

Active(r) == child[r].live /\ run[r].at \in {"working", "stopping", "finalizing", "closing"}

\* tool_execution_start. While the result is finalised only the result tool is there; while the
\* session is being aborted a tool may still begin. A mutating call of a run that is no writer is
\* blocked (TOOL_NOT_ACTIVE), the session goes on, and the call is observed like one that changes files.
ChildTool(r, writes) ==
    /\ Active(r)
    /\ ~At(r, "finalizing")
    /\ child[r].used < MaxTools
    /\ child' = [child EXCEPT ![r].used = @ + 1, ![r].wrote = @ \/ writes]
    /\ wrote' = [wrote EXCEPT ![r] = @ \/ (writes /\ r \in Writers)]
    /\ Sets(r, [run[r] EXCEPT !.violation = @ \/ child[r].subs > 0])
    /\ UNCHANGED <<healthVars, loose, starts, line, state>>

\* The safety guard blocks a mutating call of a writer and terminates the session. The call is observed.
SafetyBlock(r) ==
    /\ Active(r)
    /\ At(r, "working")
    /\ r \in Writers
    /\ ~child[r].safety
    /\ child' = [child EXCEPT ![r].safety = TRUE, ![r].wrote = TRUE]
    /\ Sets(r, [run[r] EXCEPT !.violation = @ \/ child[r].subs > 0])
    /\ UNCHANGED <<healthVars, loose, wrote, starts, line, state>>

\* The result tool: the first submission is kept unless it is too large, a further one is a violation.
ChildSubmits(r, kind) ==
    /\ Active(r)
    /\ run[r].at \in {"working", "finalizing"}
    /\ child[r].subs < 2
    /\ child' = [child EXCEPT ![r].subs = @ + 1,
                              ![r].captured = IF child[r].subs = 0 /\ kind # "oversize" THEN kind ELSE @,
                              ![r].broken = @ \/ child[r].subs > 0 \/ kind = "oversize"]
    /\ UNCHANGED <<healthVars, run, loose, wrote, starts, line, state>>

Captured(r) == child[r].captured = "good"
\* Reading a capture that cannot be parsed marks the violation.
Broken(r) == child[r].broken \/ child[r].captured = "bad"

-------------------------------------------------------------------------------
(* The end of the work phase *)

Closes(r, rec) == Sets(r, [rec EXCEPT !.at = "closing"])
Settles(r) == UNCHANGED <<healthVars, child, loose, wrote, starts, line, state>>

\* control: the abort listener, or the time limit, wins the race against the prompt. A prompt that was
\* done just before the abort still counts as done, so the actions below do not ask for ~aborted.
PromptCancelled(r) ==
    /\ At(r, "working")
    /\ run[r].aborted
    /\ Closes(r, [run[r] EXCEPT !.outcome = "cancelled"])
    /\ Settles(r)

\* shouldRunResultFinalization after a time limit: there is something to report and nothing changed.
FinalizesLate(r) ==
    /\ ~Captured(r)
    /\ ~run[r].aborted
    /\ ~child[r].safety
    /\ child[r].used > 0
    /\ ~child[r].wrote

PromptTimesOut(r) ==
    /\ At(r, "working")
    /\ LET late == [run[r] EXCEPT !.outcome = "timed_out", !.failure = "timeout"]
       IN  IF FinalizesLate(r) THEN Sets(r, [late EXCEPT !.at = "stopping"]) ELSE Closes(r, late)
    /\ Settles(r)

\* session.abort() before the late finalisation has returned. It is awaited without a limit, and nothing else is
\* looked at meanwhile, the signal included.
Finalize(r) ==
    /\ At(r, "stopping")
    /\ Sets(r, [run[r] EXCEPT !.at = "finalizing", !.finalized = TRUE])
    /\ Settles(r)

\* The provider fails: the prompt throws, or the last message stopped with an error.
PromptFails(r, f, thrown) ==
    /\ At(r, "working")
    /\ LET class == IF thrown THEN ClassOfError(f.words, f.status) ELSE ClassOfText(f.words, f.status)
       IN  Closes(r, [run[r] EXCEPT !.failure = class, !.after = f.after, !.outcome = OutcomeOf(class)])
    /\ Settles(r)

\* The last message says that the session was aborted.
PromptAborts(r) ==
    /\ At(r, "working")
    /\ LET class == IF run[r].aborted THEN "cancelled" ELSE "timeout"
       IN  Closes(r, [run[r] EXCEPT !.failure = class, !.outcome = OutcomeOf(class)])
    /\ Settles(r)

\* The prompt is done. A child that submitted nothing is asked once more for its result.
PromptDone(r) ==
    /\ At(r, "working")
    /\ LET done == [run[r] EXCEPT !.provider = TRUE, !.result = Captured(r),
                                  !.violation = @ \/ Broken(r)]
       IN  CASE child[r].safety ->
                  Closes(r, [done EXCEPT !.outcome = IF Captured(r) THEN "completed" ELSE "invalid_child_result"])
             [] ~child[r].safety /\ ~Captured(r) /\ ~done.violation /\ ~run[r].aborted ->
                  Sets(r, [done EXCEPT !.at = "finalizing", !.finalized = TRUE])
             [] OTHER ->
                  Closes(r, [done EXCEPT !.outcome = IF done.violation THEN "protocol_violation"
                                                       ELSE IF Captured(r) THEN "completed"
                                                       ELSE "invalid_child_result"])
    /\ Settles(r)

(* The finalisation prompt. A run that timed out at work keeps that outcome unless it gets a result, *)
(* and looks at the abort signal once more.                                                          *)

FinalCounts(r) == At(r, "finalizing") /\ (run[r].aborted => run[r].provider)

FinalCancelled(r) ==
    /\ At(r, "finalizing")
    /\ run[r].aborted
    /\ Closes(r, [run[r] EXCEPT !.outcome = "cancelled",
                                !.failure = IF run[r].provider THEN @ ELSE "cancelled"])
    /\ Settles(r)

FinalFails(r, f) ==
    /\ FinalCounts(r)
    /\ LET class == ClassOfError(f.words, f.status)
       IN  Closes(r, IF run[r].provider
                     THEN [run[r] EXCEPT !.failure = class, !.after = f.after, !.outcome = OutcomeOf(class)]
                     ELSE run[r])
    /\ Settles(r)

\* (A mutant: only the finalisation after a finished prompt has a limit of its own.)
FinalTimesOut_Shared(r) ==
    /\ FinalCounts(r)
    /\ run[r].provider
    /\ Closes(r, [run[r] EXCEPT !.outcome = "timed_out", !.failure = "timeout"])
    /\ Settles(r)

FinalTimesOut(r) ==
    /\ FinalCounts(r)
    /\ Closes(r, [run[r] EXCEPT !.outcome = "timed_out", !.failure = "timeout"])
    /\ Settles(r)

FinalDone(r) ==
    /\ FinalCounts(r)
    /\ LET violated == Broken(r) /\ ~Captured(r)
           done == [run[r] EXCEPT !.result = Captured(r), !.violation = violated]
       IN  Closes(r, CASE Captured(r) ->
                            [done EXCEPT !.outcome = "completed", !.failure = NoFailure, !.provider = TRUE]
                       [] ~Captured(r) /\ run[r].provider ->
                            [done EXCEPT !.outcome = IF violated THEN "protocol_violation" ELSE "invalid_child_result"]
                       [] OTHER -> done)
    /\ Settles(r)

-------------------------------------------------------------------------------
(* The end of the attempt *)

\* An aborted session comes to rest.
ChildStops(r) ==
    /\ Active(r)
    /\ At(r, "closing")
    /\ child' = [child EXCEPT ![r].live = FALSE]
    /\ UNCHANGED <<healthVars, run, loose, wrote, starts, line, state>>

\* (A mutant: what the child did is read when the prompt fails, not after the bounded wait.)
Detach_Blind(r) ==
    /\ At(r, "closing")
    /\ child[r].live => ~Obedient
    /\ Sets(r, [run[r] EXCEPT !.at = "praising"])
    /\ loose' = [loose EXCEPT ![r] = @ \/ child[r].live]
    /\ child' = [child EXCEPT ![r] = NoChild]
    /\ UNCHANGED <<healthVars, wrote, starts, line, state>>

\* boundedAbort has waited long enough, or for the end; the listener is removed, the session disposed.
Detach(r) ==
    /\ At(r, "closing")
    /\ child[r].live => ~Obedient
    /\ Sets(r, [run[r] EXCEPT !.at = "praising", !.mutated = child[r].wrote])
    /\ loose' = [loose EXCEPT ![r] = @ \/ child[r].live]
    /\ child' = [child EXCEPT ![r] = NoChild]
    /\ UNCHANGED <<healthVars, wrote, starts, line, state>>

LooseWrites(r) ==
    /\ loose[r]
    /\ r \in Writers
    /\ wrote' = [wrote EXCEPT ![r] = TRUE]
    /\ UNCHANGED <<healthVars, run, child, loose, starts, line, state>>

\* isResultCapabilityEligible: the child was asked twice, changed nothing and gave no result.
CapabilityEligible(r) ==
    /\ run[r].outcome \in {"invalid_child_result", "protocol_violation"}
    /\ ~run[r].mutated
    /\ run[r].finalized
    /\ ~run[r].result

FailureOf(r) == IF CapabilityEligible(r) THEN "result_capability" ELSE run[r].failure

OneMore(count, x) == [count EXCEPT ![x] = @ + 1]

\* recordAttempt, then recordSuccess. The next place writes the failure, if it is the route's.
Praise(r) ==
    /\ At(r, "praising")
    /\ LET x == run[r].on
           failure == FailureOf(r)
       IN  /\ IF run[r].provider THEN HealthRead(ProcOf[r], SuccessOp(x)) /\ UNCHANGED moves
              ELSE UNCHANGED healthVars
           /\ Sets(r, [run[r] EXCEPT !.at = "blaming", !.current = x, !.attempted = @ \cup {x},
                                     !.failure = failure,
                                     !.failed = IF failure = NoFailure THEN @ ELSE OneMore(@, x)])
    /\ UNCHANGED <<child, loose, wrote, starts, line, state>>

\* recordFailure once the success is written.
Blame(r) ==
    /\ At(r, "blaming")
    /\ queue[ProcOf[r]] = Idle
    /\ IF IsInfrastructureHealthFailure(run[r].failure)
       THEN HealthRead(ProcOf[r], FailureOp(run[r].on, run[r].failure, run[r].after)) /\ UNCHANGED moves
       ELSE UNCHANGED healthVars
    /\ Goes(r, "deciding")
    /\ UNCHANGED <<child, loose, wrote, starts, line, state>>

Verdict_Replays(r) ==
    LET o == run[r].outcome IN
    FirstOf(<< <<o = "cancelled", IF run[r].mutated THEN "partial_mutation_requires_review" ELSE "cancelled">>,
               <<o = "completed" /\ run[r].result /\ ~run[r].violation, "completed">>,
               <<o \in {"invalid_child_result", "protocol_violation"} /\ ~CapabilityEligible(r), "invalid_child_result">>,
               <<o = "child_runtime_error", "child_runtime_error">>,
               <<run[r].failure = NoFailure, "infrastructure_stopped">>,
               <<TRUE, None>> >>)

\* Whether the attempt settles the run, and as what; None when retry and fallback are considered.
Verdict(r) ==
    LET o == run[r].outcome IN
    FirstOf(<< <<o = "cancelled", IF run[r].mutated THEN "partial_mutation_requires_review" ELSE "cancelled">>,
               <<o = "timed_out" /\ run[r].mutated, "partial_mutation_requires_review">>,
               <<o = "completed" /\ run[r].result /\ ~run[r].violation, "completed">>,
               <<o \in {"invalid_child_result", "protocol_violation"}
                   /\ (run[r].mutated \/ ~CapabilityEligible(r)),
                 IF run[r].mutated THEN "partial_mutation_requires_review" ELSE "invalid_child_result">>,
               <<run[r].mutated, "partial_mutation_requires_review">>,
               <<o = "child_runtime_error", "child_runtime_error">>,
               <<run[r].failure = NoFailure, "infrastructure_stopped">>,
               <<TRUE, None>> >>)

Action(r) == NextAfterFailure(run[r].failure, run[r].failed[run[r].on])

StopStatus(r) ==
    CASE run[r].failure = "result_capability" -> "invalid_child_result"
      [] run[r].outcome = "timed_out" -> "timed_out"
      [] OTHER -> "infrastructure_stopped"

CanDecide(r) == At(r, "deciding") /\ queue[ProcOf[r]] = Idle

Decide(r) ==
    /\ CanDecide(r)
    /\ Verdict(r) # None \/ Action(r) = "STOP"
    /\ Ends(r, IF Verdict(r) # None THEN Verdict(r) ELSE StopStatus(r))
    /\ UNCHANGED <<healthVars, child, loose, wrote, starts, state>>

GoOn(r) ==
    /\ CanDecide(r)
    /\ Verdict(r) = None
    /\ Action(r) # "STOP"
    /\ Sets(r, [run[r] EXCEPT !.at = "choosing",
                              !.current = IF Action(r) = "RETRY_SAME_ROUTE" THEN @ ELSE NoRoute])
    /\ UNCHANGED <<healthVars, child, loose, wrote, starts, line, state>>

-------------------------------------------------------------------------------
(* The surroundings *)

Abort(r) ==
    /\ run[r].at # "ended"
    /\ ~run[r].aborted
    /\ Sets(r, [run[r] EXCEPT !.aborted = TRUE])
    /\ UNCHANGED <<healthVars, child, loose, wrote, starts, line, state>>

PoolMoveTo(x, s) ==
    /\ Moves
    /\ state[x] # s
    /\ state' = [state EXCEPT ![x] = s]
    /\ UNCHANGED <<health, queue, now, run, child, loose, wrote, starts, line>>

HealthSteps ==
    \/ \E p \in Procs : HealthWrite(p)
    \/ Tick
    \/ DamageHealth
Others ==
    /\ \/ HealthSteps
       \/ \E p \in Procs, x \in Routes : Reset(p, x) \/ BeginProbe(p, x)
    /\ UNCHANGED workerVars

ChildStep(r) ==
    \/ \E writes \in BOOLEAN : ChildTool(r, writes)
    \/ SafetyBlock(r)
    \/ \E kind \in Submissions : ChildSubmits(r, kind)
    \/ ChildStops(r)
    \/ LooseWrites(r)

PromptStep(r) ==
    \/ PromptCancelled(r) \/ PromptTimesOut(r) \/ PromptAborts(r) \/ PromptDone(r) \/ Finalize(r)
    \/ \E f \in Failures, thrown \in BOOLEAN : PromptFails(r, f, thrown)
    \/ FinalCancelled(r) \/ FinalTimesOut(r) \/ FinalDone(r)
    \/ \E f \in Failures : FinalFails(r, f)

\* What the executor itself does when it is its turn.
OwnStep(r) ==
    \/ Begin(r) \/ Enter(r)
    \/ CancelledBetween(r) \/ Retry(r) \/ Select(r) \/ NoEligibleRoute(r) \/ RoutingFails(r)
    \/ Resolve(r) \/ ResolveFails(r) \/ StartChild(r) \/ CreateFails(r)
    \/ Detach(r) \/ Praise(r) \/ Blame(r) \/ Decide(r) \/ GoOn(r)

WorkerNext ==
    \/ \E r \in Runs : OwnStep(r) \/ PromptStep(r) \/ ChildStep(r) \/ Abort(r)
    \/ \E x \in Routes, s \in PoolMoves : PoolMoveTo(x, s)
    \/ Others

WorkerSpec == WorkerInit /\ [][WorkerNext]_allVars

\* Fairness. The promise queue of a process serves its operations in order, so a step of the
\* executor that waits for it is not overtaken for ever (SF). The time limit of a prompt and the
\* bounded wait for an aborted session are timers; resolving a route and creating a session are calls
\* into Pi that are taken to return. That session.abort() returns is no part of it.
WorkerFairness ==
    /\ \A r \in Runs : /\ SF_allVars(OwnStep(r))
                      /\ WF_allVars(PromptCancelled(r) \/ PromptTimesOut(r))
                      /\ WF_allVars(FinalCancelled(r) \/ FinalTimesOut(r))
    /\ \A p \in Procs : WF_allVars(HealthWrite(p) /\ UNCHANGED workerVars)

FairWorkerSpec == WorkerSpec /\ WorkerFairness

-------------------------------------------------------------------------------
(* Properties *)

\* "Infrastructure fallback stops at a mutation": a run never starts another child once any child of
\* it has begun a tool that may change files, whichever of abort, time limit, error and late tool
\* event came first (executor.ts:219-272).
NoReplayAfterMutation == [][\A r \in Runs : starts'[r] # starts[r] => ~wrote[r]]_allVars

\* What is reported lets the caller decide about a second try: a run that changed files reports either
\* its accepted result or a partial mutation, and a run reported as completed has one accepted
\* submission and no violation (resultBase of executor.ts).
ReportIsTrue ==
    \A r \in Runs : At(r, "ended") =>
        /\ wrote[r] => run[r].status \in {"completed", "partial_mutation_requires_review"}
        /\ run[r].status = "completed" => run[r].result /\ ~run[r].violation

\* Of the runs of a process that may change files in a directory at most one has a child it observes,
\* whoever is aborted while it waits or works (withCwdLock, executor.ts:833).
OneWriter ==
    \A r, s \in Writers : ProcOf[r] = ProcOf[s] /\ child[r].live /\ child[s].live => r = s

\* The loop of execute ends although the pool, health and the routes change under it, because a run
\* never returns to a route it has left: switching to another route, it has not started on it before.
NeverBack ==
    [][\A r \in Runs : LET x == run'[r].on IN
         x \notin {run[r].on, NoRoute} => starts[r][x] = 0]_allVars

\* session.abort() returns before a late finalisation (executor.ts:401), and an aborted session comes to rest.
AbortsReturn == \A r \in Runs : WF_allVars(Finalize(r)) /\ WF_allVars(ChildStops(r))

\* Where aborts return, every run ends, whatever pool, health, routes and other runs do: the time limits, the bound
\* on retries, the routes left behind and the line for the directory leave nothing to go round or wait for.
RunsEnd == AbortsReturn => \A r \in Runs : ~At(r, "idle") ~> At(r, "ended")

\* "The bounded wait prevents a broken child implementation from holding the route lock forever"
\* (executor.ts:499): a run that waits for the directory gets its turn.
LineMoves == \A r \in Writers : At(r, "waiting") ~> ~At(r, "waiting")
===============================================================================
