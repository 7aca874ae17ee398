------------------------------- MODULE BossLoop -------------------------------
(***************************************************************************)
(* The goal loop of one mission (runMissionGoalLoop of mission/boss.ts)    *)
(* with the recovery after a mutation that its dispatch runs               *)
(* (recovery/orchestrate.ts), the state it keeps in the mission's plan, and*)
(* what the other processes on the same database may do meanwhile.         *)
(*                                                                         *)
(* MissionHost says what the loop does to attempts, reviews and hosts, and *)
(* leaves out how often it goes round; this module is about the rounds: the*)
(* cycle and its budget, the Boss route and its fallbacks, the count of    *)
(* repeated rejections, and what of it survives a crash.  A step ends where*)
(* the loop awaits or writes; writes with nothing awaited between them are *)
(* one step, except those on which a crash leaves a different mission.     *)
(***************************************************************************)
EXTENDS MissionEvidence, BossResponse, QualityGate, TaskPacket

CONSTANTS
    Entries,        \* enabled Boss routes, in the order of the profile
    Weighted,       \* those with a weight, which a new mission may be pinned to
    NoRoute,        \* no Boss route assigned
    MaxCycles,      \* options.maxCycles
    MaxTasks,       \* options.maxTasksPerCycle
    Objectives,     \* wordings a plan may give the objective of a task
    Fixes,          \* what a reviewer may demand, as a fingerprint tells it
    Errors,         \* wordings of a protocol error
    NoText,         \* no fingerprint, no protocol error
    Contents,       \* contents of the messages a Boss may answer with
    Submissions,    \* what a reviewer may submit
    PacketInputs,   \* what the packet of a task may have to hold
    MaxMoves        \* bound: crashes, and moves of other processes

ASSUME CycleBounds == MaxCycles \in 1..16 /\ MaxTasks \in 1..32
ASSUME EntriesOrdered == Entries \in Seq(Range(Entries))
ASSUME RoutesKnown == Weighted \subseteq Range(Entries) /\ NoRoute \notin Range(Entries)
ASSUME MoveBound   == MaxMoves \in Nat
ASSUME BlocksKnown == Contents \subseteq Seq(Blocks)
ASSUME SubmissionsKnown == \A s \in Submissions : IsSubmission(s)

VARIABLES
    mission,        \* missions.status
    orch,           \* plan.orchestration, the persisted BossMissionState
    task,           \* each task: status, quality, latest decision, end of the last run
    loop,           \* each loop: where it is, and its own copy of the state
    continued,      \* how often the partial work of each task was gone on with
    moves           \* crashes and moves of other processes so far

bossVars == <<mission, orch, task, loop, continued, moves>>
allVars == <<evidence, revisionVars, bossVars>>

-------------------------------------------------------------------------------
Routes == Range(Entries)
Terminal == {"COMPLETED", "BLOCKED", "AWAITING_USER", "CANCELLED", "SAFETY_STOP", "INTERRUPTED"}
MissionState == {"planned", "paused", "running", "awaiting-review", "completed", "cancelled", "blocked"}
\* The loop returns at once for a mission in one of these.
Ended == {"completed", "cancelled", "blocked", "awaiting-review"}

\* The fallback history is only searched, so it is a set.
DefaultState == [cycle |-> 0, on |-> NoRoute, history |-> {}, err |-> NoText,
                 fp |-> NoText, count |-> 0, terminal |-> "none"]
NoLoop == [pc |-> "idle", st |-> DefaultState, cycle |-> 0, repeated |-> 0, left |-> 0,
           task |-> NoText, words |-> NoText, item |-> 0]
\* run and review: the loop whose attempt at, or verification of, the task is under way.
NoTask == [status |-> "absent", quality |-> "unverified", decision |-> NoText, end |-> NoText,
           run |-> NoText, review |-> NoText]

At(l, pc) == loop[l].pc = pc
St(l) == loop[l].st
Goto(l, pc) == loop' = [loop EXCEPT ![l].pc = pc]
Stop(l) == loop' = [loop EXCEPT ![l] = NoLoop]

-------------------------------------------------------------------------------
(* Writing the state.                                                      *)

\* persistState, then on at `pc`: updateMission refuses a stale revision, and the
\* error ends the loop with a notice.
Save(l, s, pc) ==
    IF l \in fresh
      THEN /\ orch' = s
           /\ NewRevision({l}, evidence)
           /\ loop' = [loop EXCEPT ![l].st = s, ![l].pc = pc]
      ELSE /\ Stop(l)
           /\ UNCHANGED <<orch, evidence, revisionVars>>

\* terminal(): the state first, then the status of the mission.
Close(l, s, end) == Save(l, [s EXCEPT !.terminal = end], "closing")
Cancel(l) == Close(l, St(l), "CANCELLED")

MissionStatusFor(end) ==
    CASE end = "COMPLETED" -> "completed"
      [] end = "CANCELLED" -> "cancelled"
      [] end \in {"AWAITING_USER", "INTERRUPTED"} -> "awaiting-review"
      [] OTHER -> "blocked"

\* completedAndVerified, qualityPrecludesComplete and assertMissionCompletable.
ActiveTasks == {t \in Tasks : task[t].status \notin {"absent", "cancelled"}}
CompletedAndVerified ==
    /\ ActiveTasks # {}
    /\ \A t \in ActiveTasks : task[t].status = "execution_completed" /\ task[t].quality = "passed"

SetStatus(l, status) == mission' = status /\ NewRevision({l}, evidence)

CanTransition(from, to) ==
    to \in CASE from = "planned" -> {"running", "blocked", "cancelled"}
             [] from = "paused" -> {"running", "blocked", "cancelled"}
             [] from = "running" -> {"paused", "awaiting-review", "blocked", "cancelled"}
             [] from = "awaiting-review" -> {"running", "completed", "blocked", "cancelled"}
             [] from = "blocked" -> {"running", "cancelled"}
             [] OTHER -> {}

\* running goes to completed by way of awaiting-review; a refused transition throws.
FinishClose(l) ==
    LET target == MissionStatusFor(St(l).terminal)
    IN  /\ At(l, "closing")
        /\ CASE l \in fresh /\ target = "completed" /\ mission = "running" ->
                  SetStatus(l, "awaiting-review") /\ UNCHANGED loop
             [] /\ l \in fresh /\ CanTransition(mission, target)
                /\ ~(target = "completed" /\ (mission = "running" \/ ~CompletedAndVerified)) ->
                  SetStatus(l, target) /\ Stop(l)
             [] OTHER -> Stop(l) /\ UNCHANGED <<mission, evidence, revisionVars>>
        /\ UNCHANGED <<orch, task, continued, moves>>

-------------------------------------------------------------------------------
(* The start of a loop, its cycles and its Boss.                           *)

\* The state is read once: from here on the loop works on its own copy.
Begin(l) ==
    /\ At(l, "idle")
    /\ mission \notin Ended
    /\ loop' = [loop EXCEPT ![l] = [NoLoop EXCEPT !.pc = "assigning", !.st = orch, !.cycle = orch.cycle]]
    /\ IF mission = "running"
         THEN fresh' = fresh \cup {l} /\ UNCHANGED <<mission, evidence, begun>>
         ELSE SetStatus(l, "running")
    /\ UNCHANGED <<orch, task, continued, moves>>

\* selectBossEntry draws by weight from a hash, so any weighted route may be drawn.
\* The goal may ask for what no worker may do (capability preflight).
Assign(l) ==
    /\ At(l, "assigning")
    /\ \/ St(l).on = NoRoute /\ Weighted = {} /\ Close(l, St(l), "BLOCKED")
       \/ (St(l).on # NoRoute \/ Weighted # {}) /\ Close(l, St(l), "AWAITING_USER")
       \/ \E x \in Weighted : St(l).on = NoRoute /\ Save(l, [St(l) EXCEPT !.on = x], "cycling")
       \/ St(l).on # NoRoute /\ Goto(l, "cycling") /\ UNCHANGED <<orch, evidence, revisionVars>>
       \/ Cancel(l)
    /\ UNCHANGED <<mission, task, continued, moves>>

StartCycle(l) ==
    /\ At(l, "cycling")
    /\ \/ loop[l].cycle < MaxCycles /\ Save(l, [St(l) EXCEPT !.cycle = loop[l].cycle], "planning")
       \/ loop[l].cycle >= MaxCycles /\ Close(l, St(l), "AWAITING_USER")
       \/ Cancel(l)
    /\ UNCHANGED <<mission, task, continued, moves>>

Asking(l) == At(l, "planning") \/ At(l, "evaluating")

\* selectBossFallbackEntry: the first entry that was neither left nor tried.
FailedRoutes(s) == {h.from : h \in s.history} \cup {h.to : h \in s.history}
Fallbacks_Forgetful(s) == {i \in DOMAIN Entries : Entries[i] # s.on}
Fallbacks(s) == {i \in DOMAIN Entries : Entries[i] # s.on /\ Entries[i] \notin FailedRoutes(s)}
SelectBossFallbackEntry(s) == Entries[CHOOSE i \in Fallbacks(s) : \A k \in Fallbacks(s) : i <= k]

InfrastructureFails_Unrecorded(l) ==
    /\ Asking(l)
    /\ IF Fallbacks(St(l)) = {}
         THEN Close(l, St(l), "BLOCKED")
         ELSE Save(l, [St(l) EXCEPT !.on = SelectBossFallbackEntry(St(l))], loop[l].pc)
    /\ UNCHANGED <<mission, task, continued, moves>>
InfrastructureFails(l) ==
    /\ Asking(l)
    /\ IF Fallbacks(St(l)) = {}
         THEN Close(l, St(l), "BLOCKED")
         ELSE LET x == SelectBossFallbackEntry(St(l))
              IN  Save(l, [St(l) EXCEPT !.on = x, !.history = @ \cup {[from |-> St(l).on, to |-> x]}],
                       loop[l].pc)
    /\ UNCHANGED <<mission, task, continued, moves>>

\* recordProtocolFailure counts the same error again and again; a failed plan that
\* was repeated, or any failure of the last cycle, gives the mission to the user.
RepeatedError(l, e) == IF St(l).err = e THEN loop[l].repeated + 1 ELSE 1
LastCycle(l) == loop[l].cycle + 1 >= MaxCycles
TooOften(n) == n >= MaxCycles \/ n >= 4

ProtocolFails(l, e) ==
    LET s == [St(l) EXCEPT !.err = e]
    IN  /\ Asking(l)
        /\ IF LastCycle(l) \/ (At(l, "planning") /\ TooOften(RepeatedError(l, e)))
             THEN Close(l, s, "AWAITING_USER")
             ELSE IF l \in fresh
               THEN /\ orch' = s
                    /\ NewRevision({l}, evidence)
                    /\ loop' = [loop EXCEPT ![l].st = s, ![l].pc = "cycling", ![l].cycle = @ + 1,
                                            ![l].repeated = RepeatedError(l, e)]
               ELSE Stop(l) /\ UNCHANGED <<orch, evidence, revisionVars>>
        /\ UNCHANGED <<mission, task, continued, moves>>

\* An abort of the user, or a safety error, while the Boss answers.
BossAborts(l, answer) ==
    /\ Asking(l)
    /\ Close(l, St(l), IF answer = "cancelled" THEN "CANCELLED" ELSE "SAFETY_STOP")
    /\ UNCHANGED <<mission, task, continued, moves>>

\* A decision of the Boss.  "complete" holds only where the Boss finds the criteria satisfied, and for
\* verified work; otherwise the tasks of the plan follow, or the next cycle, which is persisted.
Accepted(action, satisfied) == action = "complete" /\ satisfied /\ CompletedAndVerified
EndFor(action) ==
    CASE action = "blocked" -> "BLOCKED"
      [] action = "awaiting_user" -> "AWAITING_USER"
      [] OTHER -> "COMPLETED"

PlanDecided(l, action, satisfied) ==
    /\ At(l, "planning")
    /\ IF action \in {"blocked", "awaiting_user"} \/ Accepted(action, satisfied)
         THEN Close(l, St(l), EndFor(action))
         ELSE IF l \in fresh
           THEN /\ orch' = St(l)
                /\ NewRevision({l}, evidence)
                /\ loop' = [loop EXCEPT ![l].pc = "choosing", ![l].left = MaxTasks]
           ELSE Stop(l) /\ UNCHANGED <<orch, evidence, revisionVars>>
    /\ UNCHANGED <<mission, task, continued, moves>>

EvaluationDecided(l, action, satisfied) ==
    LET s == [St(l) EXCEPT !.cycle = loop[l].cycle + 1]
    IN  /\ At(l, "evaluating")
        /\ IF action \in {"blocked", "awaiting_user"} \/ Accepted(action, satisfied)
             THEN Close(l, St(l), EndFor(action))
             ELSE IF LastCycle(l)
               THEN Close(l, s, "AWAITING_USER")
               ELSE IF l \in fresh
                 THEN /\ orch' = s
                      /\ NewRevision({l}, evidence)
                      /\ loop' = [loop EXCEPT ![l].st = s, ![l].pc = "cycling", ![l].cycle = @ + 1]
                 ELSE Stop(l) /\ UNCHANGED <<orch, evidence, revisionVars>>
        /\ UNCHANGED <<mission, task, continued, moves>>

-------------------------------------------------------------------------------
(* The tasks of a plan: choice, dispatch and recovery.                     *)

\* rejectionFingerprintFor: the latest decision, unless it is a pass; else the end
\* of a run that did not succeed.  w is the objective as the plan words it.
Fingerprint(t, w) ==
    CASE task[t].decision \in Fixes -> <<t, task[t].decision, LastKind(t), w>>
      [] task[t].decision \notin Fixes /\ task[t].end \notin {NoText, "succeeded"} -> <<t, task[t].end>>
      [] OTHER -> NoText
\* incompleteRepeatThreshold
Threshold(t) == IF task[t].end = "no_eligible_route" THEN 1 ELSE 2

NextTask(l) == [loop[l] EXCEPT !.pc = "choosing", !.task = NoText, !.words = NoText, !.item = 0]
Chosen(l, t, w, pc) == [loop[l] EXCEPT !.pc = pc, !.left = @ - 1, !.task = t, !.words = w]

Verified(t) == task[t].status = "execution_completed" /\ task[t].quality = "passed"
Runnable(t) == task[t].status \in {"absent", "planned", "interrupted", "execution_completed"}
PlannedAgain(l, t, w) ==
    LET fp == Fingerprint(t, w)
    IN  fp # NoText /\ St(l).fp = fp /\ St(l).count >= Threshold(t)

\* createAttempt, on a task created or reused: the run begins under this revision.
StartRun(l, t) ==
    /\ task' = [task EXCEPT ![t].status = "running", ![t].quality = "unverified", ![t].run = l]
    /\ begun' = begun \cup {l}

PacketFits == {BuildPacket(input) # TooLarge : input \in PacketInputs}

\* The next task of the plan, as a wording w of its objective. A blocked or running
\* task cannot be run, nor one whose packet cannot be built: a failed outcome.
ChooseTask(l, t, w) ==
    /\ At(l, "choosing") /\ loop[l].left > 0
    /\ task[t].status # "cancelled"
    /\ CASE Verified(t) ->
              /\ loop' = [loop EXCEPT ![l].left = @ - 1]
              /\ UNCHANGED <<orch, evidence, revisionVars, task>>
         [] ~Verified(t) /\ PlannedAgain(l, t, w) ->
              Close(l, St(l), "AWAITING_USER") /\ UNCHANGED task
         [] ~Verified(t) /\ ~PlannedAgain(l, t, w) /\ Runnable(t) ->
              \/ /\ TRUE \in PacketFits
                 /\ StartRun(l, t)
                 /\ loop' = [loop EXCEPT ![l] = Chosen(l, t, w, "working")]
                 /\ UNCHANGED <<orch, evidence, fresh>>
              \/ /\ FALSE \in PacketFits
                 /\ task' = [task EXCEPT ![t].status = IF @ = "absent" THEN "planned" ELSE @]
                 /\ loop' = [loop EXCEPT ![l] = Chosen(l, t, w, "judging")]
                 /\ UNCHANGED <<orch, evidence, revisionVars>>
         [] OTHER ->
              /\ loop' = [loop EXCEPT ![l] = Chosen(l, t, w, "judging")]
              /\ UNCHANGED <<orch, evidence, revisionVars, task>>
    /\ UNCHANGED <<mission, continued, moves>>

EndTasks(l) ==
    /\ At(l, "choosing")
    /\ loop' = [loop EXCEPT ![l].pc = "evaluating", ![l].left = 0]
    /\ UNCHANGED <<evidence, revisionVars, mission, orch, task, continued, moves>>

\* An abort, or a task the safety policy refuses, before the next task.
DispatchAborts(l) ==
    /\ \/ (At(l, "choosing") \/ At(l, "stopping")) /\ Cancel(l)
       \/ (At(l, "choosing") \/ At(l, "unsafe")) /\ Close(l, St(l), "SAFETY_STOP")
    /\ UNCHANGED <<mission, task, continued, moves>>

\* How a child's run may end, and what becomes of the task (finishAttempt, finishTask).
RunEnds == {"completed", "reports_blocked", "failed", "no_eligible_route", "timed_out",
            "partial", "cancelled", "executor_error"}
Reports == {"completed", "reports_blocked"}
\* NoText stands for a field that is not there, so it is neither a process nor an end.
ASSUME NoTextIsNone == NoText \notin Loops \cup RunEnds \cup {"succeeded", "recovered_interrupted"}
StatusAfter_Forgets(how) ==
    CASE how = "completed" -> "execution_completed"
      [] how = "timed_out" -> "interrupted"
      [] how = "partial" -> "running"
      [] how = "cancelled" -> "cancelled"
      [] OTHER -> "blocked"
StatusAfter(how) ==
    CASE how = "completed" -> "execution_completed"
      [] how \in {"timed_out", "partial"} -> "interrupted"
      [] how = "cancelled" -> "cancelled"
      [] OTHER -> "blocked"

\* Partial work in the worktree is assessed once per task, if it is of the kind that
\* may be; the child that goes on with it is not followed by another assessment.
MAX_AUTONOMOUS_RECOVERY_SEQUENCES_PER_TASK == 1
AfterRun(l, how) ==
    CASE how = "completed" -> {"verifying"}
      [] how = "cancelled" -> {"stopping"}
      [] how = "executor_error" -> {"judging", "unsafe"}
      [] /\ how = "partial" /\ At(l, "working")
         /\ Assessments(loop[l].task) < MAX_AUTONOMOUS_RECOVERY_SEQUENCES_PER_TASK -> {"assessing", "judging"}
      [] OTHER -> {"judging"}

Working(l) == At(l, "working") \/ At(l, "continuing")

\* A report is admitted as evidence under the revision the run began with, and a
\* continuation leaves a note of itself.
WorkerEnds(l, how) ==
    LET t == loop[l].task
        reported == IF how \in Reports
                      THEN Admitted(evidence, t, "implementation-result", SourceOf(l)) ELSE evidence
    IN  /\ Working(l) /\ task[t].run = l
        /\ task' = [task EXCEPT ![t].status = StatusAfter(how), ![t].run = NoText,
                                ![t].end = IF how \in Reports THEN "succeeded" ELSE how]
        /\ evidence' = IF At(l, "continuing") /\ how # "executor_error"
                        THEN Admitted(reported, t, "other", "none")
                        ELSE reported
        /\ begun' = begun \ {l}
        /\ \E pc \in AfterRun(l, how) : Goto(l, pc)
        /\ UNCHANGED <<fresh, mission, orch, continued, moves>>

\* The attempt was ended by another process's recovery: finishAttempt throws.
WorkerIsLate(l) ==
    /\ Working(l) /\ task[loop[l].task].run # l
    /\ begun' = begun \ {l}
    /\ Goto(l, "judging")
    /\ UNCHANGED <<evidence, fresh, mission, orch, task, continued, moves>>

\* recoverAfterMutation: whatever the assessor answers, or when it answers nothing,
\* an assessment is admitted; only recoverable work is gone on with.
Assess_Unrecorded(l) ==
    /\ At(l, "assessing")
    /\ \/ Goto(l, "deciding") /\ UNCHANGED evidence
       \/ Goto(l, "judging") /\ evidence' = Admitted(evidence, loop[l].task, "recovery-assessment", "none")
    /\ UNCHANGED <<revisionVars, mission, orch, task, continued, moves>>
Assess(l) ==
    /\ At(l, "assessing")
    /\ evidence' = Admitted(evidence, loop[l].task, "recovery-assessment", "none")
    /\ \E pc \in {"deciding", "judging", "stopping"} : Goto(l, pc)
    /\ UNCHANGED <<revisionVars, mission, orch, task, continued, moves>>

Decide(l) ==
    LET t == loop[l].task
    IN  /\ At(l, "deciding")
        /\ \/ /\ Runnable(t)
              /\ StartRun(l, t)
              /\ continued' = [continued EXCEPT ![t] = @ + 1]
              /\ Goto(l, "continuing")
           \/ /\ Goto(l, "judging") \/ Goto(l, "stopping")
              /\ UNCHANGED <<begun, task, continued>>
        /\ UNCHANGED <<evidence, fresh, mission, orch, moves>>

-------------------------------------------------------------------------------
(* Verification, and what the loop makes of the verdict.                   *)

\* startVerification refuses a task under review, which is a verdict of its own.
OpenReview(l) ==
    LET t == loop[l].task
    IN  /\ At(l, "verifying")
        /\ IF task[t].review = NoText
             THEN /\ task' = [task EXCEPT ![t].review = l, ![t].quality = "verification_running"]
                  /\ Goto(l, "reviewing")
             ELSE /\ loop' = [loop EXCEPT ![l] = NextTask(l)]
                  /\ UNCHANGED task
        /\ UNCHANGED <<evidence, revisionVars, mission, orch, continued, moves>>

ReviewEnded(t, quality, decision) ==
    [task EXCEPT ![t].review = NoText, ![t].quality = quality, ![t].decision = decision]

ReviewerPasses(l) ==
    LET t == loop[l].task
    IN  /\ At(l, "reviewing") /\ task[t].review = l
        /\ task' = ReviewEnded(t, "passed", "pass")
        /\ loop' = [loop EXCEPT ![l].pc = "promoting", ![l].item = 1]
        /\ UNCHANGED <<evidence, revisionVars, mission, orch, continued, moves>>

ReviewerRejects(l, fix, verdict) ==
    LET t == loop[l].task
    IN  /\ At(l, "reviewing") /\ task[t].review = l
        /\ task' = ReviewEnded(t, IF verdict = "reject" THEN "rejected" ELSE "blocked", fix)
        /\ Goto(l, "judging")
        /\ UNCHANGED <<evidence, revisionVars, mission, orch, continued, moves>>

\* A reviewer that does not complete, or whose submission is invalid, leaves the latest
\* decision as it was; one whose verification another process ended leaves everything.
ReviewerFails(l) ==
    LET t == loop[l].task
    IN  /\ At(l, "reviewing")
        /\ IF task[t].review = l
             THEN \E quality \in {"blocked", "review_required"} :
                    task' = ReviewEnded(t, quality, task[t].decision)
             ELSE UNCHANGED task
        /\ Goto(l, "judging")
        /\ UNCHANGED <<evidence, revisionVars, mission, orch, continued, moves>>

\* An abort is recorded by the verification, or leaves it running.
ReviewerAborts(l) ==
    LET t == loop[l].task
    IN  /\ At(l, "reviewing")
        /\ \/ task[t].review = l /\ task' = ReviewEnded(t, "review_required", task[t].decision)
           \/ UNCHANGED task
        /\ Goto(l, "stopping")
        /\ UNCHANGED <<evidence, revisionVars, mission, orch, continued, moves>>

\* On a pass the task's proposed evidence is promoted item by item, then the mission
\* is read again, but not the state the loop keeps of it.
Promote(l) ==
    LET t == loop[l].task
        todo == {i \in Proposed(t) : i >= loop[l].item}
        next == CHOOSE i \in todo : \A k \in todo : i <= k
    IN  /\ At(l, "promoting")
        /\ IF todo = {}
             THEN /\ loop' = [loop EXCEPT ![l] = NextTask(l)]
                  /\ fresh' = fresh \cup {l}
                  /\ UNCHANGED <<evidence, begun>>
             ELSE /\ PromoteEvidence(t, next)
                  /\ loop' = [loop EXCEPT ![l].item = next + 1]
        /\ UNCHANGED <<mission, orch, task, continued, moves>>

\* Any other verdict counts if it repeats the last rejection; the user gets a mission
\* that is rejected too often.  A stale write here is taken for one more verdict.
Judge(l) ==
    LET t == loop[l].task
        fp == Fingerprint(t, loop[l].words)
        n == IF St(l).fp = fp THEN St(l).count + 1 ELSE 1
        s == IF fp = NoText THEN St(l) ELSE [St(l) EXCEPT !.fp = fp, !.count = n]
    IN  /\ At(l, "judging")
        /\ IF fp # NoText /\ n >= Threshold(t) /\ l \in fresh
             THEN Close(l, s, "AWAITING_USER")
             ELSE /\ loop' = [loop EXCEPT ![l] = [NextTask(l) EXCEPT !.st = s]]
                  /\ UNCHANGED <<orch, evidence, revisionVars>>
        /\ UNCHANGED <<mission, task, continued, moves>>

-------------------------------------------------------------------------------
(* Everybody else, up to the bound.                                        *)

Moves == moves < MaxMoves /\ moves' = moves + 1

\* Another process writes the mission, its status, or reviews evidence of it.  That
\* the user takes up an interrupted mission again is not counted.
MissionMoves(status) ==
    /\ IF status = "running" /\ mission = "awaiting-review" /\ orch.terminal = "INTERRUPTED"
         THEN moves' = moves ELSE Moves
    /\ status = mission \/ CanTransition(mission, status)
    /\ status = "completed" => CompletedAndVerified
    /\ mission' = status
    /\ NewRevision({}, evidence)
    /\ UNCHANGED <<orch, task, loop, continued>>

EvidenceReviewed(t, i) ==
    /\ Moves
    /\ i \in Proposed(t)
    /\ PromoteEvidence(t, i) \/ RejectEvidence(t, i)
    /\ UNCHANGED <<mission, orch, task, loop, continued>>

\* recoverInterrupted, in a process that starts when those of the loops `gone` are no
\* more: it interrupts whatever runs, in other processes too, and leaves the mission to
\* the user.  Where the mission may not go there it throws, and nothing is kept.
Recover(gone) ==
    LET run == {t \in Tasks : task[t].run # NoText}
        reviewed == {t \in Tasks : task[t].review # NoText}
        orphans == run \cup reviewed
    IN  /\ Moves
        /\ IF orphans # {} /\ mission \in {"planned", "paused", "blocked"}
             THEN UNCHANGED task
             ELSE task' = [t \in Tasks |->
                            [task[t] EXCEPT !.status = IF t \in run THEN "interrupted" ELSE @,
                                            !.end = IF t \in run THEN "recovered_interrupted" ELSE @,
                                            !.quality = IF t \in reviewed THEN "review_required" ELSE @,
                                            !.run = NoText, !.review = NoText]]
        /\ IF orphans # {} /\ mission = "running"
             THEN /\ orch' = [orch EXCEPT !.terminal = "INTERRUPTED"]
                  /\ mission' = "awaiting-review"
                  /\ NewRevision({}, evidence)
             ELSE /\ fresh' = fresh \ gone /\ begun' = begun \ gone
                  /\ UNCHANGED <<orch, mission, evidence>>
        /\ UNCHANGED continued

\* The process of a loop ends and is started again, or another one starts beside it.
Restart(l) == Stop(l) /\ Recover({l})
StartBeside == UNCHANGED loop /\ Recover({})

-------------------------------------------------------------------------------
Init ==
    /\ evidence = [t \in Tasks |-> <<>>]
    /\ fresh = {} /\ begun = {}
    /\ mission = "planned"
    /\ orch = DefaultState
    /\ task = [t \in Tasks |-> NoTask]
    /\ loop = [l \in Loops |-> NoLoop]
    /\ continued = [t \in Tasks |-> 0]
    /\ moves = 0

Phase(l) == IF At(l, "planning") THEN "plan" ELSE "evaluate"
AnswersOf == [phase \in Phases |-> AnswersFor(phase, Contents)]

\* invokeWithFallback: infrastructure that fails changes the route, and nothing else does.
BossAnswers(l) ==
    \E answer \in AnswersOf[Phase(l)] :
      \/ answer = "infrastructure" /\ InfrastructureFails(l)
      \/ answer \in {"cancelled", "safety"} /\ BossAborts(l, answer)
      \/ answer = "protocol" /\ \E e \in Errors : ProtocolFails(l, e)
      \/ /\ answer \in Actions
         /\ \E satisfied \in BOOLEAN :
               PlanDecided(l, answer, satisfied) \/ EvaluationDecided(l, answer, satisfied)

TaskStep(l) ==
    \/ \E t \in Tasks, w \in Objectives : ChooseTask(l, t, w)
    \/ EndTasks(l) \/ DispatchAborts(l)
    \/ \E how \in RunEnds : WorkerEnds(l, how)
    \/ WorkerIsLate(l) \/ Assess(l) \/ Decide(l)

GateVerdicts == {VerdictOn(s) : s \in Submissions}

\* The gate, not the reviewer, has the last word on a submission.
ReviewerSubmits(l) ==
    \E verdict \in GateVerdicts :
      \/ verdict = "pass" /\ ReviewerPasses(l)
      \/ verdict \in {"reject", "blocked"} /\ \E fix \in Fixes : ReviewerRejects(l, fix, verdict)
      \/ verdict = "invalid" /\ ReviewerFails(l)

ReviewStep(l) ==
    \/ OpenReview(l) \/ ReviewerSubmits(l) \/ ReviewerFails(l) \/ ReviewerAborts(l)
    \/ Promote(l) \/ Judge(l)

LoopStep(l) ==
    \/ Assign(l) \/ StartCycle(l) \/ BossAnswers(l) \/ TaskStep(l) \/ ReviewStep(l) \/ FinishClose(l)

Others ==
    \/ \E status \in MissionState : MissionMoves(status)
    \/ \E t \in Tasks : \E i \in Proposed(t) : EvidenceReviewed(t, i)
    \/ StartBeside
    \/ \E l \in Loops : Restart(l)

Next ==
    \/ \E l \in Loops : Begin(l) \/ LoopStep(l)
    \/ Others

BossSpec == Init /\ [][Next]_allVars

\* A loop that has begun goes on: every call of a model ends, with an answer or an
\* error, and a child and a reviewer have a timeout.
FairBossSpec == BossSpec /\ \A l \in Loops : WF_allVars(LoopStep(l))

-------------------------------------------------------------------------------
(* Properties.                                                             *)

\* Types: the persisted state is well formed and no loop counts past its budget of
\* cycles; a task that never ended a run has no evidence, and one that is running has a
\* loop whose attempt it is.
BossTypeOK ==
    /\ mission \in MissionState
    /\ orch.cycle \in 0..MaxCycles /\ orch.on \in Routes \cup {NoRoute}
    /\ orch.terminal \in Terminal \cup {"none"}
    /\ evidence \in [Tasks -> Seq(EvidenceRow)]
    /\ fresh \subseteq Loops /\ begun \subseteq Loops
    /\ \A t \in Tasks : /\ task[t].end = NoText => evidence[t] = <<>>
                       /\ task[t].status = "running" <=> task[t].run # NoText
    /\ \A l \in Loops : loop[l].cycle \in 0..MaxCycles

\* The Boss stays on the route it was pinned to: the persisted assignment changes only
\* by a fallback that the same write adds to the persisted history, and never to a
\* route that was left before, whatever crashed or was resumed in between.
PinnedBoss ==
    [][orch'.on # orch.on =>
         \/ orch.on = NoRoute
         \/ /\ [from |-> orch.on, to |-> orch'.on] \in orch'.history
            /\ orch'.on \notin FailedRoutes(orch)]_allVars

\* The nested rounds (cycles, protocol repairs, Boss fallbacks, recoveries) are bounded
\* together, also for a loop that resumes the state of another: every loop ends.
LoopEnds == \A l \in Loops : loop[l].pc # "idle" ~> loop[l].pc = "idle"

\* Partial work is gone on with at most once in the life of a task.
RecoverOnce == \A t \in Tasks : continued[t] <= MAX_AUTONOMOUS_RECOVERY_SEQUENCES_PER_TASK

\* A verified result becomes canonical: once the loop has dealt with a pass, and while
\* nobody else moved the mission, the report it passed on has been accepted.
VerifiedResultAccepted ==
    \A t \in Tasks :
      Verified(t) /\ moves = 0 /\ ~(\E l \in Loops : At(l, "promoting")) =>
        \E i \in DOMAIN evidence[t] :
          evidence[t][i].kind = "implementation-result" /\ evidence[t][i].status = "accepted"
===============================================================================
