----------------------------- MODULE MissionHost ------------------------------
(***************************************************************************)
(* The Pi processes (hosts) that drive one mission database: the Boss loop *)
(* of a mission (runCanonicalMission, runMissionGoalLoop), a task run by   *)
(* hand, a manual verification, the quality loop and /mission-cancel, with *)
(* process crashes and the recovery every start-up performs.               *)
(*                                                                         *)
(* A job is one asynchronous command.  Between two awaits it runs alone in *)
(* its host, but each store call is a transaction of its own, so the jobs  *)
(* of other hosts, and a crash, can come between any two of them.  What a  *)
(* model, a child or a reviewer answers is arbitrary; the cycle, fallback  *)
(* and repeat counters of the Boss loop only restrict how often it goes    *)
(* round, which nothing here depends on.                                   *)
(***************************************************************************)
EXTENDS MissionStore

CONSTANTS
    Hosts,          \* Pi processes, possibly running at the same time
    Jobs,           \* asynchronous commands that may be under way at once
    HostOf,         \* the host a job runs in
    Kinds,          \* the commands each job may be
    UserMoves,      \* mission states the user picks in the mission dialog
    MaxStarts       \* bound: process starts

ASSUME HostColumns == HostOf \in [Jobs -> Hosts]
ASSUME StartBound  == MaxStarts \in Nat \ {0}
ASSUME MovesKnown  == UserMoves \subseteq MissionStatus

VARIABLES
    host,           \* each process: down, up, or up without a mission store
    job,            \* what each command is doing and with which rows
    fresh,          \* jobs whose copy of their mission has its current revision
    starts          \* process starts so far

hostVars == <<host, job, fresh, starts>>
allVars == <<vars, hostVars>>

-------------------------------------------------------------------------------
JobKind == {"boss", "task", "verify", "loop", "cancel"}
\* At these points a job awaits a model, a child, a reviewer or the user.
Waiting == {"idle", "planning", "working", "assessing", "reviewing", "evaluating", "confirming"}
JobPoint == Waiting \cup {"choosing", "dispatching", "starting", "blocking", "targeting",
                          "opened", "closing", "cancelling", "cancelTasks", "cancelReviews"}

NoJob == [kind |-> "none", pc |-> "idle", mission |-> NoId, task |-> NoId, attempt |-> NoId,
          verification |-> NoId, end |-> "none", todo |-> {}]

Runs(j) == /\ host[HostOf[j]] = "up"
           /\ \A k \in Jobs \ {j} : HostOf[k] = HostOf[j] => job[k].pc \in Waiting
At(j, pc) == Runs(j) /\ job[j].pc = pc
Goto(j, pc) == job' = [job EXCEPT ![j].pc = pc]

\* The mission revision of m moves on; only the jobs in `by` know the new one.
Bumped_Never(m, by) == fresh \cup by
Bumped(m, by) == {k \in fresh : job[k].mission # m} \cup by

\* A command whose task run or verification is over: the Boss loop turns to the
\* next task of its plan, every other command ends.
Choosing(j) == [NoJob EXCEPT !.kind = "boss", !.pc = "choosing", !.mission = job[j].mission]
Return(j) == job' = [job EXCEPT ![j] = IF job[j].kind = "boss" THEN Choosing(j) ELSE NoJob]
CloseAs(j, end) == job' = [job EXCEPT ![j] = [Choosing(j) EXCEPT !.pc = "closing", !.end = end]]

-------------------------------------------------------------------------------
(* The Boss loop.                                                          *)

BeginBoss(j, m) ==
    /\ At(j, "idle") /\ "boss" \in Kinds[j]
    /\ mission[m] \notin {"absent", "completed", "cancelled", "blocked", "awaiting-review"}
    /\ IF mission[m] = "running" THEN UNCHANGED vars ELSE TransitionMission(m, "running", "boss")
    /\ job' = [job EXCEPT ![j] = [NoJob EXCEPT !.kind = "boss", !.pc = "planning", !.mission = m]]
    /\ fresh' = Bumped(m, {j})
    /\ UNCHANGED <<host, starts>>

\* completedAndVerified, which is also what qualityPrecludesComplete looks for.
CompletedAndVerified(m) ==
    /\ ActiveTasks(m) # {}
    /\ \A t \in ActiveTasks(m) : task[t].status = "execution_completed" /\ quality[t].status = "passed"

\* An answer of the Boss is persisted with the revision the loop holds, then
\* followed: a plan leads to its tasks, a failed plan or an evaluation to the
\* next cycle, and either may close the mission.
BossProceeds(j, pc) ==
    /\ j \in fresh
    /\ \/ At(j, "planning") /\ pc \in {"choosing", "planning"}
       \/ At(j, "evaluating") /\ pc = "planning"
    /\ Goto(j, pc)
    /\ fresh' = Bumped(job[j].mission, {j})
    /\ UNCHANGED <<vars, host, starts>>

\* "choosing": a repeated rejection gives the mission back to the user, and an
\* abort of the user that came during the last await cancels it.
BossCloses(j, end) ==
    /\ j \in fresh
    /\ \/ At(j, "planning") \/ At(j, "evaluating")
       \/ At(j, "choosing") /\ end \in {"awaiting-review", "cancelled"}
    /\ end = "completed" => CompletedAndVerified(job[j].mission)
    /\ CloseAs(j, end)
    /\ fresh' = Bumped(job[j].mission, {j})
    /\ UNCHANGED <<vars, host, starts>>

\* updateMission refuses a stale revision: the loop stops with a notice.
BossIsStale(j) ==
    /\ j \notin fresh
    /\ \E pc \in {"planning", "choosing", "evaluating", "closing"} : At(j, pc)
    /\ job' = [job EXCEPT ![j] = NoJob]
    /\ UNCHANGED <<vars, host, fresh, starts>>

\* terminal(): running goes to completed by way of awaiting-review.
ClosingState(j) ==
    IF job[j].end = "completed" /\ mission[job[j].mission] = "running"
      THEN "awaiting-review" ELSE job[j].end

CloseMission(j) ==
    /\ At(j, "closing") /\ j \in fresh
    /\ TransitionMission(job[j].mission, ClosingState(j), "boss")
    /\ IF ClosingState(j) = job[j].end
         THEN /\ job' = [job EXCEPT ![j] = NoJob]
              /\ fresh' = Bumped(job[j].mission, {})
         ELSE /\ job' = job
              /\ fresh' = Bumped(job[j].mission, {j})
    /\ UNCHANGED <<host, starts>>

\* The mission is there already, or may not go there (which throws).
CloseNothing(j) ==
    LET m == job[j].mission
    IN  /\ At(j, "closing") /\ j \in fresh
        /\ \/ mission[m] = job[j].end
           \/ ~CanTransition(mission[m], ClosingState(j))
           \/ ClosingState(j) = "completed" /\ ~Completable(m)
        /\ job' = [job EXCEPT ![j] = NoJob]
        /\ fresh' = fresh \ {j}
        /\ UNCHANGED <<vars, host, starts>>

\* resolveOrCreateMissionTask by task id or identity, then dispatch.
ChooseTask_Again(j, t) ==
    /\ At(j, "choosing")
    /\ TaskMission[t] = job[j].mission
    /\ task[t].status \notin {"absent", "cancelled"}
    /\ job' = [job EXCEPT ![j].pc = "dispatching", ![j].task = t]
    /\ UNCHANGED <<vars, host, fresh, starts>>
ChooseTask(j, t) ==
    /\ At(j, "choosing")
    /\ TaskMission[t] = job[j].mission
    /\ task[t].status \notin {"absent", "cancelled"}
    /\ ~(task[t].status = "execution_completed" /\ quality[t].status = "passed")
    /\ job' = [job EXCEPT ![j].pc = "dispatching", ![j].task = t]
    /\ UNCHANGED <<vars, host, fresh, starts>>

PlanTask(j, t) ==
    /\ At(j, "choosing")
    /\ TaskMission[t] = job[j].mission
    /\ \A u \in Tasks : TaskMission[u] = TaskMission[t] /\ TaskKey[u] = TaskKey[t]
                          => task[u].status \in {"absent", "cancelled", "running"}
    /\ CreateTask(t, "planned")
    /\ job' = [job EXCEPT ![j].pc = "dispatching", ![j].task = t]
    /\ UNCHANGED <<host, fresh, starts>>

EndTasks(j) ==
    /\ At(j, "choosing")
    /\ Goto(j, "evaluating")
    /\ UNCHANGED <<vars, host, fresh, starts>>

-------------------------------------------------------------------------------
(* executeMissionTask: run by the Boss, by hand or by the quality loop.    *)

\* A quality repair, and the Boss, may run a completed task again.
Runnable(j) ==
    \/ task[job[j].task].status \in {"pending", "planned", "interrupted"}
    \/ task[job[j].task].status = "execution_completed" /\ job[j].kind # "task"

BeginTask(j, t) ==
    /\ At(j, "idle") /\ "task" \in Kinds[j]
    /\ task[t].status # "absent"
    /\ job' = [job EXCEPT ![j] = [NoJob EXCEPT !.kind = "task", !.pc = "dispatching",
                                                !.mission = TaskMission[t], !.task = t]]
    /\ UNCHANGED <<vars, host, fresh, starts>>

\* The status check, buildPacket and saveTaskPacket; an error ends the task's turn.
Dispatch(j) ==
    /\ At(j, "dispatching")
    /\ Return(j) \/ (Runnable(j) /\ Goto(j, "starting"))
    /\ UNCHANGED <<vars, host, fresh, starts>>

StartAttempt(j, a) ==
    /\ At(j, "starting")
    /\ CreateAttempt(a, job[j].task, NoId)
    /\ job' = [job EXCEPT ![j].pc = "working", ![j].attempt = a]
    /\ UNCHANGED <<host, fresh, starts>>

StartRefused(j) ==
    /\ At(j, "starting")
    /\ RunningAttempts(job[j].task) # {}
    /\ Return(j)
    /\ UNCHANGED <<vars, host, fresh, starts>>

\* What the run of a child came to.  A completed child may report that it is
\* blocked; an unfinished local edit may be assessed and continued; an abort of the
\* user may overtake a completed child.
AfterWorker(j, status) ==
    CASE status = "succeeded" -> {"targeting", "blocking", "cancelled"}
      [] status = "interrupted" -> {"return", "assessing"}
      [] status = "cancelled" -> {"cancelled"}
      [] OTHER -> {"return"}

Follow(j, next) ==
    CASE next = "return" -> Return(j)
      [] next = "cancelled" /\ job[j].kind = "boss" -> CloseAs(j, "cancelled")
      [] next = "cancelled" /\ job[j].kind # "boss" -> Return(j)
      [] next = "targeting" /\ job[j].kind = "task" -> Return(j)
      [] next = "assessing" /\ job[j].kind # "boss" -> Return(j)
      [] OTHER -> Goto(j, next)

WorkerEnds_ErrorUnrecorded(j, status) ==
    /\ At(j, "working")
    /\ IF status = "failed" THEN UNCHANGED vars ELSE FinishAttempt(job[j].attempt, status)
    /\ \E next \in AfterWorker(j, status) : Follow(j, next)
    /\ UNCHANGED <<host, fresh, starts>>
WorkerEnds(j, status) ==
    /\ At(j, "working")
    /\ FinishAttempt(job[j].attempt, status)
    /\ \E next \in AfterWorker(j, status) : Follow(j, next)
    /\ UNCHANGED <<host, fresh, starts>>

\* The attempt was ended by somebody else: finishAttempt throws.
WorkerIsLate_Records(j) ==
    /\ At(j, "working")
    /\ attempt[job[j].attempt].status # "running"
    /\ task' = [task EXCEPT ![job[j].task].status = "execution_completed"]
    /\ Return(j)
    /\ UNCHANGED <<mission, attempt, lease, verification, quality, granted, now, host, fresh, starts>>
WorkerIsLate(j) ==
    /\ At(j, "working")
    /\ attempt[job[j].attempt].status # "running"
    /\ Return(j)
    /\ UNCHANGED <<vars, host, fresh, starts>>

BlockTask_DefaultStatus(j) ==
    /\ At(j, "blocking")
    /\ FinishTask(job[j].task, "execution_completed")
    /\ Return(j)
    /\ UNCHANGED <<host, fresh, starts>>
BlockTask(j) ==
    /\ At(j, "blocking")
    /\ FinishTask(job[j].task, "blocked")
    /\ IF job[j].kind = "loop" THEN Goto(j, "targeting") ELSE Return(j)
    /\ UNCHANGED <<host, fresh, starts>>

\* recoverAfterMutation: continue on the same task, or leave it to a human.
AssessmentEnds(j) ==
    /\ At(j, "assessing")
    /\ Return(j) \/ Goto(j, "dispatching")
    /\ UNCHANGED <<vars, host, fresh, starts>>

-------------------------------------------------------------------------------
(* Verification: by the Boss, by hand, or round by round in a quality loop.*)

\* /verify-task takes any run of the task that has ended.
BeginVerify(j, t, a) ==
    /\ At(j, "idle") /\ "verify" \in Kinds[j]
    /\ attempt[a].status \notin {"absent", "running"} /\ attempt[a].task = t
    /\ job' = [job EXCEPT ![j] = [NoJob EXCEPT !.kind = "verify", !.pc = "confirming",
                                    !.mission = TaskMission[t], !.task = t, !.attempt = a]]
    /\ UNCHANGED <<vars, host, fresh, starts>>

BeginLoop(j, t) ==
    /\ At(j, "idle") /\ "loop" \in Kinds[j]
    /\ task[t].status = "execution_completed"
    /\ job' = [job EXCEPT ![j] = [NoJob EXCEPT !.kind = "loop", !.pc = "confirming",
                                    !.mission = TaskMission[t], !.task = t, !.attempt = task[t].lastRun]]
    /\ UNCHANGED <<vars, host, fresh, starts>>

Confirm(j) ==
    /\ At(j, "confirming")
    /\ Goto(j, "targeting") \/ Return(j)
    /\ UNCHANGED <<vars, host, fresh, starts>>

\* The Boss verifies the last run of a task that is executed; the other two
\* commands the run they hold, which by now may not be the last one.
Target(j) == IF job[j].kind = "boss" THEN task[job[j].task].lastRun ELSE job[j].attempt
MayVerify(j) ==
    CASE job[j].kind = "boss" -> task[job[j].task].status = "execution_completed"
      [] job[j].kind = "verify" -> quality[job[j].task].status # "verification_running"
      [] OTHER -> TRUE

OpenReview(j, v) ==
    /\ At(j, "targeting") /\ MayVerify(j)
    /\ CreateVerificationRun(v, job[j].task, Target(j))
    /\ job' = [job EXCEPT ![j].pc = "opened", ![j].verification = v]
    /\ UNCHANGED <<host, fresh, starts>>

ReviewRefused(j) ==
    /\ At(j, "targeting")
    /\ \/ ~MayVerify(j)
       \/ attempt[Target(j)].status # "succeeded"
       \/ RunningVerifications(job[j].task) # {}
    /\ Return(j)
    /\ UNCHANGED <<vars, host, fresh, starts>>

\* startVerification's second transaction.
MarkReview(j) ==
    LET v == job[j].verification
    IN  /\ At(j, "opened")
        /\ \/ /\ SetTaskQualityStatus(job[j].task, [status |-> "verification_running",
                                                    verification |-> v, decision |-> NoId])
              /\ Goto(j, "reviewing")
           \/ /\ verification[v].status # "running"
              /\ Return(j)
              /\ UNCHANGED vars
        /\ UNCHANGED <<host, fresh, starts>>

\* A rejected round of the quality loop repairs the task, if rounds are left and
\* its class or pool allows it.  A pass lets the Boss promote evidence (which may
\* move the mission's revision) and read the mission again.
ReviewerDecides(j, verdict) ==
    /\ At(j, "reviewing")
    /\ FinalizeQualityVerification(job[j].verification, verdict)
    /\ Return(j) \/ (job[j].kind = "loop" /\ verdict = "reject" /\ Goto(j, "dispatching"))
    /\ IF job[j].kind = "boss" /\ verdict = "pass"
         THEN fresh' \in {fresh \cup {j}, Bumped(job[j].mission, {j})} ELSE fresh' = fresh
    /\ UNCHANGED <<host, starts>>

\* The reviewer did not complete; a cancelled one also ends the Boss loop.
ReviewerFails(j, status) ==
    /\ At(j, "reviewing")
    /\ FinalizeQualityFailure(job[j].verification, status)
    /\ \/ Return(j)
       \/ job[j].kind = "boss" /\ status = "review_required" /\ CloseAs(j, "cancelled")
    /\ UNCHANGED <<host, fresh, starts>>

\* An error raised after the user aborted counts as cancellation and is rethrown:
\* the verification is not failed, and stays running.
ReviewerAborts_Blocks(j) ==
    /\ At(j, "reviewing") /\ job[j].kind = "boss"
    /\ CloseAs(j, "blocked")
    /\ UNCHANGED <<vars, host, fresh, starts>>
ReviewerAborts(j) ==
    /\ At(j, "reviewing") /\ job[j].kind = "boss"
    /\ CloseAs(j, "cancelled")
    /\ UNCHANGED <<vars, host, fresh, starts>>

ReviewerIsLate(j) ==
    /\ At(j, "reviewing")
    /\ verification[job[j].verification].status # "running"
    /\ Return(j)
    /\ UNCHANGED <<vars, host, fresh, starts>>

-------------------------------------------------------------------------------
(* cancelActiveMission: a series of transactions with two lists read in    *)
(* between.  It neither ends attempts nor stops the jobs of the mission.   *)

BeginCancel(j, m) ==
    /\ At(j, "idle") /\ "cancel" \in Kinds[j]
    /\ mission[m] \notin {"completed", "cancelled", "awaiting-review", "blocked", "failed"}
    /\ TransitionMission(m, "cancelled", "user")
    /\ job' = [job EXCEPT ![j] = [NoJob EXCEPT !.kind = "cancel", !.pc = "cancelling", !.mission = m]]
    /\ fresh' = Bumped(m, {})
    /\ UNCHANGED <<host, starts>>

ListTasks(j) ==
    /\ At(j, "cancelling")
    /\ job' = [job EXCEPT ![j].pc = "cancelTasks",
                 ![j].todo = {t \in Tasks : /\ TaskMission[t] = job[j].mission
                                            /\ task[t].status \in {"running", "pending"}}]
    /\ UNCHANGED <<vars, host, fresh, starts>>

CancelTask(j, t) ==
    /\ At(j, "cancelTasks") /\ t \in job[j].todo
    /\ FinishTask(t, "cancelled")
    /\ job' = [job EXCEPT ![j].todo = @ \ {t}]
    /\ UNCHANGED <<host, fresh, starts>>

ListReviews(j) ==
    /\ At(j, "cancelTasks") /\ job[j].todo = {}
    /\ job' = [job EXCEPT ![j].pc = "cancelReviews",
                 ![j].todo = {v \in Verifications : /\ verification[v].status = "running"
                                                    /\ VerificationMission(v) = job[j].mission}]
    /\ UNCHANGED <<vars, host, fresh, starts>>

\* finalizeQualityFailure does nothing to a verification that has ended.
CancelReview(j, v) ==
    /\ At(j, "cancelReviews") /\ v \in job[j].todo
    /\ IF verification[v].status = "running" THEN FinalizeQualityFailure(v, "blocked") ELSE UNCHANGED vars
    /\ job' = [job EXCEPT ![j].todo = @ \ {v}]
    /\ UNCHANGED <<host, fresh, starts>>

EndCancel(j) ==
    /\ At(j, "cancelReviews") /\ job[j].todo = {}
    /\ job' = [job EXCEPT ![j] = NoJob]
    /\ UNCHANGED <<vars, host, fresh, starts>>

-------------------------------------------------------------------------------
(* The user at a host, and the life of a host.                             *)

AtPrompt(h) == host[h] = "up" /\ \A j \in Jobs : HostOf[j] = h => job[j].pc \in Waiting

UserCreatesMission(h, m) ==
    /\ AtPrompt(h)
    /\ CreateMission(m)
    /\ UNCHANGED hostVars

UserCreatesTask(h, t) ==
    /\ AtPrompt(h)
    /\ CreateTask(t, "pending")
    /\ UNCHANGED hostVars

\* The mission dialog acts as the boss, with the revision it displayed.
UserMovesMission(h, m, status) ==
    /\ AtPrompt(h)
    /\ TransitionMission(m, status, "boss")
    /\ fresh' = Bumped(m, {})
    /\ UNCHANGED <<host, job, starts>>

\* Ending Pi, in whatever way, leaves the store as it is.
Crash(h) ==
    /\ host[h] # "down" /\ starts < MaxStarts
    /\ host' = [host EXCEPT ![h] = "down"]
    /\ job' = [j \in Jobs |-> IF HostOf[j] = h THEN NoJob ELSE job[j]]
    /\ fresh' = {j \in fresh : HostOf[j] # h}
    /\ UNCHANGED <<vars, starts>>

Orphans == OrphanedAttempts # {} \/ OrphanedVerifications # {}
OrphanMissions == ParentMissions(OrphanedAttempts, OrphanedVerifications)

\* Start-up runs recoverInterrupted; if it throws, the host has no mission store.
Start(h) ==
    /\ host[h] = "down" /\ starts < MaxStarts
    /\ \/ Orphans /\ RecoverInterrupted
       \/ ~Orphans /\ UNCHANGED vars
       \/ Orphans /\ ~MayAwaitReview(OrphanMissions) /\ UNCHANGED vars
    /\ host' = [host EXCEPT ![h] =
                  IF Orphans /\ ~MayAwaitReview(OrphanMissions) THEN "nostore" ELSE "up"]
    /\ fresh' = {j \in fresh : mission'[job[j].mission] = mission[job[j].mission]}
    /\ starts' = starts + 1
    /\ UNCHANGED job

-------------------------------------------------------------------------------
CloseEnd == {"completed", "blocked", "awaiting-review", "cancelled"}

BossStep(j) ==
    \/ \E m \in Missions : BeginBoss(j, m)
    \/ \E pc \in {"choosing", "planning"} : BossProceeds(j, pc)
    \/ \E end \in CloseEnd : BossCloses(j, end)
    \/ BossIsStale(j) \/ CloseMission(j) \/ CloseNothing(j) \/ EndTasks(j)
    \/ \E t \in Tasks : ChooseTask(j, t) \/ PlanTask(j, t)

ExecutionStep(j) ==
    \/ \E t \in Tasks : BeginTask(j, t)
    \/ Dispatch(j) \/ StartRefused(j)
    \/ \E a \in Attempts : StartAttempt(j, a)
    \/ \E s \in {"succeeded", "failed", "interrupted", "cancelled"} : WorkerEnds(j, s)
    \/ WorkerIsLate(j) \/ BlockTask(j) \/ AssessmentEnds(j)

ReviewStep(j) ==
    \/ \E t \in Tasks : BeginLoop(j, t) \/ \E a \in Attempts : BeginVerify(j, t, a)
    \/ Confirm(j) \/ ReviewRefused(j) \/ MarkReview(j) \/ ReviewerAborts(j) \/ ReviewerIsLate(j)
    \/ \E v \in Verifications : OpenReview(j, v)
    \/ \E verdict \in Verdict : ReviewerDecides(j, verdict)
    \/ \E s \in {"review_required", "blocked"} : ReviewerFails(j, s)

CancelStep(j) ==
    \/ \E m \in Missions : BeginCancel(j, m)
    \/ ListTasks(j) \/ ListReviews(j) \/ EndCancel(j)
    \/ \E t \in Tasks : CancelTask(j, t)
    \/ \E v \in Verifications : CancelReview(j, v)

UserStep(h) ==
    \/ \E m \in Missions : \/ UserCreatesMission(h, m)
                           \/ \E s \in UserMoves : UserMovesMission(h, m, s)
    \/ \E t \in Tasks : UserCreatesTask(h, t)

HostInit ==
    /\ Init
    /\ host = [h \in Hosts |-> "down"]
    /\ job = [j \in Jobs |-> NoJob]
    /\ fresh = {}
    /\ starts = 0

HostNext ==
    \/ \E j \in Jobs : BossStep(j) \/ ExecutionStep(j) \/ ReviewStep(j) \/ CancelStep(j)
    \/ \E h \in Hosts : UserStep(h) \/ Crash(h) \/ Start(h)

HostSpec == HostInit /\ [][HostNext]_allVars

-------------------------------------------------------------------------------
JobRow == [kind : JobKind \cup {"none"}, pc : JobPoint, mission : Missions \cup {NoId},
           task : Tasks \cup {NoId}, attempt : Attempts \cup {NoId},
           verification : Verifications \cup {NoId}, end : CloseEnd \cup {"none"},
           todo : SUBSET (Tasks \cup Verifications)]

\* At each point a command holds the rows its next step needs.
JobHolds(r) ==
    /\ r.pc = "idle" => r.kind = "none"
    /\ r.pc # "idle" => r.mission \in Missions
    /\ r.pc \in {"dispatching", "starting", "working", "assessing", "blocking", "targeting",
                 "opened", "reviewing", "confirming"} => r.task \in Tasks
    /\ r.pc \in {"working", "blocking", "targeting", "confirming"} => r.attempt \in Attempts
    /\ r.pc \in {"opened", "reviewing"} => r.verification \in Verifications
    /\ r.pc = "closing" => r.end \in CloseEnd
    /\ r.pc = "cancelTasks" => r.todo \subseteq Tasks
    /\ r.pc = "cancelReviews" => r.todo \subseteq Verifications
    /\ r.pc \in {"cancelling", "cancelTasks", "cancelReviews"} => r.kind = "cancel"

HostTypeOK ==
    /\ host \in [Hosts -> {"down", "up", "nostore"}]
    /\ job \in [Jobs -> JobRow]
    /\ \A j \in Jobs : JobHolds(job[j])
    /\ fresh \subseteq {j \in Jobs : job[j].kind = "boss"}
    /\ starts \in 0..MaxStarts

\* While the one host is up, an attempt that is running in the store has a
\* command waiting for its child: every way out of a run ends its attempt.
NoLeakedAttempt ==
    \A a \in Attempts : attempt[a].status = "running" =>
        \/ \E h \in Hosts : host[h] # "up"
        \/ \E j \in Jobs : job[j].pc = "working" /\ job[j].attempt = a

\* Start-up recovery never fails on what an earlier process left behind, so a
\* host always gets its mission store (CP-002: "MUST reconcile tasks left running").
StartupOpensStore == \A h \in Hosts : host[h] # "nostore"

\* When a mission becomes completed, the review behind each active task is of
\* the last run of that task: "Missing evidence is not pass" (GATE-002).
CompletedWorkReviewed ==
    [][\A m \in Missions : mission[m] # "completed" /\ mission'[m] = "completed" =>
          \A t \in ActiveTasks(m) : verification[quality[t].decision].target = task[t].lastRun]_allVars

\* A child that answers after another host's recovery ended its attempt changes
\* nothing in the store: neither the attempt nor its task comes back to life.
LateAnswersChangeNothing ==
    [][\A j \in Jobs :
          /\ job[j].pc = "working" /\ attempt[job[j].attempt].status # "running"
          /\ job'[j].pc # "working"
          => UNCHANGED vars]_allVars

\* Every await of a command ends: children have a time limit (the one await without
\* a limit, of session.abort() at executor.ts:401, is taken to return), and the commands
\* go on afterwards; a host that went down is started again.
Progress(j) == job[j].pc # "idle" /\ (BossStep(j) \/ ExecutionStep(j) \/ ReviewStep(j))
FairHostSpec ==
    /\ HostSpec
    /\ \A j \in Jobs : WF_allVars(Progress(j))
    /\ \A h \in Hosts : WF_allVars(Start(h))

\* An attempt that is running is some day not running, through the answer of its
\* child or through the recovery after a crash (CP-002, CP-004).
AttemptsEnd ==
    \A a \in Attempts : (attempt[a].status = "running") ~> (attempt[a].status # "running")
===============================================================================
