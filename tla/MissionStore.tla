----------------------------- MODULE MissionStore -----------------------------
(***************************************************************************)
(* The mission database of src/core/mission/index.ts (SQLiteMissionStore): *)
(* missions, tasks, attempts, mission leases, verification runs, quality   *)
(* decisions and the quality status of each task.  Every public operation  *)
(* that writes runs inside one BEGIN IMMEDIATE transaction, so it is one   *)
(* action; an operation that throws rolls back and is not a step.          *)
(*                                                                         *)
(* A decision is identified by the verification run it decides, because    *)
(* recordQualityDecision refuses a second one.  Revision numbers, packets, *)
(* evidence and checkpoints are the subject of MissionEvidence.            *)
(***************************************************************************)
EXTENDS Naturals, FiniteSets

CONSTANTS
    Missions, Tasks, Attempts, Verifications,   \* ids the store may hand out
    Owners,         \* lease owner tokens, one per process that takes leases
    TaskMission,    \* mission_id column of each task, never updated
    TaskClass,      \* execution_class column of each task, never updated
    TaskKey,        \* taskIdentityKey: class and normalised objective
    LeaseTtl,       \* leaseTtlMs, in clock ticks
    MaxTime,        \* bound: the clock stops here
    NoId            \* SQL NULL in an id column

ASSUME TaskColumns == /\ Tasks \subseteq Nat
                      /\ TaskMission \in [Tasks -> Missions]
ASSUME ClockBounds == LeaseTtl \in Nat \ {0} /\ MaxTime \in Nat \ {0}
ASSUME NoIdIsNull  == NoId \notin Attempts \cup Verifications \cup Owners

VARIABLES
    mission,        \* missions.status
    task,           \* tasks.status and tasks.last_run_id
    attempt,        \* attempts: status, task, lease owner, lease expiry
    lease,          \* mission_leases: owner and expiry
    verification,   \* verification_runs: status, task, target run, verdict
    quality,        \* task_quality_status: status, latest ids
    granted,        \* expiry of the last LeaseRecord returned to each owner
    now             \* the clock all processes share

rows == <<mission, task, attempt, verification, quality>>
vars == <<mission, task, attempt, lease, verification, quality, granted, now>>

-------------------------------------------------------------------------------
MissionStatus == {"draft", "planned", "active", "paused", "running",
                  "awaiting-review", "blocked", "failed", "cancelled", "completed"}
TaskStatus == {"pending", "planned", "running", "interrupted",
               "execution_completed", "cancelled", "blocked"}
AttemptEnd == {"succeeded", "failed", "interrupted", "cancelled", "timed-out", "unknown"}
AttemptStatus == {"running"} \cup AttemptEnd
Verdict == {"pass", "reject", "blocked"}
VerificationEnd == {"completed", "interrupted", "blocked"}
QualityStatus == {"unverified", "verification_running", "passed",
                  "rejected", "blocked", "review_required"}
Time == 0..(MaxTime + LeaseTtl)

TaskRow == [status : TaskStatus \cup {"absent"}, lastRun : Attempts \cup {NoId}]
AttemptRow == [status : AttemptStatus \cup {"absent"}, task : Tasks \cup {NoId},
               owner : Owners \cup {NoId}, expires : Time]
LeaseRow == [owner : Owners \cup {NoId}, expires : Time]
VerificationRow == [status : VerificationEnd \cup {"running", "absent"}, task : Tasks \cup {NoId},
                    target : Attempts \cup {NoId}, verdict : Verdict \cup {"none"}]
QualityRow == [status : QualityStatus \cup {"absent"}, verification : Verifications \cup {NoId},
               decision : Verifications \cup {NoId}]

\* A missing row of each table.
NoTask == [status |-> "absent", lastRun |-> NoId]
NoAttempt == [status |-> "absent", task |-> NoId, owner |-> NoId, expires |-> 0]
NoLease == [owner |-> NoId, expires |-> 0]
NoVerification == [status |-> "absent", task |-> NoId, target |-> NoId, verdict |-> "none"]
NoQuality == [status |-> "absent", verification |-> NoId, decision |-> NoId]
Unverified == [status |-> "unverified", verification |-> NoId, decision |-> NoId]

CanTransition_Reopen(from, to) ==
    \/ from \in {"cancelled", "completed"} /\ to = "running"
    \/ from = "draft" /\ to \in {"running", "cancelled"}
    \/ from = "running" /\ to \in {"awaiting-review", "cancelled"}
    \/ from = "awaiting-review" /\ to = "completed"
CanTransition(from, to) ==
    to \in CASE from = "draft"    -> {"planned", "active", "running", "blocked", "cancelled"}
             [] from = "planned"  -> {"active", "running", "blocked", "cancelled"}
             [] from = "active"   -> {"paused", "running", "awaiting-review", "blocked", "failed", "cancelled"}
             [] from = "paused"   -> {"running", "blocked", "cancelled"}
             [] from = "running"  -> {"paused", "awaiting-review", "blocked", "failed", "cancelled"}
             [] from = "awaiting-review" -> {"running", "completed", "blocked", "failed", "cancelled"}
             [] from = "blocked"  -> {"running", "failed", "cancelled"}
             [] from = "failed"   -> {"cancelled"}
             [] OTHER             -> {}

\* A lease that has not expired; a missing row has expiry 0.
LeaseLive(m) == lease[m].expires > now

\* A definition Name_Mistake is the form of Name a plausible bug would give it; it
\* is used by no action, and shows that the property of a run can fail.
RunningAttempts_LeasedOnly(t) ==
    {a \in Attempts : attempt[a].status = "running" /\ attempt[a].task = t /\ attempt[a].expires > now}
RunningAttempts(t) == {a \in Attempts : attempt[a].status = "running" /\ attempt[a].task = t}
RunningVerifications_OfLastRun(t) ==
    {v \in Verifications : /\ verification[v].status = "running" /\ verification[v].task = t
                           /\ verification[v].target = task[t].lastRun}
RunningVerifications(t) ==
    {v \in Verifications : verification[v].status = "running" /\ verification[v].task = t}

\* activeMissionTasks: the latest task of each identity that is not cancelled.
ActiveTasks(m) ==
    LET candidates == {t \in Tasks : /\ TaskMission[t] = m
                                     /\ task[t].status \notin {"absent", "cancelled"}}
    IN  {t \in candidates : \A u \in candidates : TaskKey[u] = TaskKey[t] => u <= t}

\* assertMissionCompletable: the gate of every transition to completed.
Completable_AnyDecision(m) ==
    ActiveTasks(m) # {} /\ \A t \in ActiveTasks(m) : task[t].status = "execution_completed"
                                                     /\ quality[t].decision # NoId
Completable(m) ==
    /\ ActiveTasks(m) # {}
    /\ \A t \in ActiveTasks(m) : /\ task[t].status = "execution_completed"
                                 /\ quality[t].status = "passed"
                                 /\ quality[t].decision # NoId

-------------------------------------------------------------------------------
Init ==
    /\ mission = [m \in Missions |-> "absent"]
    /\ task = [t \in Tasks |-> NoTask]
    /\ attempt = [a \in Attempts |-> NoAttempt]
    /\ lease = [m \in Missions |-> NoLease]
    /\ verification = [v \in Verifications |-> NoVerification]
    /\ quality = [t \in Tasks |-> NoQuality]
    /\ granted = [o \in Owners |-> [m \in Missions |-> 0]]
    /\ now = 1

Tick ==
    /\ now < MaxTime
    /\ now' = now + 1
    /\ UNCHANGED <<rows, lease, granted>>

\* Every caller in src creates missions as drafts (createCanonicalMission).
CreateMission(m) ==
    /\ mission[m] = "absent"
    /\ mission' = [mission EXCEPT ![m] = "draft"]
    /\ UNCHANGED <<task, attempt, lease, verification, quality, granted, now>>

TransitionMission(m, status, actor) ==
    /\ mission[m] # "absent"
    /\ status = "completed" => actor = "boss" /\ Completable(m)
    /\ mission[m] # status
    /\ CanTransition(mission[m], status)
    /\ mission' = [mission EXCEPT ![m] = status]
    /\ UNCHANGED <<task, attempt, lease, verification, quality, granted, now>>

\* Task ids stand for the ORDER BY created_at, task_id: created in order.
CreateTask(t, status) ==
    /\ mission[TaskMission[t]] # "absent"
    /\ task[t].status = "absent"
    /\ \A u \in Tasks : u > t => task[u].status = "absent"
    /\ task' = [task EXCEPT ![t].status = status]
    /\ quality' = [quality EXCEPT ![t] = Unverified]
    /\ UNCHANGED <<mission, attempt, lease, verification, granted, now>>

\* The callers in src finish a task directly only as blocked (executeMissionTask)
\* or cancelled (cancelActiveMission); no status is refused.
FinishTask(t, status) ==
    /\ task[t].status # "absent"
    /\ task' = [task EXCEPT ![t].status = status]
    /\ UNCHANGED <<mission, attempt, lease, verification, quality, granted, now>>

\* createAttempt refuses a mission somebody else holds.
MayStartIn_Unowned(m, owner) == LeaseLive(m) /\ owner # NoId => lease[m].owner = owner
MayStartIn(m, owner) == LeaseLive(m) => owner # NoId /\ lease[m].owner = owner

\* owner is NoId when the caller passes no leaseOwner, as every caller in
\* src/host does; the attempt's own lease is then NULL.
CreateAttempt(a, t, owner) ==
    /\ task[t].status # "absent"
    /\ MayStartIn(TaskMission[t], owner)
    /\ RunningAttempts(t) = {}
    /\ attempt[a].status = "absent"
    /\ attempt' = [attempt EXCEPT ![a] =
                     [status |-> "running", task |-> t, owner |-> owner,
                      expires |-> IF owner = NoId THEN 0 ELSE now + LeaseTtl]]
    /\ task' = [task EXCEPT ![t] = [status |-> "running", lastRun |-> a]]
    /\ quality' = IF TaskClass[t] = "implementation"
                    THEN [quality EXCEPT ![t] = Unverified] ELSE quality
    /\ UNCHANGED <<mission, lease, verification, granted, now>>

\* The task follows its attempt whatever status the task has by now.
TaskStatusAfter_Unmapped(status) == status
TaskStatusAfter_PartialIsDone(status) ==
    IF status \in {"succeeded", "timed-out"} THEN "execution_completed" ELSE "blocked"
TaskStatusAfter(status) ==
    CASE status = "succeeded"                   -> "execution_completed"
      [] status \in {"interrupted", "timed-out"} -> "interrupted"
      [] status = "cancelled"                   -> "cancelled"
      [] OTHER                                  -> "blocked"

FinishAttempt(a, status) ==
    /\ attempt[a].status = "running"
    /\ attempt' = [attempt EXCEPT ![a].status = status]
    /\ task' = [task EXCEPT ![attempt[a].task].status = TaskStatusAfter(status)]
    /\ UNCHANGED <<mission, lease, verification, quality, granted, now>>

-------------------------------------------------------------------------------
(* Verification runs, decisions and the quality status of a task.          *)

CreateVerificationRun(v, t, a) ==
    /\ verification[v].status = "absent"
    /\ task[t].status # "absent"
    /\ attempt[a].status = "succeeded"
    /\ attempt[a].task = t
    /\ RunningVerifications(t) = {}
    /\ verification' = [verification EXCEPT ![v] =
                          [status |-> "running", task |-> t, target |-> a, verdict |-> "none"]]
    /\ UNCHANGED <<mission, task, attempt, lease, quality, granted, now>>

\* The checks of setTaskQualityStatus, against the verification table `table`
\* that its transaction sees.
QualityAccepted_AnyTask(table, t, q) ==
    q.status = "passed" => /\ q.decision # NoId /\ table[q.decision].verdict = "pass"
                           /\ table[q.verification].status = "completed"
QualityAccepted(table, t, q) ==
    LET v == q.verification
        d == q.decision
        ended == IF v = NoId THEN "none" ELSE table[v].status
        verdict == IF d = NoId THEN "none" ELSE table[d].verdict
    IN  /\ v # NoId => table[v].task = t
        /\ d # NoId => table[d].task = t /\ verdict # "none"
        /\ v # NoId /\ d # NoId => d = v
        /\ q.status = "verification_running" => ended = "running"
        /\ q.status = "passed" => verdict = "pass" /\ ended = "completed"
        /\ q.status = "rejected" => verdict = "reject" /\ ended = "completed"
        /\ q.status = "blocked" => IF d = NoId THEN ended \in {"blocked", "interrupted"}
                                   ELSE verdict = "blocked" /\ ended = "completed"

SetTaskQualityStatus(t, q) ==
    /\ task[t].status # "absent"
    /\ QualityAccepted(verification, t, q)
    /\ quality' = [quality EXCEPT ![t] = q]
    /\ UNCHANGED <<mission, task, attempt, lease, verification, granted, now>>

\* A decision is recorded once, on a running verification.
Decidable(v) == verification[v].status = "running" /\ verification[v].verdict = "none"

RecordQualityDecision(v, verdict) ==
    /\ Decidable(v)
    /\ verification' = [verification EXCEPT ![v].verdict = verdict]
    /\ UNCHANGED <<mission, task, attempt, lease, quality, granted, now>>

QualityOf(verdict) ==
    CASE verdict = "pass" -> "passed" [] verdict = "reject" -> "rejected" [] OTHER -> "blocked"

\* Decision, end of the run and quality status in one transaction.
FinalizeQualityVerification(v, verdict) ==
    LET t == verification[v].task
        q == [status |-> QualityOf(verdict), verification |-> v, decision |-> v]
    IN  /\ Decidable(v)
        /\ verification' = [verification EXCEPT ![v].status = "completed", ![v].verdict = verdict]
        /\ QualityAccepted(verification', t, q)
        /\ quality' = [quality EXCEPT ![t] = q]
        /\ UNCHANGED <<mission, task, attempt, lease, granted, now>>

\* A verification that ended without a verdict; nothing if it is not running.
FinalizeQualityFailure(v, status) ==
    LET t == verification[v].task
        q == [status |-> status, verification |-> v, decision |-> NoId]
    IN  /\ verification[v].status = "running"
        /\ verification' = [verification EXCEPT ![v].status =
                              IF status = "review_required" THEN "interrupted" ELSE "blocked"]
        /\ QualityAccepted(verification', t, q)
        /\ quality' = [quality EXCEPT ![t] = q]
        /\ UNCHANGED <<mission, task, attempt, lease, granted, now>>

-------------------------------------------------------------------------------
(* Mission leases.                                                         *)

Grant(m, o) ==
    /\ lease' = [lease EXCEPT ![m] = [owner |-> o, expires |-> now + LeaseTtl]]
    /\ granted' = [granted EXCEPT ![o][m] = now + LeaseTtl]

Withdraw(m, o) ==
    /\ lease' = [lease EXCEPT ![m] = NoLease]
    /\ granted' = [granted EXCEPT ![o][m] = 0]

Acquirable_OffByOne(m, o) == lease[m].expires > now + 1 => lease[m].owner = o
Acquirable(m, o) == LeaseLive(m) => lease[m].owner = o

AcquireLease(m, o) ==
    /\ mission[m] # "absent"
    /\ Acquirable(m, o)
    /\ Grant(m, o)
    /\ UNCHANGED <<rows, now>>

\* Takes the lease and walks the mission to running in one transaction.
ClaimMissionExecution(m, o) ==
    /\ mission[m] \notin {"absent", "completed", "cancelled", "failed"}
    /\ Acquirable(m, o)
    /\ Grant(m, o)
    /\ mission' = [mission EXCEPT ![m] = "running"]
    /\ UNCHANGED <<task, attempt, verification, quality, now>>

HeartbeatLease(m, o) ==
    /\ lease[m].owner = o
    /\ LeaseLive(m)
    /\ Grant(m, o)
    /\ UNCHANGED <<rows, now>>

ReleaseLease(m, o) ==
    /\ lease[m].owner = o
    /\ Withdraw(m, o)
    /\ UNCHANGED <<rows, now>>

-------------------------------------------------------------------------------
(* Interruption: recovery of what a dead process left running, and the     *)
(* clean shutdown of a lease holder.                                       *)

Interruptible == {"running", "active", "planned", "paused", "blocked"}

\* The parent missions go to awaiting-review through transitionMission; if one
\* of them may not, the operation throws and the transaction rolls back.
MayAwaitReview(ms) ==
    \A m \in ms : mission[m] \in Interruptible => CanTransition(mission[m], "awaiting-review")

InterruptWork(as, vs, ms) ==
    /\ MayAwaitReview(ms)
    /\ attempt' = [a \in Attempts |-> IF a \in as
                     THEN [attempt[a] EXCEPT !.status = "interrupted"] ELSE attempt[a]]
    /\ task' = [t \in Tasks |->
                  IF task[t].status = "running" /\ \E a \in as : attempt[a].task = t
                    THEN [task[t] EXCEPT !.status = "interrupted"] ELSE task[t]]
    /\ verification' = [v \in Verifications |-> IF v \in vs
                     THEN [verification[v] EXCEPT !.status = "interrupted"] ELSE verification[v]]
    /\ quality' = [t \in Tasks |->
                     IF \E v \in vs : verification[v].task = t
                       THEN [status |-> "review_required",
                             verification |-> CHOOSE v \in vs : verification[v].task = t,
                             decision |-> quality[t].decision]
                       ELSE quality[t]]
    /\ mission' = [m \in Missions |->
                     IF m \in ms /\ mission[m] \in Interruptible
                       THEN "awaiting-review" ELSE mission[m]]
    /\ UNCHANGED now

AttemptMission(a) == TaskMission[attempt[a].task]
VerificationMission(v) == TaskMission[verification[v].task]
ParentMissions(as, vs) ==
    {AttemptMission(a) : a \in as} \cup {VerificationMission(v) : v \in vs}

\* What recoverInterrupted() selects: own lease expired or NULL, and no live
\* lease on the mission.
OrphanedAttempts_OwnLeaseOnly ==
    {a \in Attempts : attempt[a].status = "running" /\ attempt[a].expires <= now}
OrphanedAttempts_LeasedOnly ==
    {a \in Attempts : /\ attempt[a].status = "running"
                      /\ attempt[a].expires \in 1..now
                      /\ ~LeaseLive(AttemptMission(a))}
OrphanedAttempts ==
    {a \in Attempts : /\ attempt[a].status = "running"
                      /\ attempt[a].expires <= now
                      /\ ~LeaseLive(AttemptMission(a))}
OrphanedVerifications ==
    {v \in Verifications : verification[v].status = "running" /\ ~LeaseLive(VerificationMission(v))}

RecoverInterrupted ==
    /\ OrphanedAttempts # {} \/ OrphanedVerifications # {}
    /\ InterruptWork(OrphanedAttempts, OrphanedVerifications,
                     ParentMissions(OrphanedAttempts, OrphanedVerifications))
    /\ UNCHANGED <<lease, granted>>

\* recoverInterrupted({ owner }): the mission lease is not consulted for attempts.
RecoverOwner(o) ==
    LET as == {a \in Attempts : /\ attempt[a].status = "running"
                                /\ attempt[a].owner = o
                                /\ attempt[a].expires <= now}
        vs == {v \in OrphanedVerifications : lease[VerificationMission(v)].owner = o}
    IN  /\ as # {} \/ vs # {}
        /\ InterruptWork(as, vs, ParentMissions(as, vs))
        /\ UNCHANGED <<lease, granted>>

InterruptOwnedExecution(m, o) ==
    LET as == {a \in Attempts : /\ attempt[a].status = "running"
                                /\ AttemptMission(a) = m
                                /\ attempt[a].owner = o}
        vs == {v \in Verifications : /\ verification[v].status = "running"
                                     /\ VerificationMission(v) = m}
    IN  /\ lease[m].owner = o
        /\ LeaseLive(m)
        /\ InterruptWork(as, vs, {m})
        /\ Withdraw(m, o)

-------------------------------------------------------------------------------
MissionStep ==
    \E m \in Missions :
        \/ CreateMission(m)
        \/ \E s \in MissionStatus, actor \in {"boss", "user", "system"} :
              TransitionMission(m, s, actor)

TaskStep ==
    \E t \in Tasks :
        \/ \E s \in {"pending", "planned"} : CreateTask(t, s)
        \/ \E s \in {"blocked", "cancelled"} : FinishTask(t, s)
        \/ \E a \in Attempts, o \in Owners \cup {NoId} : CreateAttempt(a, t, o)

AttemptStep == \E a \in Attempts, s \in AttemptEnd : FinishAttempt(a, s)

\* The rows QualityService hands to setTaskQualityStatus directly:
\* startVerification's, and the one recordDecision derives from a verdict.
ServiceRows(v) ==
    {[status |-> "verification_running", verification |-> v, decision |-> NoId],
     [status |-> QualityOf(verification[v].verdict), verification |-> v, decision |-> v]}

QualityStep ==
    \/ \E v \in Verifications, t \in Tasks, a \in Attempts : CreateVerificationRun(v, t, a)
    \/ \E v \in Verifications, t \in Tasks : \E q \in ServiceRows(v) : SetTaskQualityStatus(t, q)
    \/ \E v \in Verifications, d \in Verdict : RecordQualityDecision(v, d)
    \/ \E v \in Verifications, d \in Verdict : FinalizeQualityVerification(v, d)
    \/ \E v \in Verifications, s \in {"review_required", "blocked"} : FinalizeQualityFailure(v, s)

LeaseStep ==
    \E m \in Missions, o \in Owners :
        \/ AcquireLease(m, o)
        \/ ClaimMissionExecution(m, o)
        \/ HeartbeatLease(m, o)
        \/ ReleaseLease(m, o)
        \/ InterruptOwnedExecution(m, o)

RecoveryStep == RecoverInterrupted \/ \E o \in Owners : RecoverOwner(o)

Next == \/ MissionStep \/ TaskStep \/ AttemptStep \/ QualityStep
        \/ LeaseStep \/ RecoveryStep \/ Tick

Spec == Init /\ [][Next]_vars

-------------------------------------------------------------------------------
TypeOK ==
    /\ mission \in [Missions -> MissionStatus \cup {"absent"}]
    /\ task \in [Tasks -> TaskRow]
    /\ attempt \in [Attempts -> AttemptRow]
    /\ lease \in [Missions -> LeaseRow]
    /\ verification \in [Verifications -> VerificationRow]
    /\ quality \in [Tasks -> QualityRow]
    /\ granted \in [Owners -> [Missions -> Time]]
    /\ now \in 1..MaxTime

\* A task has at most one running attempt, and it is the one the task row names:
\* createAttempt looks for a running one, and nothing else writes last_run_id.
RunningAttemptIsLastRun ==
    \A a \in Attempts : attempt[a].status = "running" => task[attempt[a].task].lastRun = a

\* A task the store calls execution_completed has a last run that succeeded,
\* although finishTask, cancellation and recovery also write the task status.
DoneTaskHasSucceededRun ==
    \A t \in Tasks : task[t].status = "execution_completed" =>
        /\ task[t].lastRun \in Attempts
        /\ attempt[task[t].lastRun].status = "succeeded"

\* At most one verification of a task runs at a time (createVerificationRun),
\* so the finalisers and recovery never overwrite each other's quality row.
OneRunningVerification ==
    \A v, w \in Verifications :
        /\ verification[v].status = "running"
        /\ verification[w].status = "running"
        /\ verification[v].task = verification[w].task
        => v = w

\* Rows refer to rows: an attempt names its task, a verification a task and a
\* run of it that succeeded (and, attempts being final, still has).
RowsLinked ==
    /\ \A a \in Attempts : attempt[a].status # "absent" => attempt[a].task \in Tasks
    /\ \A v \in Verifications : verification[v].status # "absent" =>
          /\ verification[v].task \in Tasks
          /\ verification[v].target \in Attempts
          /\ attempt[verification[v].target].status = "succeeded"
          /\ attempt[verification[v].target].task = verification[v].task

\* A completed verification that passed a run of task t which succeeded.
Earned(t, v) ==
    /\ v \in Verifications
    /\ verification[v].status = "completed"
    /\ verification[v].verdict = "pass"
    /\ verification[v].task = t
    /\ verification[v].target \in Attempts
    /\ attempt[verification[v].target].status = "succeeded"
    /\ attempt[verification[v].target].task = t

\* Quality `passed` is backed by a passing decision of a completed verification
\* of a successful run of that very task, whichever operation wrote it last.
PassedIsEarned ==
    \A t \in Tasks : quality[t].status = "passed" => Earned(t, quality[t].verification)

\* The conjunction the proofs carry from step to step.
StoreInv ==
    /\ TypeOK
    /\ RowsLinked
    /\ RunningAttemptIsLastRun
    /\ DoneTaskHasSucceededRun
    /\ OneRunningVerification
    /\ PassedIsEarned

\* What a process was told about its lease and is still valid is what the lease
\* table says.
GrantsAreLeases ==
    \A m \in Missions, o \in Owners :
        granted[o][m] > now => lease[m].owner = o /\ lease[m].expires = granted[o][m]

\* Two processes never both hold, by the expiry the store returned to them, a
\* lease of one mission that has not expired.
LeaseExclusive ==
    \A m \in Missions : \A o1, o2 \in Owners :
        granted[o1][m] > now /\ granted[o2][m] > now => o1 = o2

\* A mission becomes completed only if every active task was executed and has a
\* passed verification behind it (the chain of rows the gate itself never reads).
CompletionJustified ==
    [][\A m \in Missions :
          mission[m] # "completed" /\ mission'[m] = "completed" =>
            /\ ActiveTasks(m) # {}
            /\ \A t \in ActiveTasks(m) :
                  /\ attempt[task[t].lastRun].status = "succeeded"
                  /\ \E v \in Verifications : Earned(t, v)]_vars

\* What has ended stays as it ended: attempts, verification runs, verdicts, and
\* the two mission states nothing leads out of.  A late finish after recovery,
\* or a recovery after a finish, changes nothing.
HistoryImmutable ==
    [][/\ \A a \in Attempts : attempt[a].status \in AttemptEnd => attempt'[a] = attempt[a]
       /\ \A v \in Verifications :
            /\ verification[v].status \in VerificationEnd => verification'[v] = verification[v]
            /\ verification[v].status = "running" /\ verification[v].verdict # "none" =>
                  verification'[v].verdict = verification[v].verdict
       /\ \A m \in Missions : mission[m] \in {"completed", "cancelled"} => mission'[m] = mission[m]]_vars

\* While a process holds a live lease of a mission, no other process starts an
\* attempt in it, and no other process's start-up recovery interrupts one.
LiveLeaseShieldsMission ==
    [][\A a \in Attempts, o \in Owners :
          /\ attempt[a].status = "absent" /\ attempt'[a].status = "running"
          /\ granted[o][TaskMission[attempt'[a].task]] > now
          => attempt'[a].owner = o]_vars
RecoverySparesLiveLease ==
    [][RecoverInterrupted =>
          \A a \in Attempts, o \in Owners :
             attempt'[a] # attempt[a] => granted[o][AttemptMission(a)] <= now]_vars
===============================================================================
