-------------------------- MODULE MissionStoreProofs --------------------------
(* Type correctness and the safety properties of MissionStore, for every     *)
(* number of missions, tasks, attempts, verifications, owners and ticks.     *)
EXTENDS MissionStore, TLAPS

-------------------------------------------------------------------------------
(* Type correctness.                                                         *)

\* A row keeps its type when one column is rewritten.
LEMMA TaskRowUpdate ==
  ASSUME NEW r \in TaskRow, NEW s \in TaskStatus
  PROVE  [r EXCEPT !.status = s] \in TaskRow
  BY DEF TaskRow
\* The same of an attempt's status.
LEMMA AttemptRowUpdate ==
  ASSUME NEW r \in AttemptRow, NEW s \in AttemptStatus
  PROVE  [r EXCEPT !.status = s] \in AttemptRow
  BY DEF AttemptRow
\* The same of the status, or the verdict, of a verification run.
LEMMA VerificationRowUpdate ==
  ASSUME NEW r \in VerificationRow, NEW s \in VerificationEnd, NEW d \in Verdict
  PROVE  /\ [r EXCEPT !.status = s] \in VerificationRow
         /\ [r EXCEPT !.verdict = d] \in VerificationRow
         /\ [r EXCEPT !.status = s, !.verdict = d] \in VerificationRow
  BY DEF VerificationRow

\* The initial rows are well typed.
LEMMA InitTypeOK == Init => TypeOK
  BY ClockBounds, NoIdIsNull
  DEF Init, TypeOK, NoTask, NoAttempt, NoLease, NoVerification, NoQuality, Time,
      TaskRow, AttemptRow, LeaseRow, VerificationRow, QualityRow

\* Interruption keeps the tables well typed.
LEMMA InterruptTypeOK ==
  ASSUME TypeOK, NEW as \in SUBSET Attempts, NEW vs \in SUBSET Verifications,
         NEW ms, InterruptWork(as, vs, ms)
  PROVE  /\ mission' \in [Missions -> MissionStatus \cup {"absent"}]
         /\ task' \in [Tasks -> TaskRow]
         /\ attempt' \in [Attempts -> AttemptRow]
         /\ verification' \in [Verifications -> VerificationRow]
         /\ quality' \in [Tasks -> QualityRow]
         /\ now' = now
  <1>1. mission' \in [Missions -> MissionStatus \cup {"absent"}]
    BY DEF TypeOK, InterruptWork, MissionStatus
  <1>2. task' \in [Tasks -> TaskRow]
    <2>1. \A t \in Tasks : [task[t] EXCEPT !.status = "interrupted"] \in TaskRow
      BY TaskRowUpdate DEF TypeOK, TaskStatus
    <2>2. QED BY <2>1 DEF TypeOK, InterruptWork
  <1>3. attempt' \in [Attempts -> AttemptRow]
    <2>1. \A a \in Attempts : [attempt[a] EXCEPT !.status = "interrupted"] \in AttemptRow
      BY AttemptRowUpdate DEF TypeOK, AttemptStatus, AttemptEnd
    <2>2. QED BY <2>1 DEF TypeOK, InterruptWork
  <1>4. verification' \in [Verifications -> VerificationRow]
    <2>1. \A v \in Verifications :
            [verification[v] EXCEPT !.status = "interrupted"] \in VerificationRow
      BY VerificationRowUpdate DEF TypeOK, VerificationEnd, Verdict
    <2>2. QED BY <2>1 DEF TypeOK, InterruptWork
  <1>5. quality' \in [Tasks -> QualityRow]
    <2>1. ASSUME NEW t \in Tasks, \E v \in vs : verification[v].task = t
          PROVE  [status |-> "review_required",
                  verification |-> CHOOSE v \in vs : verification[v].task = t,
                  decision |-> quality[t].decision] \in QualityRow
      <3>1. (CHOOSE v \in vs : verification[v].task = t) \in Verifications
        BY <2>1
      <3>2. quality[t].decision \in Verifications \cup {NoId}
        BY DEF TypeOK, QualityRow
      <3>3. QED BY <3>1, <3>2 DEF QualityRow, QualityStatus
    <2>2. QED BY <2>1 DEF TypeOK, InterruptWork
  <1>6. QED BY <1>1, <1>2, <1>3, <1>4, <1>5 DEF InterruptWork

\* Type correctness is inductive.
LEMMA StepTypeOK == TypeOK /\ [Next]_vars => TypeOK'
  <1> SUFFICES ASSUME TypeOK, [Next]_vars PROVE TypeOK'
    OBVIOUS
  <1>1. CASE UNCHANGED vars
    BY <1>1 DEF vars, TypeOK
  <1>2. CASE MissionStep
    <2>1. ASSUME NEW m \in Missions, CreateMission(m) PROVE TypeOK'
      BY <2>1 DEF CreateMission, TypeOK, MissionStatus
    <2>2. ASSUME NEW m \in Missions, NEW s \in MissionStatus, NEW actor,
                 TransitionMission(m, s, actor)
          PROVE TypeOK'
      BY <2>2 DEF TransitionMission, TypeOK
    <2>3. QED BY <1>2, <2>1, <2>2 DEF MissionStep
  <1>3. CASE TaskStep
    <2>1. ASSUME NEW t \in Tasks, NEW s \in {"pending", "planned"}, CreateTask(t, s) PROVE TypeOK'
      <3>1. [task[t] EXCEPT !.status = s] \in TaskRow /\ Unverified \in QualityRow
        BY TaskRowUpdate DEF TypeOK, TaskStatus, Unverified, QualityRow, QualityStatus
      <3>2. QED BY <2>1, <3>1 DEF CreateTask, TypeOK
    <2>2. ASSUME NEW t \in Tasks, NEW s \in {"blocked", "cancelled"}, FinishTask(t, s) PROVE TypeOK'
      <3>1. [task[t] EXCEPT !.status = s] \in TaskRow
        BY TaskRowUpdate DEF TypeOK, TaskStatus
      <3>2. QED BY <2>2, <3>1 DEF FinishTask, TypeOK
    <2>3. ASSUME NEW t \in Tasks, NEW a \in Attempts, NEW o \in Owners \cup {NoId},
                 CreateAttempt(a, t, o)
          PROVE TypeOK'
      <3>1. now + LeaseTtl \in Time /\ 0 \in Time
        BY ClockBounds DEF TypeOK, Time
      <3>2. /\ [status |-> "running", task |-> t, owner |-> o,
                expires |-> IF o = NoId THEN 0 ELSE now + LeaseTtl] \in AttemptRow
            /\ [status |-> "running", lastRun |-> a] \in TaskRow
            /\ Unverified \in QualityRow
        BY <3>1 DEF AttemptRow, AttemptStatus, TaskRow, TaskStatus, Unverified, QualityRow, QualityStatus
      <3>3. QED BY <2>3, <3>2 DEF CreateAttempt, TypeOK
    <2>4. QED BY <1>3, <2>1, <2>2, <2>3 DEF TaskStep
  <1>4. CASE AttemptStep
    <2>1. PICK a \in Attempts, s \in AttemptEnd : FinishAttempt(a, s)
      BY <1>4 DEF AttemptStep
    <2>2. TaskStatusAfter(s) \in TaskStatus
      BY DEF TaskStatusAfter, TaskStatus, AttemptEnd
    <2>3. /\ [attempt[a] EXCEPT !.status = s] \in AttemptRow
          /\ \A t \in Tasks : [task[t] EXCEPT !.status = TaskStatusAfter(s)] \in TaskRow
      BY <2>2, AttemptRowUpdate, TaskRowUpdate DEF TypeOK, AttemptStatus
    <2>4. QED BY <2>1, <2>3 DEF FinishAttempt, TypeOK
  <1>5. CASE QualityStep
    <2>0. \A d \in Verdict \cup {"none"} : QualityOf(d) \in QualityStatus
      BY DEF QualityOf, QualityStatus, Verdict
    <2>1. ASSUME NEW v \in Verifications, NEW t \in Tasks, NEW a \in Attempts,
                 CreateVerificationRun(v, t, a)
          PROVE TypeOK'
      <3>1. [status |-> "running", task |-> t, target |-> a, verdict |-> "none"] \in VerificationRow
        BY DEF VerificationRow
      <3>2. QED BY <2>1, <3>1 DEF CreateVerificationRun, TypeOK
    <2>2. ASSUME NEW v \in Verifications, NEW t \in Tasks, NEW q \in ServiceRows(v),
                 SetTaskQualityStatus(t, q)
          PROVE TypeOK'
      <3>1. verification[v].verdict \in Verdict \cup {"none"}
        BY DEF TypeOK, VerificationRow
      <3>2. q \in QualityRow
        BY <2>0, <3>1 DEF ServiceRows, QualityStatus, QualityRow
      <3>3. QED BY <2>2, <3>2 DEF SetTaskQualityStatus, TypeOK
    <2>3. ASSUME NEW v \in Verifications, NEW d \in Verdict, RecordQualityDecision(v, d)
          PROVE TypeOK'
      <3>1. [verification[v] EXCEPT !.verdict = d] \in VerificationRow
        BY VerificationRowUpdate DEF TypeOK, VerificationEnd
      <3>2. QED BY <2>3, <3>1 DEF RecordQualityDecision, TypeOK
    <2>4. ASSUME NEW v \in Verifications, NEW d \in Verdict, FinalizeQualityVerification(v, d)
          PROVE TypeOK'
      <3>1. [verification[v] EXCEPT !.status = "completed", !.verdict = d] \in VerificationRow
        BY VerificationRowUpdate DEF TypeOK, VerificationEnd
      <3>2. [status |-> QualityOf(d), verification |-> v, decision |-> v] \in QualityRow
        BY <2>0 DEF QualityRow
      <3>3. QED BY <2>4, <3>1, <3>2 DEF FinalizeQualityVerification, TypeOK
    <2>5. ASSUME NEW v \in Verifications, NEW s \in {"review_required", "blocked"},
                 FinalizeQualityFailure(v, s)
          PROVE TypeOK'
      <3>1. [verification[v] EXCEPT !.status =
                 IF s = "review_required" THEN "interrupted" ELSE "blocked"] \in VerificationRow
        BY VerificationRowUpdate DEF TypeOK, VerificationEnd, Verdict
      <3>2. [status |-> s, verification |-> v, decision |-> NoId] \in QualityRow
        BY DEF QualityRow, QualityStatus
      <3>3. QED BY <2>5, <3>1, <3>2 DEF FinalizeQualityFailure, TypeOK
    <2>6. QED BY <1>5, <2>1, <2>2, <2>3, <2>4, <2>5 DEF QualityStep
  <1>6. CASE LeaseStep
    <2>0. ASSUME NEW m \in Missions, NEW o \in Owners, Grant(m, o) \/ Withdraw(m, o)
          PROVE  lease' \in [Missions -> LeaseRow] /\ granted' \in [Owners -> [Missions -> Time]]
      <3>1. now + LeaseTtl \in Time /\ 0 \in Time
        BY ClockBounds DEF TypeOK, Time
      <3>2. /\ [owner |-> o, expires |-> now + LeaseTtl] \in LeaseRow
            /\ NoLease \in LeaseRow
        BY <3>1 DEF LeaseRow, NoLease
      <3>3. CASE Grant(m, o)
        BY <3>1, <3>2, <3>3 DEF Grant, TypeOK
      <3>4. CASE Withdraw(m, o)
        BY <3>1, <3>2, <3>4 DEF Withdraw, TypeOK
      <3>5. QED BY <2>0, <3>3, <3>4
    <2>1. ASSUME NEW m \in Missions, NEW o \in Owners, AcquireLease(m, o) PROVE TypeOK'
      BY <2>0, <2>1 DEF AcquireLease, TypeOK, rows
    <2>2. ASSUME NEW m \in Missions, NEW o \in Owners, ClaimMissionExecution(m, o) PROVE TypeOK'
      BY <2>0, <2>2 DEF ClaimMissionExecution, TypeOK, MissionStatus
    <2>3. ASSUME NEW m \in Missions, NEW o \in Owners, HeartbeatLease(m, o) PROVE TypeOK'
      BY <2>0, <2>3 DEF HeartbeatLease, TypeOK, rows
    <2>4. ASSUME NEW m \in Missions, NEW o \in Owners, ReleaseLease(m, o) PROVE TypeOK'
      BY <2>0, <2>4 DEF ReleaseLease, TypeOK, rows
    <2>5. ASSUME NEW m \in Missions, NEW o \in Owners, InterruptOwnedExecution(m, o) PROVE TypeOK'
      BY <2>0, <2>5, InterruptTypeOK DEF InterruptOwnedExecution, TypeOK
    <2>6. QED BY <1>6, <2>1, <2>2, <2>3, <2>4, <2>5 DEF LeaseStep
  <1>7. CASE RecoveryStep
    <2>1. ASSUME NEW as \in SUBSET Attempts, NEW vs \in SUBSET Verifications,
                 NEW ms, InterruptWork(as, vs, ms),
                 UNCHANGED <<lease, granted>>
          PROVE TypeOK'
      BY <2>1, InterruptTypeOK DEF TypeOK
    <2>2. QED BY <1>7, <2>1 DEF RecoveryStep, RecoverInterrupted, RecoverOwner,
                              OrphanedAttempts, OrphanedVerifications
  <1>8. CASE Tick
    BY <1>8, ClockBounds DEF Tick, TypeOK, rows
  <1>9. QED BY <1>1, <1>2, <1>3, <1>4, <1>5, <1>6, <1>7, <1>8 DEF Next

\* Every table keeps its columns' types in every reachable state.
THEOREM TypeCorrect == Spec => []TypeOK
  BY InitTypeOK, StepTypeOK, PTL DEF Spec

-------------------------------------------------------------------------------
(* The rows invariant.  StoreInv is inductive as it stands: each conjunct    *)
(* uses the others (a done task's last run, for instance, is the attempt     *)
(* that was running, and an earned pass names a target that stays succeeded).*)

\* The empty database is consistent.
LEMMA InitStoreInv == Init => StoreInv
  BY InitTypeOK
  DEF Init, StoreInv, RowsLinked, RunningAttemptIsLastRun, DoneTaskHasSucceededRun,
      OneRunningVerification, PassedIsEarned, NoTask, NoAttempt, NoVerification, NoQuality

\* Interruption of running attempts and verifications keeps the rows consistent.
LEMMA InterruptStoreInv ==
  ASSUME StoreInv, TypeOK', NEW as \in SUBSET Attempts, NEW vs \in SUBSET Verifications, NEW ms,
         \A a \in as : attempt[a].status = "running",
         \A v \in vs : verification[v].status = "running",
         InterruptWork(as, vs, ms)
  PROVE  StoreInv'
  <1>1. \A a \in Attempts :
          /\ attempt'[a].task = attempt[a].task
          /\ attempt'[a].status # attempt[a].status =>
                attempt[a].status = "running" /\ attempt'[a].status = "interrupted"
    BY DEF InterruptWork, StoreInv, TypeOK, AttemptRow
  <1>2. \A t \in Tasks :
          /\ task'[t].lastRun = task[t].lastRun
          /\ task'[t].status \in {task[t].status, "interrupted"}
    BY DEF InterruptWork, StoreInv, TypeOK, TaskRow
  <1>3. \A v \in Verifications :
          /\ verification'[v].task = verification[v].task
          /\ verification'[v].target = verification[v].target
          /\ verification'[v].verdict = verification[v].verdict
          /\ verification'[v].status # verification[v].status =>
                verification[v].status = "running" /\ verification'[v].status = "interrupted"
    BY DEF InterruptWork, StoreInv, TypeOK, VerificationRow
  <1>4. \A t \in Tasks : quality'[t].status # "review_required" => quality'[t] = quality[t]
    BY DEF InterruptWork
  <1>5. RowsLinked'
    BY <1>1, <1>3 DEF StoreInv, RowsLinked
  <1>6. RunningAttemptIsLastRun'
    BY <1>1, <1>2 DEF StoreInv, RunningAttemptIsLastRun, RowsLinked
  <1>7. DoneTaskHasSucceededRun'
    BY <1>1, <1>2 DEF StoreInv, DoneTaskHasSucceededRun
  <1>8. OneRunningVerification'
    BY <1>3 DEF StoreInv, OneRunningVerification
  <1>9. PassedIsEarned'
    BY <1>1, <1>3, <1>4 DEF StoreInv, PassedIsEarned, Earned
  <1>10. QED BY <1>5, <1>6, <1>7, <1>8, <1>9 DEF StoreInv

\* Every step of the store preserves the rows invariant.
LEMMA StepStoreInv == StoreInv /\ [Next]_vars => StoreInv'
  <1> SUFFICES ASSUME StoreInv, [Next]_vars PROVE StoreInv'
    OBVIOUS
  <1> USE DEF StoreInv
  <1>0. TypeOK'
    BY StepTypeOK
  <1>1. ASSUME UNCHANGED <<task, attempt, verification, quality>> PROVE StoreInv'
    BY <1>0, <1>1 DEF RowsLinked, RunningAttemptIsLastRun, DoneTaskHasSucceededRun,
        OneRunningVerification, PassedIsEarned, Earned
  <1>2. CASE MissionStep
    BY <1>1, <1>2 DEF MissionStep, CreateMission, TransitionMission
  <1>3. CASE TaskStep
    <2>1. ASSUME NEW t \in Tasks, NEW s \in {"pending", "planned", "blocked", "cancelled"},
                 CreateTask(t, s) \/ FinishTask(t, s)
          PROVE  StoreInv'
      <3>1. /\ \A u \in Tasks : /\ task'[u].lastRun = task[u].lastRun
                                /\ task'[u].status = "execution_completed" =>
                                      task[u].status = "execution_completed"
            /\ \A u \in Tasks : quality'[u].status # "unverified" => quality'[u] = quality[u]
            /\ UNCHANGED <<attempt, verification>>
        <4>1. /\ task' = [task EXCEPT ![t].status = s]
              /\ quality' \in {quality, [quality EXCEPT ![t] = Unverified]}
              /\ UNCHANGED <<attempt, verification>>
          BY <2>1 DEF CreateTask, FinishTask
        <4>2. \A u \in Tasks : task'[u].lastRun = task[u].lastRun
          BY <4>1 DEF TypeOK, TaskRow
        <4>3. \A u \in Tasks : task'[u].status \in {task[u].status, s}
          BY <4>1 DEF TypeOK, TaskRow
        <4>4. QED BY <4>1, <4>2, <4>3 DEF TypeOK, Unverified
      <3>2. RowsLinked' /\ OneRunningVerification'
        BY <3>1 DEF RowsLinked, OneRunningVerification
      <3>3. RunningAttemptIsLastRun' /\ DoneTaskHasSucceededRun'
        BY <3>1 DEF RunningAttemptIsLastRun, DoneTaskHasSucceededRun, RowsLinked
      <3>4. PassedIsEarned'
        BY <3>1 DEF PassedIsEarned, Earned
      <3>5. QED BY <1>0, <3>2, <3>3, <3>4
    <2>2. ASSUME NEW t \in Tasks, NEW a \in Attempts, NEW o \in Owners \cup {NoId},
                 CreateAttempt(a, t, o)
          PROVE  StoreInv'
      <3>1. /\ attempt[a].status = "absent"
            /\ attempt'[a].status = "running" /\ attempt'[a].task = t
            /\ \A b \in Attempts \ {a} : attempt'[b] = attempt[b]
            /\ task'[t].status = "running" /\ task'[t].lastRun = a
            /\ \A u \in Tasks \ {t} : task'[u] = task[u]
            /\ \A u \in Tasks : quality'[u].status # "unverified" => quality'[u] = quality[u]
            /\ verification' = verification
        BY <2>2 DEF CreateAttempt, TypeOK, Unverified
      <3>2. \A b \in Attempts : attempt[b].status = "running" => attempt[b].task # t
        BY <2>2 DEF CreateAttempt, RunningAttempts
      <3>3. RowsLinked' /\ OneRunningVerification'
        BY <3>1 DEF RowsLinked, OneRunningVerification
      <3>4. RunningAttemptIsLastRun' /\ DoneTaskHasSucceededRun'
        BY <3>1, <3>2 DEF RunningAttemptIsLastRun, DoneTaskHasSucceededRun, RowsLinked
      <3>5. PassedIsEarned'
        BY <3>1 DEF PassedIsEarned, Earned
      <3>6. QED BY <1>0, <3>3, <3>4, <3>5
    <2>3. QED BY <1>3, <2>1, <2>2 DEF TaskStep
  <1>4. CASE AttemptStep
    <2>1. PICK a \in Attempts, s \in AttemptEnd : FinishAttempt(a, s)
      BY <1>4 DEF AttemptStep
    <2>2. /\ attempt[a].status = "running"
          /\ attempt'[a].status = s /\ attempt'[a].task = attempt[a].task
          /\ \A b \in Attempts \ {a} : attempt'[b] = attempt[b]
          /\ \A u \in Tasks : task'[u].lastRun = task[u].lastRun
          /\ \A u \in Tasks \ {attempt[a].task} : task'[u] = task[u]
          /\ attempt[a].task \in Tasks => task'[attempt[a].task].status = TaskStatusAfter(s)
          /\ UNCHANGED <<verification, quality>>
      BY <2>1 DEF FinishAttempt, TypeOK, AttemptRow, TaskRow
    <2>3. s # "running" /\ (TaskStatusAfter(s) = "execution_completed" => s = "succeeded")
      BY DEF AttemptEnd, TaskStatusAfter
    <2>4. RowsLinked' /\ OneRunningVerification'
      BY <2>2 DEF RowsLinked, OneRunningVerification
    <2>5. RunningAttemptIsLastRun'
      BY <2>2, <2>3 DEF RunningAttemptIsLastRun, RowsLinked
    <2>6. DoneTaskHasSucceededRun'
      BY <2>2, <2>3 DEF RunningAttemptIsLastRun, DoneTaskHasSucceededRun, RowsLinked
    <2>7. PassedIsEarned'
      BY <2>2 DEF PassedIsEarned, Earned
    <2>8. QED BY <1>0, <2>4, <2>5, <2>6, <2>7
  <1>5. CASE QualityStep
    <2>0. ASSUME UNCHANGED <<task, attempt>>
          PROVE  RunningAttemptIsLastRun' /\ DoneTaskHasSucceededRun'
      BY <2>0 DEF RunningAttemptIsLastRun, DoneTaskHasSucceededRun
    <2>1. ASSUME NEW v \in Verifications, NEW t \in Tasks, NEW a \in Attempts,
                 CreateVerificationRun(v, t, a)
          PROVE  StoreInv'
      <3>1. /\ verification[v].status = "absent"
            /\ verification'[v] = [status |-> "running", task |-> t, target |-> a, verdict |-> "none"]
            /\ \A w \in Verifications \ {v} : verification'[w] = verification[w]
            /\ attempt[a].status = "succeeded" /\ attempt[a].task = t
            /\ RunningVerifications(t) = {}
            /\ UNCHANGED <<task, attempt, quality>>
        BY <2>1 DEF CreateVerificationRun, TypeOK
      <3>2. RowsLinked'
        BY <3>1 DEF RowsLinked
      <3>3. OneRunningVerification'
        BY <3>1 DEF OneRunningVerification, RunningVerifications
      <3>4. PassedIsEarned'
        BY <3>1 DEF PassedIsEarned, Earned
      <3>5. QED BY <1>0, <2>0, <3>1, <3>2, <3>3, <3>4
    <2>2. ASSUME NEW v \in Verifications, NEW t \in Tasks, NEW q \in ServiceRows(v),
                 SetTaskQualityStatus(t, q)
          PROVE  StoreInv'
      <3>1. /\ quality'[t] = q
            /\ \A u \in Tasks \ {t} : quality'[u] = quality[u]
            /\ UNCHANGED <<task, attempt, verification>>
        BY <2>2 DEF SetTaskQualityStatus, TypeOK
      <3>2. q.status = "passed" => Earned(t, q.verification)
        <4>1. v # NoId
          BY NoIdIsNull
        <4>2. q.status = "passed" => q.verification = v /\ q.decision = v
          BY DEF ServiceRows
        <4>3. q.status = "passed" => /\ verification[v].task = t
                                     /\ verification[v].verdict = "pass"
                                     /\ verification[v].status = "completed"
          BY <2>2, <4>1, <4>2 DEF SetTaskQualityStatus, QualityAccepted
        <4>4. QED BY <4>2, <4>3 DEF Earned, RowsLinked
      <3>3. PassedIsEarned'
        BY <3>1, <3>2 DEF PassedIsEarned, Earned
      <3>4. RowsLinked' /\ OneRunningVerification'
        BY <3>1 DEF RowsLinked, OneRunningVerification
      <3>5. QED BY <1>0, <2>0, <3>1, <3>3, <3>4
    <2>3. ASSUME NEW v \in Verifications, NEW d \in Verdict, RecordQualityDecision(v, d)
          PROVE  StoreInv'
      <3>1. /\ verification[v].status = "running"
            /\ \A w \in Verifications : /\ verification'[w].status = verification[w].status
                                        /\ verification'[w].task = verification[w].task
                                        /\ verification'[w].target = verification[w].target
                                        /\ w # v => verification'[w].verdict = verification[w].verdict
            /\ UNCHANGED <<task, attempt, quality>>
        BY <2>3 DEF RecordQualityDecision, Decidable, TypeOK, VerificationRow
      <3>2. RowsLinked' /\ OneRunningVerification'
        BY <3>1 DEF RowsLinked, OneRunningVerification
      <3>3. PassedIsEarned'
        BY <3>1 DEF PassedIsEarned, Earned
      <3>4. QED BY <1>0, <2>0, <3>1, <3>2, <3>3
    <2>4. ASSUME NEW v \in Verifications, NEW d \in Verdict, FinalizeQualityVerification(v, d)
          PROVE  StoreInv'
      <3> DEFINE t == verification[v].task
      <3>1. /\ verification[v].status = "running" /\ v # NoId
            /\ verification'[v].status = "completed" /\ verification'[v].verdict = d
            /\ verification'[v].task = t /\ verification'[v].target = verification[v].target
            /\ \A w \in Verifications \ {v} : verification'[w] = verification[w]
            /\ quality' = [quality EXCEPT ![t] =
                             [status |-> QualityOf(d), verification |-> v, decision |-> v]]
            /\ UNCHANGED <<task, attempt>>
        BY <2>4, NoIdIsNull DEF FinalizeQualityVerification, Decidable, TypeOK, VerificationRow
      <3>2. RowsLinked' /\ OneRunningVerification'
        BY <3>1 DEF RowsLinked, OneRunningVerification
      <3>3. QualityOf(d) = "passed" => d = "pass"
        BY DEF QualityOf
      <3>4. \A u \in Tasks : quality'[u].status = "passed" =>
              \/ u # t /\ quality'[u] = quality[u]
              \/ u = t /\ quality'[u].verification = v /\ d = "pass"
        BY <3>1, <3>3 DEF TypeOK
      <3>5. PassedIsEarned'
        BY <3>1, <3>4 DEF PassedIsEarned, Earned, RowsLinked
      <3>6. QED BY <1>0, <2>0, <3>1, <3>2, <3>5
    <2>5. ASSUME NEW v \in Verifications, NEW s \in {"review_required", "blocked"},
                 FinalizeQualityFailure(v, s)
          PROVE  StoreInv'
      <3>1. /\ verification[v].status = "running"
            /\ verification'[v].status # "running"
            /\ verification'[v].status # "absent"
            /\ verification'[v].task = verification[v].task
            /\ verification'[v].target = verification[v].target
            /\ \A w \in Verifications \ {v} : verification'[w] = verification[w]
            /\ \A u \in Tasks : quality'[u].status = "passed" => quality'[u] = quality[u]
            /\ UNCHANGED <<task, attempt>>
        BY <2>5 DEF FinalizeQualityFailure, TypeOK, VerificationRow
      <3>2. RowsLinked' /\ OneRunningVerification'
        BY <3>1 DEF RowsLinked, OneRunningVerification
      <3>3. PassedIsEarned'
        BY <3>1 DEF PassedIsEarned, Earned
      <3>4. QED BY <1>0, <2>0, <3>1, <3>2, <3>3
    <2>6. QED BY <1>5, <2>1, <2>2, <2>3, <2>4, <2>5 DEF QualityStep
  <1>6. CASE LeaseStep
    <2>1. ASSUME NEW m \in Missions, NEW o \in Owners, InterruptOwnedExecution(m, o) PROVE StoreInv'
      BY <1>0, <2>1, InterruptStoreInv DEF InterruptOwnedExecution
    <2>2. QED BY <1>1, <1>6, <2>1
             DEF LeaseStep, AcquireLease, ClaimMissionExecution, HeartbeatLease, ReleaseLease, rows
  <1>7. CASE RecoveryStep
    <2>1. ASSUME RecoverInterrupted PROVE StoreInv'
      BY <1>0, <2>1, InterruptStoreInv
         DEF RecoverInterrupted, OrphanedAttempts, OrphanedVerifications
    <2>2. ASSUME NEW o \in Owners, RecoverOwner(o) PROVE StoreInv'
      BY <1>0, <2>2, InterruptStoreInv DEF RecoverOwner, OrphanedVerifications
    <2>3. QED BY <1>7, <2>1, <2>2 DEF RecoveryStep
  <1>8. CASE Tick \/ UNCHANGED vars
    BY <1>1, <1>8 DEF Tick, rows, vars
  <1>9. QED BY <1>2, <1>3, <1>4, <1>5, <1>6, <1>7, <1>8 DEF Next

\* The rows of the store are consistent in every reachable state: references,
\* the last run of a task, one verification at a time, and earned passes.
THEOREM StoreCorrect == Spec => []StoreInv
  BY InitStoreInv, StepStoreInv, PTL DEF Spec

\* A task called execution_completed has a last run that succeeded.
THEOREM DoneTasksSucceeded == Spec => []DoneTaskHasSucceededRun
  BY StoreCorrect, PTL DEF StoreInv

\* A running attempt is its task's last run, so finishAttempt, which writes the
\* status of the task it finds on the attempt, never speaks for a run that has
\* been replaced (index.ts, startAttempt and finishAttempt).
THEOREM RunningIsLast == Spec => []RunningAttemptIsLastRun
  BY StoreCorrect, PTL DEF StoreInv

\* A task never has two verifications running.
THEOREM VerificationsExclude == Spec => []OneRunningVerification
  BY StoreCorrect, PTL DEF StoreInv

\* Quality `passed` always rests on a completed passing verification of a run of
\* that task which succeeded.
THEOREM PassesAreEarned == Spec => []PassedIsEarned
  BY StoreCorrect, PTL DEF StoreInv

-------------------------------------------------------------------------------
(* Leases.  What the processes were told (granted) stays within what the     *)
(* lease table says; exclusion follows because the table has one owner.      *)

\* Granting or withdrawing a lease keeps the other owners' grants truthful.
LEMMA StepGrants == TypeOK /\ GrantsAreLeases /\ [Next]_vars => GrantsAreLeases'
  <1> SUFFICES ASSUME TypeOK, GrantsAreLeases, [Next]_vars PROVE GrantsAreLeases'
    OBVIOUS
  <1>1. ASSUME UNCHANGED <<lease, granted, now>> PROVE GrantsAreLeases'
    BY <1>1 DEF GrantsAreLeases
  <1>2. CASE Tick
    <2>1. /\ now \in Nat /\ now' = now + 1 /\ UNCHANGED <<lease, granted>>
          /\ \A m \in Missions, o \in Owners : granted[o][m] \in Nat
      BY <1>2, ClockBounds DEF Tick, TypeOK, Time
    <2>2. QED BY <2>1 DEF GrantsAreLeases
  <1>3. CASE LeaseStep
    <2>1. ASSUME NEW m \in Missions, NEW o \in Owners, Acquirable(m, o), Grant(m, o), now' = now
          PROVE  GrantsAreLeases'
      <3>1. /\ lease'[m] = [owner |-> o, expires |-> now + LeaseTtl]
            /\ \A n \in Missions \ {m} : lease'[n] = lease[n]
            /\ granted'[o][m] = now + LeaseTtl
            /\ \A n \in Missions, p \in Owners :
                 n # m \/ p # o => granted'[p][n] = granted[p][n]
        BY <2>1 DEF Grant, TypeOK
      <3>2. \A p \in Owners : granted[p][m] > now => p = o
        BY <2>1 DEF GrantsAreLeases, Acquirable, LeaseLive
      <3>3. QED BY <2>1, <3>1, <3>2 DEF GrantsAreLeases
    <2>2. ASSUME NEW m \in Missions, NEW o \in Owners,
                 lease[m].owner = o, Withdraw(m, o), now' = now
          PROVE  GrantsAreLeases'
      <3>1. /\ \A n \in Missions \ {m} : lease'[n] = lease[n]
            /\ granted'[o][m] = 0
            /\ \A n \in Missions, p \in Owners :
                 n # m \/ p # o => granted'[p][n] = granted[p][n]
        BY <2>2 DEF Withdraw, TypeOK
      <3>2. \A p \in Owners : granted[p][m] > now => p = o
        BY <2>2 DEF GrantsAreLeases
      <3>3. ~(granted'[o][m] > now)
        BY <3>1, ClockBounds DEF TypeOK
      <3>4. QED BY <2>2, <3>1, <3>2, <3>3 DEF GrantsAreLeases
    <2>3. ASSUME NEW m \in Missions, NEW o \in Owners, HeartbeatLease(m, o) PROVE Acquirable(m, o)
      BY <2>3 DEF HeartbeatLease, Acquirable
    <2>4. QED BY <1>3, <2>1, <2>2, <2>3
             DEF LeaseStep, AcquireLease, ClaimMissionExecution, HeartbeatLease, ReleaseLease,
                 InterruptOwnedExecution, InterruptWork
  <1>4. CASE MissionStep \/ TaskStep \/ AttemptStep
    BY <1>1, <1>4 DEF MissionStep, CreateMission, TransitionMission, TaskStep, CreateTask,
       FinishTask, CreateAttempt, AttemptStep, FinishAttempt
  <1>5. CASE QualityStep
    BY <1>1, <1>5 DEF QualityStep, CreateVerificationRun, SetTaskQualityStatus,
       RecordQualityDecision, FinalizeQualityVerification, FinalizeQualityFailure
  <1>6. CASE RecoveryStep
    BY <1>1, <1>6 DEF RecoveryStep, RecoverInterrupted, RecoverOwner, InterruptWork
  <1>7. CASE UNCHANGED vars
    BY <1>1, <1>7 DEF vars
  <1>8. QED BY <1>2, <1>3, <1>4, <1>5, <1>6, <1>7 DEF Next

\* A lease a process still believes in is the one the table records.
THEOREM GrantsTruthful == Spec => []GrantsAreLeases
  <1>1. Init => GrantsAreLeases
    BY DEF Init, GrantsAreLeases
  <1>2. QED BY <1>1, StepGrants, TypeCorrect, PTL DEF Spec

\* Mutual exclusion of mission leases: however acquisition, claims, heartbeats,
\* releases, expiry and recovery interleave, two owners never both hold one.
THEOREM LeasesExclude == Spec => []LeaseExclusive
  <1>1. GrantsAreLeases => LeaseExclusive
    BY DEF GrantsAreLeases, LeaseExclusive
  <1>2. QED BY <1>1, GrantsTruthful, PTL

-------------------------------------------------------------------------------
(* Action properties: what no step of the store may do.                      *)

\* What a step does to an attempt: creation with the mission's lease respected,
\* the end of a running one, or nothing.
LEMMA AttemptStepCases ==
  ASSUME StoreInv, [Next]_vars, NEW a \in Attempts
  PROVE  \/ attempt'[a] = attempt[a]
         \/ /\ attempt[a].status = "absent"
            /\ \E t \in Tasks, o \in Owners \cup {NoId} : CreateAttempt(a, t, o)
         \/ attempt[a].status = "running" /\ attempt'[a].status # "running"
  <1>1. CASE UNCHANGED attempt
    BY <1>1
  <1>2. CASE MissionStep \/ QualityStep \/ Tick \/ UNCHANGED vars
    BY <1>1, <1>2 DEF MissionStep, CreateMission, TransitionMission, QualityStep,
       CreateVerificationRun, SetTaskQualityStatus, RecordQualityDecision,
       FinalizeQualityVerification, FinalizeQualityFailure, Tick, rows, vars
  <1>3. CASE TaskStep
    <2>1. ASSUME NEW t \in Tasks, NEW b \in Attempts, NEW o \in Owners \cup {NoId},
                 CreateAttempt(b, t, o)
          PROVE  attempt'[a] = attempt[a] \/ (attempt[a].status = "absent" /\ a = b)
      <3>1. CASE a = b
        BY <2>1, <3>1 DEF CreateAttempt
      <3>2. CASE a # b
        BY <2>1, <3>2 DEF CreateAttempt, StoreInv, TypeOK
      <3>3. QED BY <3>1, <3>2
    <2>2. QED BY <1>1, <1>3, <2>1 DEF TaskStep, CreateTask, FinishTask
  <1>4. CASE AttemptStep
    BY <1>4 DEF AttemptStep, FinishAttempt, StoreInv, TypeOK, AttemptRow, AttemptEnd
  <1>5. ASSUME NEW as \in SUBSET Attempts, NEW vs, NEW ms, InterruptWork(as, vs, ms),
               \A b \in as : attempt[b].status = "running"
        PROVE  \/ attempt'[a] = attempt[a]
               \/ attempt[a].status = "running" /\ attempt'[a].status # "running"
    BY <1>5 DEF InterruptWork, StoreInv, TypeOK, AttemptRow
  <1>6. CASE LeaseStep
    <2>1. ASSUME NEW m \in Missions, NEW o \in Owners, InterruptOwnedExecution(m, o)
          PROVE  \/ attempt'[a] = attempt[a]
                 \/ attempt[a].status = "running" /\ attempt'[a].status # "running"
      BY <1>5, <2>1 DEF InterruptOwnedExecution
    <2>2. QED BY <1>1, <1>6, <2>1
             DEF LeaseStep, AcquireLease, ClaimMissionExecution, HeartbeatLease, ReleaseLease, rows
  <1>7. CASE RecoveryStep
    <2>1. CASE RecoverInterrupted
      BY <1>5, <2>1 DEF RecoverInterrupted, OrphanedAttempts
    <2>2. ASSUME NEW o \in Owners, RecoverOwner(o)
          PROVE  \/ attempt'[a] = attempt[a]
                 \/ attempt[a].status = "running" /\ attempt'[a].status # "running"
      BY <1>5, <2>2 DEF RecoverOwner
    <2>3. QED BY <1>7, <2>1, <2>2 DEF RecoveryStep
  <1>8. QED BY <1>2, <1>3, <1>4, <1>6, <1>7 DEF Next

\* While one process holds a live lease of a mission, no attempt is started in
\* it by another process, nor by one that passes no lease owner at all.
THEOREM LeaseShieldsMission == Spec => LiveLeaseShieldsMission
  <1> DEFINE Shielded ==
        \A a \in Attempts, o \in Owners :
          /\ attempt[a].status = "absent" /\ attempt'[a].status = "running"
          /\ granted[o][TaskMission[attempt'[a].task]] > now
          => attempt'[a].owner = o
  <1>1. StoreInv /\ GrantsAreLeases /\ [Next]_vars => Shielded
    <2> SUFFICES ASSUME StoreInv, GrantsAreLeases, [Next]_vars,
                        NEW a \in Attempts, NEW o \in Owners,
                        attempt[a].status = "absent", attempt'[a].status = "running",
                        granted[o][TaskMission[attempt'[a].task]] > now
                 PROVE  attempt'[a].owner = o
      OBVIOUS
    <2>1. PICK t \in Tasks, p \in Owners \cup {NoId} : CreateAttempt(a, t, p)
      BY AttemptStepCases
    <2>2. attempt'[a].task = t /\ attempt'[a].owner = p
      BY <2>1 DEF CreateAttempt, StoreInv, TypeOK
    <2>3. LeaseLive(TaskMission[t]) /\ lease[TaskMission[t]].owner = o
      BY <2>2, TaskColumns DEF GrantsAreLeases, LeaseLive
    <2>4. QED BY <2>1, <2>2, <2>3 DEF CreateAttempt, MayStartIn
  <1>2. QED BY <1>1, StoreCorrect, GrantsTruthful, PTL DEF Spec, LiveLeaseShieldsMission

\* Start-up recovery never interrupts an attempt in a mission whose lease some
\* process still holds.
THEOREM RecoveryRespectsLeases == Spec => RecoverySparesLiveLease
  <1> DEFINE Spared ==
        RecoverInterrupted =>
          \A a \in Attempts, o \in Owners :
             attempt'[a] # attempt[a] => granted[o][AttemptMission(a)] <= now
  <1>1. StoreInv /\ GrantsAreLeases => Spared
    <2> SUFFICES ASSUME StoreInv, GrantsAreLeases, RecoverInterrupted,
                        NEW a \in Attempts, NEW o \in Owners, attempt'[a] # attempt[a]
                 PROVE  granted[o][AttemptMission(a)] <= now
      OBVIOUS
    <2>1. a \in OrphanedAttempts
      BY DEF RecoverInterrupted, InterruptWork
    <2>2. AttemptMission(a) \in Missions
      BY <2>1, TaskColumns DEF OrphanedAttempts, AttemptMission, StoreInv, RowsLinked
    <2>3. ~(lease[AttemptMission(a)].expires > now)
      BY <2>1 DEF OrphanedAttempts, LeaseLive
    <2>4. ~(granted[o][AttemptMission(a)] > now)
      BY <2>2, <2>3 DEF GrantsAreLeases
    <2>5. granted[o][AttemptMission(a)] \in Nat /\ now \in Nat
      BY <2>2 DEF StoreInv, TypeOK, Time
    <2>6. QED BY <2>4, <2>5
  <1>2. QED BY <1>1, StoreCorrect, GrantsTruthful, PTL DEF Spec, RecoverySparesLiveLease

\* Only transitionMission moves a mission to completed, past assertMissionCompletable.
LEMMA CompletionGate ==
  ASSUME StoreInv, [Next]_vars, NEW m \in Missions, mission[m] # "completed", mission'[m] = "completed"
  PROVE  Completable(m)
  <1>1. ASSUME NEW as, NEW vs, NEW ms, InterruptWork(as, vs, ms) PROVE FALSE
    BY <1>1 DEF InterruptWork
  <1>2. ~UNCHANGED mission
    OBVIOUS
  <1>3. ~(TaskStep \/ AttemptStep \/ Tick \/ UNCHANGED vars)
    BY <1>2 DEF TaskStep, CreateTask, FinishTask, CreateAttempt, AttemptStep, FinishAttempt,
       Tick, rows, vars
  <1>4. ~QualityStep
    BY <1>2 DEF QualityStep, CreateVerificationRun, SetTaskQualityStatus,
       RecordQualityDecision, FinalizeQualityVerification, FinalizeQualityFailure
  <1>5. ~(LeaseStep \/ RecoveryStep)
    BY <1>1, <1>2 DEF LeaseStep, AcquireLease, ClaimMissionExecution, HeartbeatLease,
       ReleaseLease, InterruptOwnedExecution, RecoveryStep, RecoverInterrupted, RecoverOwner,
       rows, StoreInv, TypeOK
  <1>6. QED
    BY <1>3, <1>4, <1>5 DEF Next, MissionStep, CreateMission, TransitionMission, StoreInv, TypeOK

\* A mission that becomes completed has active tasks, all of them executed by a
\* run that succeeded and verified by a completed passing verification.
THEOREM CompletionIsJustified == Spec => CompletionJustified
  <1> DEFINE Justified ==
        \A m \in Missions :
          mission[m] # "completed" /\ mission'[m] = "completed" =>
            /\ ActiveTasks(m) # {}
            /\ \A t \in ActiveTasks(m) :
                  /\ attempt[task[t].lastRun].status = "succeeded"
                  /\ \E v \in Verifications : Earned(t, v)
  <1>1. StoreInv /\ [Next]_vars => Justified
    <2> SUFFICES ASSUME StoreInv, [Next]_vars, NEW m \in Missions,
                        mission[m] # "completed", mission'[m] = "completed"
                 PROVE  /\ ActiveTasks(m) # {}
                        /\ \A t \in ActiveTasks(m) :
                              /\ attempt[task[t].lastRun].status = "succeeded"
                              /\ \E v \in Verifications : Earned(t, v)
      OBVIOUS
    <2>1. Completable(m)
      BY CompletionGate
    <2>2. ASSUME NEW t \in ActiveTasks(m)
          PROVE  /\ attempt[task[t].lastRun].status = "succeeded"
                 /\ \E v \in Verifications : Earned(t, v)
      <3>1. t \in Tasks
        BY DEF ActiveTasks
      <3>2. task[t].status = "execution_completed" /\ quality[t].status = "passed"
        BY <2>1 DEF Completable
      <3>3. attempt[task[t].lastRun].status = "succeeded"
        BY <3>1, <3>2 DEF StoreInv, DoneTaskHasSucceededRun
      <3>4. Earned(t, quality[t].verification)
        BY <3>1, <3>2 DEF StoreInv, PassedIsEarned
      <3>5. QED BY <3>3, <3>4 DEF Earned
    <2>3. QED BY <2>1, <2>2 DEF Completable
  <1>2. QED BY <1>1, StoreCorrect, PTL DEF Spec, CompletionJustified

\* A verification that exists keeps its task and the run it is of.
LEMMA VerificationKept ==
  ASSUME StoreInv, [Next]_vars, NEW v \in Verifications, verification[v].status # "absent"
  PROVE  /\ verification'[v].status # "absent"
         /\ verification'[v].task = verification[v].task
         /\ verification'[v].target = verification[v].target
  <1> DEFINE Kept == /\ verification'[v].status # "absent"
                     /\ verification'[v].task = verification[v].task
                     /\ verification'[v].target = verification[v].target
  <1> SUFFICES Kept
    OBVIOUS
  <1>0. verification[v] \in VerificationRow
    BY DEF StoreInv, TypeOK
  <1>1. CASE UNCHANGED verification
    BY <1>1
  <1>2. CASE MissionStep \/ TaskStep \/ AttemptStep \/ Tick \/ UNCHANGED vars
    <2>1. UNCHANGED verification
      BY <1>2 DEF MissionStep, CreateMission, TransitionMission, TaskStep, CreateTask, FinishTask,
         CreateAttempt, AttemptStep, FinishAttempt, Tick, rows, vars
    <2>2. QED BY <1>1, <2>1
  <1>3. CASE QualityStep
    <2>1. ASSUME NEW w \in Verifications, verification[w].status = "absent",
                 NEW row, verification' = [verification EXCEPT ![w] = row]
          PROVE  Kept
      BY <2>1 DEF StoreInv, TypeOK
    <2>2. ASSUME NEW w \in Verifications, NEW s \in VerificationEnd \cup {"running"}, NEW d,
                 verification' = [verification EXCEPT ![w].status = s, ![w].verdict = d]
          PROVE  Kept
      BY <1>0, <2>2 DEF StoreInv, TypeOK, VerificationRow, VerificationEnd
    <2>3. ASSUME NEW w \in Verifications, NEW t \in Tasks, NEW a \in Attempts,
                 CreateVerificationRun(w, t, a)
          PROVE  Kept
      BY <2>1, <2>3 DEF CreateVerificationRun
    <2>4. ASSUME NEW w \in Verifications, NEW d \in Verdict, RecordQualityDecision(w, d)
          PROVE  Kept
      BY <1>0, <2>4 DEF RecordQualityDecision, StoreInv, TypeOK, VerificationRow
    <2>5. ASSUME NEW w \in Verifications, NEW d \in Verdict, FinalizeQualityVerification(w, d)
          PROVE  Kept
      BY <2>2, <2>5 DEF FinalizeQualityVerification, VerificationEnd
    <2>6. ASSUME NEW w \in Verifications, NEW s \in {"review_required", "blocked"},
                 FinalizeQualityFailure(w, s)
          PROVE  Kept
      BY <1>0, <2>6 DEF FinalizeQualityFailure, StoreInv, TypeOK, VerificationRow
    <2>7. QED BY <1>1, <1>3, <2>3, <2>4, <2>5, <2>6 DEF QualityStep, SetTaskQualityStatus
  <1>4. ASSUME NEW as, NEW vs, NEW ms, InterruptWork(as, vs, ms) PROVE Kept
    BY <1>0, <1>4 DEF InterruptWork, VerificationRow
  <1>5. CASE LeaseStep
    BY <1>1, <1>4, <1>5
    DEF LeaseStep, AcquireLease, ClaimMissionExecution, HeartbeatLease, ReleaseLease,
        InterruptOwnedExecution, rows
  <1>6. CASE RecoveryStep
    BY <1>4, <1>6 DEF RecoveryStep, RecoverInterrupted, RecoverOwner
  <1>7. QED BY <1>2, <1>3, <1>5, <1>6 DEF Next

\* What a step does to a verification run: creation, one verdict or one end of a
\* running run, or nothing.
LEMMA VerificationStepCases ==
  ASSUME StoreInv, [Next]_vars, NEW v \in Verifications
  PROVE  /\ verification[v].status \in VerificationEnd => verification'[v] = verification[v]
         /\ verification[v].verdict # "none" /\ verification[v].status # "absent" =>
               verification'[v].verdict = verification[v].verdict
  <1> DEFINE Kept ==
        /\ verification[v].status \in VerificationEnd => verification'[v] = verification[v]
        /\ verification[v].verdict # "none" /\ verification[v].status # "absent" =>
              verification'[v].verdict = verification[v].verdict
  <1> SUFFICES Kept
    OBVIOUS
  <1>1. CASE UNCHANGED verification
    BY <1>1
  <1>2. CASE MissionStep \/ TaskStep \/ AttemptStep \/ Tick \/ UNCHANGED vars
    <2>1. UNCHANGED verification
      BY <1>2 DEF MissionStep, CreateMission, TransitionMission, TaskStep, CreateTask, FinishTask,
         CreateAttempt, AttemptStep, FinishAttempt, Tick, rows, vars
    <2>2. QED BY <1>1, <2>1
  <1>3. CASE QualityStep
    <2>1. ASSUME NEW w \in Verifications, verification[w].status \notin VerificationEnd,
                 \/ verification[w].status = "absent"
                 \/ verification[w].verdict = "none"
                 \/ \E s \in VerificationEnd :
                       verification' = [verification EXCEPT ![w].status = s],
                 \E row : verification' = [verification EXCEPT ![w] = row]
          PROVE  Kept
      <3>1. CASE v # w
        BY <2>1, <3>1 DEF StoreInv, TypeOK
      <3>2. CASE v = w
        BY <2>1, <3>2 DEF StoreInv, TypeOK, VerificationRow
      <3>3. QED BY <3>1, <3>2
    <2>2. "absent" \notin VerificationEnd /\ "running" \notin VerificationEnd
      BY DEF VerificationEnd
    <2>3. ASSUME NEW w \in Verifications, NEW t \in Tasks, NEW a \in Attempts,
                 CreateVerificationRun(w, t, a)
          PROVE  Kept
      <3>1. \E row : verification' = [verification EXCEPT ![w] = row]
        BY <2>3 DEF CreateVerificationRun
      <3>2. QED BY <2>1, <2>2, <2>3, <3>1 DEF CreateVerificationRun
    <2>4. ASSUME NEW w \in Verifications, NEW d \in Verdict, RecordQualityDecision(w, d)
          PROVE  Kept
      <3>1. verification' = [verification EXCEPT ![w] = [verification[w] EXCEPT !.verdict = d]]
        BY <2>4 DEF RecordQualityDecision
      <3>2. QED BY <2>1, <2>2, <2>4, <3>1 DEF RecordQualityDecision, Decidable
    <2>5. ASSUME NEW w \in Verifications, NEW d \in Verdict, FinalizeQualityVerification(w, d)
          PROVE  Kept
      <3>1. verification' = [verification EXCEPT ![w] =
                               [verification[w] EXCEPT !.status = "completed", !.verdict = d]]
        BY <2>5 DEF FinalizeQualityVerification
      <3>2. QED BY <2>1, <2>2, <2>5, <3>1 DEF FinalizeQualityVerification, Decidable
    <2>6. ASSUME NEW w \in Verifications, NEW s \in {"review_required", "blocked"},
                 FinalizeQualityFailure(w, s)
          PROVE  Kept
      <3> DEFINE e == IF s = "review_required" THEN "interrupted" ELSE "blocked"
      <3>1. verification' = [verification EXCEPT ![w].status = e]
        BY <2>6 DEF FinalizeQualityFailure
      <3>2. verification' = [verification EXCEPT ![w] = [verification[w] EXCEPT !.status = e]]
        BY <3>1
      <3>3. e \in VerificationEnd
        BY DEF VerificationEnd
      <3>4. verification[w].status = "running"
        BY <2>6 DEF FinalizeQualityFailure
      <3> HIDE DEF e
      <3>5. QED BY <2>1, <2>2, <3>1, <3>2, <3>3, <3>4
    <2>7. QED BY <1>1, <1>3, <2>3, <2>4, <2>5, <2>6 DEF QualityStep, SetTaskQualityStatus
  <1>4. ASSUME NEW as, NEW vs \in SUBSET Verifications, NEW ms, InterruptWork(as, vs, ms),
               \A w \in vs : verification[w].status = "running"
        PROVE  Kept
    <2>1. CASE v \in vs
      BY <1>4, <2>1 DEF InterruptWork, StoreInv, TypeOK, VerificationRow, VerificationEnd
    <2>2. CASE v \notin vs
      BY <1>4, <2>2 DEF InterruptWork
    <2>3. QED BY <2>1, <2>2
  <1>5. CASE LeaseStep
    <2>1. ASSUME NEW m \in Missions, NEW o \in Owners, InterruptOwnedExecution(m, o)
          PROVE  Kept
      BY <1>4, <2>1 DEF InterruptOwnedExecution
    <2>2. QED BY <1>1, <1>5, <2>1
             DEF LeaseStep, AcquireLease, ClaimMissionExecution, HeartbeatLease, ReleaseLease, rows
  <1>6. CASE RecoveryStep
    <2>1. CASE RecoverInterrupted
      BY <1>4, <2>1 DEF RecoverInterrupted, OrphanedVerifications
    <2>2. ASSUME NEW o \in Owners, RecoverOwner(o) PROVE Kept
      BY <1>4, <2>2 DEF RecoverOwner, OrphanedVerifications
    <2>3. QED BY <1>6, <2>1, <2>2 DEF RecoveryStep
  <1>7. QED BY <1>2, <1>3, <1>5, <1>6 DEF Next

\* A mission that is completed or cancelled stays so.
LEMMA MissionEndsForGood ==
  ASSUME StoreInv, [Next]_vars, NEW m \in Missions, mission[m] \in {"completed", "cancelled"}
  PROVE  mission'[m] = mission[m]
  <1>1. CASE UNCHANGED mission
    BY <1>1
  <1>2. CASE TaskStep \/ AttemptStep \/ QualityStep \/ Tick \/ UNCHANGED vars
    <2>1. UNCHANGED mission
      BY <1>2 DEF TaskStep, CreateTask, FinishTask, CreateAttempt, AttemptStep, FinishAttempt,
         QualityStep, CreateVerificationRun, SetTaskQualityStatus, RecordQualityDecision,
         FinalizeQualityVerification, FinalizeQualityFailure, Tick, rows, vars
    <2>2. QED BY <1>1, <2>1
  <1>3. CASE MissionStep
    <2>1. ASSUME NEW n \in Missions, CreateMission(n) PROVE mission'[m] = mission[m]
      BY <2>1 DEF CreateMission, StoreInv, TypeOK
    <2>2. ASSUME NEW n \in Missions, NEW s \in MissionStatus, NEW actor, TransitionMission(n, s, actor)
          PROVE  mission'[m] = mission[m]
      <3>1. CanTransition(mission[n], s) /\ mission' = [mission EXCEPT ![n] = s]
        BY <2>2 DEF TransitionMission
      <3>2. n # m
        BY <3>1 DEF CanTransition
      <3>3. QED BY <3>1, <3>2 DEF StoreInv, TypeOK
    <2>3. QED BY <1>3, <2>1, <2>2 DEF MissionStep
  <1>4. ASSUME NEW as, NEW vs, NEW ms, InterruptWork(as, vs, ms)
        PROVE  mission'[m] = mission[m]
    BY <1>4 DEF InterruptWork, Interruptible
  <1>5. CASE LeaseStep
    <2>1. ASSUME NEW n \in Missions, NEW o \in Owners, ClaimMissionExecution(n, o)
          PROVE  mission'[m] = mission[m]
      BY <2>1 DEF ClaimMissionExecution, StoreInv, TypeOK
    <2>2. ASSUME NEW n \in Missions, NEW o \in Owners, InterruptOwnedExecution(n, o)
          PROVE  mission'[m] = mission[m]
      BY <1>4, <2>2 DEF InterruptOwnedExecution
    <2>3. QED BY <1>1, <1>5, <2>1, <2>2
             DEF LeaseStep, AcquireLease, HeartbeatLease, ReleaseLease, rows
  <1>6. CASE RecoveryStep
    BY <1>4, <1>6 DEF RecoveryStep, RecoverInterrupted, RecoverOwner
  <1>7. QED BY <1>2, <1>3, <1>5, <1>6 DEF Next

\* History: no step rewrites an attempt, a verification or a verdict that has
\* ended, or moves a mission out of completed or cancelled.
THEOREM HistoryIsImmutable == Spec => HistoryImmutable
  <1> DEFINE Immutable ==
       /\ \A a \in Attempts : attempt[a].status \in AttemptEnd => attempt'[a] = attempt[a]
       /\ \A v \in Verifications :
            /\ verification[v].status \in VerificationEnd => verification'[v] = verification[v]
            /\ verification[v].status = "running" /\ verification[v].verdict # "none" =>
                  verification'[v].verdict = verification[v].verdict
       /\ \A m \in Missions : mission[m] \in {"completed", "cancelled"} => mission'[m] = mission[m]
  <1>1. StoreInv /\ [Next]_vars => Immutable
    <2> SUFFICES ASSUME StoreInv, [Next]_vars PROVE Immutable
      OBVIOUS
    <2>1. \A a \in Attempts : attempt[a].status \in AttemptEnd => attempt'[a] = attempt[a]
      BY AttemptStepCases DEF AttemptEnd
    <2>2. \A v \in Verifications :
            /\ verification[v].status \in VerificationEnd => verification'[v] = verification[v]
            /\ verification[v].status = "running" /\ verification[v].verdict # "none" =>
                  verification'[v].verdict = verification[v].verdict
      BY VerificationStepCases
    <2>3. QED BY <2>1, <2>2, MissionEndsForGood
  <1>2. QED BY <1>1, StoreCorrect, PTL DEF Spec, HistoryImmutable

===============================================================================
