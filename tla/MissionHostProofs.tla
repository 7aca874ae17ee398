--------------------------- MODULE MissionHostProofs ---------------------------
(* What the hosts do to the mission store, for any number of processes,      *)
(* commands, missions, tasks, attempts and verifications: every step is a    *)
(* step of MissionStore, so its theorems hold of the running system.         *)
EXTENDS MissionHost, MissionStoreProofs

-------------------------------------------------------------------------------
(* The row of a command.                                                     *)

\* A command's row, in a state of the right type.
LEMMA RowOf ==
  ASSUME HostTypeOK, NEW j \in Jobs
  PROVE  job[j] \in JobRow /\ JobHolds(job[j])
  BY DEF HostTypeOK

\* A command that moves on keeps a row.
LEMMA RowAtPoint ==
  ASSUME NEW r \in JobRow, NEW pc \in JobPoint
  PROVE  [r EXCEPT !.pc = pc] \in JobRow
  BY DEF JobRow

\* The row of a command that has ended.
LEMMA NoJobRow == NoJob \in JobRow /\ JobHolds(NoJob) /\ NoJob.kind = "none"
  BY DEF NoJob, JobRow, JobHolds, JobPoint, Waiting

\* The rows of a Boss loop between two tasks, and of one that closes its mission.
LEMMA BossRows ==
  ASSUME NEW j \in Jobs, job[j].mission \in Missions, NEW end \in CloseEnd
  PROVE  /\ Choosing(j) \in JobRow /\ JobHolds(Choosing(j)) /\ Choosing(j).kind = "boss"
         /\ [Choosing(j) EXCEPT !.pc = "closing", !.end = end] \in JobRow
         /\ JobHolds([Choosing(j) EXCEPT !.pc = "closing", !.end = end])
         /\ [Choosing(j) EXCEPT !.pc = "closing", !.end = end].kind = "boss"
  BY DEF Choosing, NoJob, JobRow, JobHolds, JobPoint, Waiting, JobKind

\* One command changes its row: what has to be shown for HostTypeOK to hold.
LEMMA JobStep ==
  ASSUME HostTypeOK, NEW j \in Jobs, NEW r \in JobRow, JobHolds(r),
         job' = [job EXCEPT ![j] = r], UNCHANGED <<host, starts>>,
         \A k \in fresh' : k \in Jobs /\ IF k = j THEN r.kind = "boss" ELSE job[k].kind = "boss"
  PROVE  HostTypeOK'
  <1>1. job' \in [Jobs -> JobRow] /\ \A k \in Jobs : job'[k] = IF k = j THEN r ELSE job[k]
    BY DEF HostTypeOK
  <1>2. \A k \in Jobs : JobHolds(job'[k])
    BY <1>1 DEF HostTypeOK
  <1>3. fresh' \subseteq {k \in Jobs : job'[k].kind = "boss"}
    BY <1>1
  <1>4. QED BY <1>1, <1>2, <1>3 DEF HostTypeOK

\* The next revision is known to no job that did not know the last one.
LEMMA BumpedKnown ==
  ASSUME NEW m, NEW by
  PROVE  Bumped(m, by) \subseteq fresh \cup by
  BY DEF Bumped

\* A command moves on, and no command but a Boss loop learns a revision.
LEMMA GotoStep ==
  ASSUME HostTypeOK, NEW j \in Jobs, NEW pc \in JobPoint, Goto(j, pc),
         JobHolds([job[j] EXCEPT !.pc = pc]), UNCHANGED <<host, starts>>,
         fresh' \subseteq {k \in Jobs : job[k].kind = "boss"}
  PROVE  HostTypeOK'
  <1> DEFINE r == [job[j] EXCEPT !.pc = pc]
  <1>1. r \in JobRow /\ r.kind = job[j].kind
    BY RowOf, RowAtPoint DEF JobRow
  <1>2. job' = [job EXCEPT ![j] = r]
    BY DEF Goto
  <1>3. \A k \in fresh' : k \in Jobs /\ IF k = j THEN r.kind = "boss" ELSE job[k].kind = "boss"
    BY <1>1
  <1> HIDE DEF r
  <1>4. JobHolds(r)
    BY DEF r
  <1>5. QED BY <1>1, <1>2, <1>3, <1>4, JobStep

\* A command's task run or verification is over.
LEMMA ReturnStep ==
  ASSUME HostTypeOK, NEW j \in Jobs, job[j].pc # "idle", Return(j), UNCHANGED <<host, starts>>,
         fresh' \subseteq {k \in Jobs : job[k].kind = "boss"}
  PROVE  HostTypeOK'
  <1>1. job[j].mission \in Missions
    BY RowOf DEF JobHolds
  <1>2. CASE job[j].kind = "boss"
    <2>1. job' = [job EXCEPT ![j] = Choosing(j)]
      BY <1>2 DEF Return
    <2>2. QED BY <1>1, <2>1, BossRows, JobStep DEF CloseEnd
  <1>3. CASE job[j].kind # "boss"
    <2>1. job' = [job EXCEPT ![j] = NoJob]
      BY <1>3 DEF Return
    <2>2. \A k \in fresh' : k \in Jobs /\ k # j /\ job[k].kind = "boss"
      BY <1>3
    <2>3. QED BY <2>1, <2>2, NoJobRow, JobStep
  <1>4. QED BY <1>2, <1>3

\* A Boss loop turns to closing its mission.
LEMMA CloseStep ==
  ASSUME HostTypeOK, NEW j \in Jobs, job[j].pc # "idle", NEW end \in CloseEnd, CloseAs(j, end),
         UNCHANGED <<host, starts>>, fresh' \subseteq {k \in Jobs : job[k].kind = "boss"} \cup {j}
  PROVE  HostTypeOK'
  <1>1. job[j].mission \in Missions
    BY RowOf DEF JobHolds
  <1> DEFINE r == [Choosing(j) EXCEPT !.pc = "closing", !.end = end]
  <1>2. r \in JobRow /\ JobHolds(r) /\ r.kind = "boss"
    BY <1>1, BossRows
  <1>3. job' = [job EXCEPT ![j] = r]
    BY DEF CloseAs
  <1> HIDE DEF r
  <1>4. QED BY <1>2, <1>3, JobStep

\* A command ends.
LEMMA EndStep ==
  ASSUME HostTypeOK, NEW j \in Jobs, job' = [job EXCEPT ![j] = NoJob], UNCHANGED <<host, starts>>,
         fresh' \subseteq {k \in Jobs : job[k].kind = "boss"} \ {j}
  PROVE  HostTypeOK'
  <1>1. \A k \in fresh' : k \in Jobs /\ k # j /\ job[k].kind = "boss"
    OBVIOUS
  <1>2. QED BY <1>1, NoJobRow, JobStep

\* No command but a Boss loop holds a revision.
LEMMA FreshBosses == HostTypeOK => fresh \subseteq {k \in Jobs : job[k].kind = "boss"}
  BY DEF HostTypeOK

-------------------------------------------------------------------------------
(* Type correctness, by the groups of actions of HostNext.                   *)

\* The steps of the Boss loop keep the types.
LEMMA BossTypeOK == ASSUME HostTypeOK, NEW j \in Jobs, BossStep(j) PROVE HostTypeOK'
  <1> USE FreshBosses, BumpedKnown
  <1>0. job[j] \in JobRow /\ JobHolds(job[j])
    BY RowOf
  <1>1. ASSUME NEW m \in Missions, BeginBoss(j, m) PROVE HostTypeOK'
    <2> DEFINE r == [NoJob EXCEPT !.kind = "boss", !.pc = "planning", !.mission = m]
    <2>1. r \in JobRow /\ JobHolds(r) /\ r.kind = "boss"
      BY DEF NoJob, JobRow, JobHolds, JobPoint, Waiting, JobKind
    <2>2. job' = [job EXCEPT ![j] = r] /\ fresh' \subseteq fresh \cup {j} /\ UNCHANGED <<host, starts>>
      BY <1>1 DEF BeginBoss
    <2> HIDE DEF r
    <2>3. \A k \in fresh' : k \in Jobs /\ IF k = j THEN r.kind = "boss" ELSE job[k].kind = "boss"
      BY <2>1, <2>2
    <2>4. QED BY <2>1, <2>2, <2>3, JobStep
  <1>2. ASSUME NEW pc \in {"choosing", "planning"}, BossProceeds(j, pc) PROVE HostTypeOK'
    <2>1. JobHolds([job[j] EXCEPT !.pc = pc])
      BY <1>0, <1>2 DEF BossProceeds, At, JobHolds, JobRow
    <2>2. fresh' \subseteq {k \in Jobs : job[k].kind = "boss"}
      BY <1>2 DEF BossProceeds
    <2>3. Goto(j, pc) /\ UNCHANGED <<host, starts>> /\ pc \in JobPoint
      BY <1>2 DEF BossProceeds, JobPoint, Waiting
    <2>4. QED BY <2>1, <2>2, <2>3, GotoStep
  <1>3. ASSUME NEW end \in CloseEnd, BossCloses(j, end) PROVE HostTypeOK'
    <2>1. job[j].pc # "idle" /\ CloseAs(j, end) /\ UNCHANGED <<host, starts>>
      BY <1>3 DEF BossCloses, At
    <2>2. fresh' \subseteq {k \in Jobs : job[k].kind = "boss"} \cup {j}
      BY <1>3 DEF BossCloses
    <2>3. QED BY <2>1, <2>2, CloseStep
  <1>4. ASSUME BossIsStale(j) PROVE HostTypeOK'
    <2>1. job' = [job EXCEPT ![j] = NoJob] /\ UNCHANGED <<host, starts>> /\ fresh' = fresh /\ j \notin fresh
      BY <1>4 DEF BossIsStale
    <2>2. fresh' \subseteq {k \in Jobs : job[k].kind = "boss"} \ {j}
      BY <2>1
    <2>3. QED BY <2>1, <2>2, EndStep
  <1>5. ASSUME CloseMission(j) PROVE HostTypeOK'
    <2>1. CASE ClosingState(j) = job[j].end
      <3>1. job' = [job EXCEPT ![j] = NoJob] /\ UNCHANGED <<host, starts>>
        BY <1>5, <2>1 DEF CloseMission
      <3>2. fresh' \subseteq {k \in Jobs : job[k].kind = "boss"} \ {j}
        BY <1>5, <2>1 DEF CloseMission, Bumped
      <3>3. QED BY <3>1, <3>2, EndStep
    <2>2. CASE ClosingState(j) # job[j].end
      <3>1. fresh' \subseteq fresh \cup {j} /\ j \in fresh /\ UNCHANGED <<job, host, starts>>
        BY <1>5, <2>2 DEF CloseMission
      <3>2. QED BY <3>1 DEF HostTypeOK
    <2>3. QED BY <2>1, <2>2
  <1>6. ASSUME CloseNothing(j) PROVE HostTypeOK'
    BY <1>6, EndStep DEF CloseNothing
  <1>7. ASSUME EndTasks(j) PROVE HostTypeOK'
    <2>1. JobHolds([job[j] EXCEPT !.pc = "evaluating"])
      BY <1>0, <1>7 DEF EndTasks, At, JobHolds, JobRow
    <2>2. QED BY <1>7, <2>1, GotoStep DEF EndTasks, JobPoint, Waiting
  <1>8. ASSUME NEW t \in Tasks, ChooseTask(j, t) \/ PlanTask(j, t) PROVE HostTypeOK'
    <2> DEFINE r == [job[j] EXCEPT !.pc = "dispatching", !.task = t]
    <2>1. r \in JobRow /\ JobHolds(r) /\ r.kind = job[j].kind
      BY <1>0, <1>8 DEF ChooseTask, PlanTask, At, JobHolds, JobRow, JobPoint
    <2>2. job' = [job EXCEPT ![j] = r] /\ UNCHANGED <<fresh, host, starts>>
      <3>1. CASE ChooseTask(j, t)
        BY <3>1 DEF ChooseTask
      <3>2. CASE PlanTask(j, t)
        BY <3>2 DEF PlanTask
      <3>3. QED BY <1>8, <3>1, <3>2
    <2> HIDE DEF r
    <2>3. QED BY <2>1, <2>2, JobStep
  <1>9. QED BY <1>1, <1>2, <1>3, <1>4, <1>5, <1>6, <1>7, <1>8 DEF BossStep

\* Where a finished child leads keeps the types.
LEMMA FollowTypeOK ==
  ASSUME HostTypeOK, NEW j \in Jobs, job[j].pc \in {"working", "reviewing"},
         NEW next \in {"targeting", "blocking", "return", "assessing", "cancelled"}, Follow(j, next),
         next \in {"targeting", "blocking", "assessing"} => job[j].pc = "working",
         UNCHANGED <<host, fresh, starts>>
  PROVE  HostTypeOK'
  <1> USE FreshBosses
  <1>1. Return(j) \/ CloseAs(j, "cancelled")
        \/ (next \in {"targeting", "blocking", "assessing"} /\ Goto(j, next))
    BY DEF Follow
  <1>2. CASE Return(j)
    BY <1>2, ReturnStep
  <1>3. CASE CloseAs(j, "cancelled")
    BY <1>3, CloseStep DEF CloseEnd
  <1>4. CASE next \in {"targeting", "blocking", "assessing"} /\ Goto(j, next)
    <2>1. JobHolds([job[j] EXCEPT !.pc = next]) /\ next \in JobPoint
      BY <1>4, RowOf DEF JobHolds, JobRow, JobPoint, Waiting
    <2>2. QED BY <1>4, <2>1, GotoStep
  <1>5. QED BY <1>1, <1>2, <1>3, <1>4

\* The steps of a task run keep the types.
LEMMA ExecutionTypeOK ==
  ASSUME HostTypeOK, NEW j \in Jobs, ExecutionStep(j)
  PROVE  HostTypeOK'
  <1> USE FreshBosses
  <1>0. job[j] \in JobRow /\ JobHolds(job[j])
    BY RowOf
  <1>1. ASSUME NEW t \in Tasks, BeginTask(j, t) PROVE HostTypeOK'
    <2> DEFINE r == [NoJob EXCEPT !.kind = "task", !.pc = "dispatching",
                                  !.mission = TaskMission[t], !.task = t]
    <2>1. r \in JobRow /\ JobHolds(r)
      BY TaskColumns DEF NoJob, JobRow, JobHolds, JobPoint, Waiting, JobKind
    <2>2. job' = [job EXCEPT ![j] = r] /\ UNCHANGED <<fresh, host, starts>> /\ job[j].pc = "idle"
      BY <1>1 DEF BeginTask, At
    <2>3. j \notin fresh
      BY <1>0, <2>2 DEF JobHolds
    <2> HIDE DEF r
    <2>4. QED BY <2>1, <2>2, <2>3, JobStep
  <1>2. ASSUME Dispatch(j) PROVE HostTypeOK'
    <2>1. JobHolds([job[j] EXCEPT !.pc = "starting"])
      BY <1>0, <1>2 DEF Dispatch, At, JobHolds, JobRow
    <2>2. CASE Return(j)
      BY <1>2, <2>2, ReturnStep DEF Dispatch, At
    <2>3. CASE Goto(j, "starting")
      BY <1>2, <2>1, <2>3, GotoStep DEF Dispatch, JobPoint
    <2>4. QED BY <1>2, <2>2, <2>3 DEF Dispatch
  <1>3. ASSUME StartRefused(j) PROVE HostTypeOK'
    BY <1>3, ReturnStep DEF StartRefused, At
  <1>4. ASSUME NEW a \in Attempts, StartAttempt(j, a) PROVE HostTypeOK'
    <2> DEFINE r == [job[j] EXCEPT !.pc = "working", !.attempt = a]
    <2>1. r \in JobRow /\ JobHolds(r) /\ r.kind = job[j].kind
      BY <1>0, <1>4 DEF StartAttempt, At, JobHolds, JobRow, JobPoint, Waiting
    <2>2. job' = [job EXCEPT ![j] = r] /\ UNCHANGED <<fresh, host, starts>>
      BY <1>4 DEF StartAttempt
    <2> HIDE DEF r
    <2>3. QED BY <2>1, <2>2, JobStep
  <1>5. ASSUME NEW s \in {"succeeded", "failed", "interrupted", "cancelled"}, WorkerEnds(j, s)
        PROVE  HostTypeOK'
    <2>1. PICK next \in AfterWorker(j, s) : Follow(j, next)
      BY <1>5 DEF WorkerEnds
    <2>2. next \in {"targeting", "blocking", "return", "assessing", "cancelled"}
      BY DEF AfterWorker
    <2>3. job[j].pc = "working" /\ UNCHANGED <<host, fresh, starts>>
      BY <1>5 DEF WorkerEnds, At
    <2>4. QED BY <2>1, <2>2, <2>3, FollowTypeOK
  <1>6. ASSUME WorkerIsLate(j) PROVE HostTypeOK'
    BY <1>6, ReturnStep DEF WorkerIsLate, At
  <1>7. ASSUME BlockTask(j) PROVE HostTypeOK'
    <2>1. JobHolds([job[j] EXCEPT !.pc = "targeting"])
      BY <1>0, <1>7 DEF BlockTask, At, JobHolds, JobRow
    <2>2. CASE Return(j)
      BY <1>7, <2>2, ReturnStep DEF BlockTask, At
    <2>3. CASE Goto(j, "targeting")
      BY <1>7, <2>1, <2>3, GotoStep DEF BlockTask, JobPoint
    <2>4. QED BY <1>7, <2>2, <2>3 DEF BlockTask
  <1>8. ASSUME AssessmentEnds(j) PROVE HostTypeOK'
    <2>1. JobHolds([job[j] EXCEPT !.pc = "dispatching"])
      BY <1>0, <1>8 DEF AssessmentEnds, At, JobHolds, JobRow
    <2>2. CASE Return(j)
      BY <1>8, <2>2, ReturnStep DEF AssessmentEnds, At
    <2>3. CASE Goto(j, "dispatching")
      BY <1>8, <2>1, <2>3, GotoStep DEF AssessmentEnds, JobPoint
    <2>4. QED BY <1>8, <2>2, <2>3 DEF AssessmentEnds
  <1>9. QED BY <1>1, <1>2, <1>3, <1>4, <1>5, <1>6, <1>7, <1>8 DEF ExecutionStep

\* A command started from the prompt with the row r.
LEMMA BeginStep ==
  ASSUME HostTypeOK, NEW j \in Jobs, job[j].pc = "idle", NEW r \in JobRow, JobHolds(r),
         job' = [job EXCEPT ![j] = r], UNCHANGED <<host, starts>>, fresh' \subseteq fresh
  PROVE  HostTypeOK'
  <1>1. j \notin fresh
    BY FreshBosses, RowOf DEF JobHolds
  <1>2. \A k \in fresh' : k \in Jobs /\ k # j /\ job[k].kind = "boss"
    BY <1>1, FreshBosses
  <1>3. QED BY <1>2, JobStep

\* The steps of a verification keep the types.
LEMMA ReviewTypeOK ==
  ASSUME HostTypeOK, StoreInv, NEW j \in Jobs, ReviewStep(j)
  PROVE  HostTypeOK'
  <1> USE FreshBosses, BumpedKnown
  <1>0. job[j] \in JobRow /\ JobHolds(job[j])
    BY RowOf
  <1>1. ASSUME NEW t \in Tasks, BeginLoop(j, t) PROVE HostTypeOK'
    <2> DEFINE r == [NoJob EXCEPT !.kind = "loop", !.pc = "confirming", !.mission = TaskMission[t],
                                  !.task = t, !.attempt = task[t].lastRun]
    <2>1. task[t].lastRun \in Attempts
      BY <1>1 DEF BeginLoop, StoreInv, DoneTaskHasSucceededRun
    <2>2. r \in JobRow /\ JobHolds(r)
      BY <2>1, TaskColumns DEF NoJob, JobRow, JobHolds, JobPoint, Waiting, JobKind
    <2>3. job' = [job EXCEPT ![j] = r] /\ UNCHANGED <<host, fresh, starts>> /\ job[j].pc = "idle"
      BY <1>1 DEF BeginLoop, At
    <2> HIDE DEF r
    <2>4. QED BY <2>2, <2>3, BeginStep
  <1>2. ASSUME NEW t \in Tasks, NEW a \in Attempts, BeginVerify(j, t, a) PROVE HostTypeOK'
    <2> DEFINE r == [NoJob EXCEPT !.kind = "verify", !.pc = "confirming",
                                  !.mission = TaskMission[t], !.task = t, !.attempt = a]
    <2>1. r \in JobRow /\ JobHolds(r)
      BY TaskColumns DEF NoJob, JobRow, JobHolds, JobPoint, Waiting, JobKind
    <2>2. job' = [job EXCEPT ![j] = r] /\ UNCHANGED <<host, fresh, starts>> /\ job[j].pc = "idle"
      BY <1>2 DEF BeginVerify, At
    <2> HIDE DEF r
    <2>3. QED BY <2>1, <2>2, BeginStep
  <1>3. ASSUME Confirm(j) PROVE HostTypeOK'
    <2>1. JobHolds([job[j] EXCEPT !.pc = "targeting"])
      BY <1>0, <1>3 DEF Confirm, At, JobHolds, JobRow
    <2>2. CASE Return(j)
      BY <1>3, <2>2, ReturnStep DEF Confirm, At
    <2>3. CASE Goto(j, "targeting")
      BY <1>3, <2>1, <2>3, GotoStep DEF Confirm, JobPoint
    <2>4. QED BY <1>3, <2>2, <2>3 DEF Confirm
  <1>4. ASSUME ReviewRefused(j) PROVE HostTypeOK'
    BY <1>4, ReturnStep DEF ReviewRefused, At
  <1>5. ASSUME MarkReview(j) PROVE HostTypeOK'
    <2>1. JobHolds([job[j] EXCEPT !.pc = "reviewing"])
      BY <1>0, <1>5 DEF MarkReview, At, JobHolds, JobRow
    <2>2. CASE Return(j)
      BY <1>5, <2>2, ReturnStep DEF MarkReview, At
    <2>3. CASE Goto(j, "reviewing")
      BY <1>5, <2>1, <2>3, GotoStep DEF MarkReview, JobPoint, Waiting
    <2>4. QED BY <1>5, <2>2, <2>3 DEF MarkReview
  <1>6. ASSUME ReviewerAborts(j) PROVE HostTypeOK'
    BY <1>6, CloseStep DEF ReviewerAborts, At, CloseEnd
  <1>7. ASSUME ReviewerIsLate(j) PROVE HostTypeOK'
    BY <1>7, ReturnStep DEF ReviewerIsLate, At
  <1>8. ASSUME NEW v \in Verifications, OpenReview(j, v) PROVE HostTypeOK'
    <2> DEFINE r == [job[j] EXCEPT !.pc = "opened", !.verification = v]
    <2>1. r \in JobRow /\ JobHolds(r) /\ r.kind = job[j].kind
      BY <1>0, <1>8 DEF OpenReview, At, JobHolds, JobRow, JobPoint, Waiting
    <2>2. job' = [job EXCEPT ![j] = r] /\ UNCHANGED <<host, fresh, starts>>
      BY <1>8 DEF OpenReview
    <2> HIDE DEF r
    <2>3. QED BY <2>1, <2>2, JobStep
  <1>9. ASSUME NEW d \in Verdict, ReviewerDecides(j, d) PROVE HostTypeOK'
    <2>1. fresh' \subseteq {k \in Jobs : job[k].kind = "boss"}
      BY <1>9 DEF ReviewerDecides
    <2>2. JobHolds([job[j] EXCEPT !.pc = "dispatching"])
      BY <1>0, <1>9 DEF ReviewerDecides, At, JobHolds, JobRow
    <2>3. CASE Return(j)
      BY <1>9, <2>1, <2>3, ReturnStep DEF ReviewerDecides, At
    <2>4. CASE Goto(j, "dispatching")
      BY <1>9, <2>1, <2>2, <2>4, GotoStep DEF ReviewerDecides, JobPoint
    <2>5. QED BY <1>9, <2>3, <2>4 DEF ReviewerDecides
  <1>10. ASSUME NEW s \in {"review_required", "blocked"}, ReviewerFails(j, s) PROVE HostTypeOK'
    <2>1. CASE Return(j)
      BY <1>10, <2>1, ReturnStep DEF ReviewerFails, At
    <2>2. CASE CloseAs(j, "cancelled")
      BY <1>10, <2>2, CloseStep DEF ReviewerFails, At, CloseEnd
    <2>3. QED BY <1>10, <2>1, <2>2 DEF ReviewerFails
  <1>11. QED BY <1>1, <1>2, <1>3, <1>4, <1>5, <1>6, <1>7, <1>8, <1>9, <1>10 DEF ReviewStep

\* The steps of a cancellation keep the types.
LEMMA CancelTypeOK == ASSUME HostTypeOK, NEW j \in Jobs, CancelStep(j) PROVE HostTypeOK'
  <1> USE FreshBosses, BumpedKnown
  <1>0. job[j] \in JobRow /\ JobHolds(job[j])
    BY RowOf
  <1>1. ASSUME NEW m \in Missions, BeginCancel(j, m) PROVE HostTypeOK'
    <2> DEFINE r == [NoJob EXCEPT !.kind = "cancel", !.pc = "cancelling", !.mission = m]
    <2>1. r \in JobRow /\ JobHolds(r)
      BY DEF NoJob, JobRow, JobHolds, JobPoint, Waiting, JobKind
    <2>2. job' = [job EXCEPT ![j] = r] /\ UNCHANGED <<host, starts>> /\ job[j].pc = "idle"
      BY <1>1 DEF BeginCancel, At
    <2>3. fresh' \subseteq fresh
      BY <1>1 DEF BeginCancel
    <2> HIDE DEF r
    <2>4. QED BY <2>1, <2>2, <2>3, BeginStep
  <1>2. ASSUME NEW pc \in {"cancelTasks", "cancelReviews"},
               NEW todo \in SUBSET IF pc = "cancelTasks" THEN Tasks ELSE Verifications,
               job[j].pc \in {"cancelling", "cancelTasks", "cancelReviews"},
               job' = [job EXCEPT ![j] = [job[j] EXCEPT !.pc = pc, !.todo = todo]],
               UNCHANGED <<host, fresh, starts>>
        PROVE  HostTypeOK'
    <2> DEFINE r == [job[j] EXCEPT !.pc = pc, !.todo = todo]
    <2>1. r \in JobRow /\ r.kind = job[j].kind /\ r.pc = pc /\ r.todo = todo /\ r.mission = job[j].mission
      BY <1>0, <1>2 DEF JobRow, JobPoint
    <2> HIDE DEF r
    <2>2. JobHolds(r)
      BY <1>0, <1>2, <2>1 DEF JobHolds
    <2>3. job' = [job EXCEPT ![j] = r]
      BY <1>2 DEF r
    <2>4. \A k \in fresh' : k \in Jobs /\ IF k = j THEN r.kind = "boss" ELSE job[k].kind = "boss"
      BY <1>2, <2>1
    <2>5. UNCHANGED <<host, starts>>
      BY <1>2
    <2>6. QED BY <2>1, <2>2, <2>3, <2>4, <2>5, JobStep
  <1>3. ASSUME ListTasks(j) PROVE HostTypeOK'
    <2> DEFINE todo == {t \in Tasks : /\ TaskMission[t] = job[j].mission
                                      /\ task[t].status \in {"running", "pending"}}
    <2>1. /\ job[j].pc = "cancelling" /\ UNCHANGED <<host, fresh, starts>>
          /\ job' = [job EXCEPT ![j] = [job[j] EXCEPT !.pc = "cancelTasks", !.todo = todo]]
      BY <1>3 DEF ListTasks, At
    <2>2. QED BY <1>2, <2>1
  <1>4. ASSUME ListReviews(j) PROVE HostTypeOK'
    <2> DEFINE todo == {v \in Verifications : /\ verification[v].status = "running"
                                              /\ VerificationMission(v) = job[j].mission}
    <2>1. /\ job[j].pc = "cancelTasks" /\ UNCHANGED <<host, fresh, starts>>
          /\ job' = [job EXCEPT ![j] = [job[j] EXCEPT !.pc = "cancelReviews", !.todo = todo]]
      BY <1>4 DEF ListReviews, At
    <2>2. todo \subseteq Verifications
      OBVIOUS
    <2> HIDE DEF todo
    <2>3. QED BY <1>2, <2>1, <2>2
  <1>5. ASSUME NEW t \in Tasks, CancelTask(j, t) PROVE HostTypeOK'
    <2> DEFINE todo == job[j].todo \ {t}
    <2>1. /\ job[j].pc = "cancelTasks" /\ UNCHANGED <<host, fresh, starts>>
          /\ job' = [job EXCEPT ![j].todo = todo]
      BY <1>5 DEF CancelTask, At
    <2>2. [job[j] EXCEPT !.todo = todo] = [job[j] EXCEPT !.pc = "cancelTasks", !.todo = todo]
      BY <1>0, <2>1 DEF JobRow
    <2>3. todo \subseteq Tasks
      BY <1>0, <2>1 DEF JobHolds
    <2>4. job' = [job EXCEPT ![j] = [job[j] EXCEPT !.pc = "cancelTasks", !.todo = todo]]
      BY <2>1, <2>2
    <2> HIDE DEF todo
    <2>5. QED BY <1>2, <2>1, <2>3, <2>4
  <1>6. ASSUME NEW v \in Verifications, CancelReview(j, v) PROVE HostTypeOK'
    <2> DEFINE todo == job[j].todo \ {v}
    <2>1. /\ job[j].pc = "cancelReviews" /\ UNCHANGED <<host, fresh, starts>>
          /\ job' = [job EXCEPT ![j].todo = todo]
      BY <1>6 DEF CancelReview, At
    <2>2. [job[j] EXCEPT !.todo = todo] = [job[j] EXCEPT !.pc = "cancelReviews", !.todo = todo]
      BY <1>0, <2>1 DEF JobRow
    <2>3. todo \subseteq Verifications
      BY <1>0, <2>1 DEF JobHolds
    <2>4. job' = [job EXCEPT ![j] = [job[j] EXCEPT !.pc = "cancelReviews", !.todo = todo]]
      BY <2>1, <2>2
    <2> HIDE DEF todo
    <2>5. QED BY <1>2, <2>1, <2>3, <2>4
  <1>7. ASSUME EndCancel(j) PROVE HostTypeOK'
    <2>1. job[j].kind = "cancel"
      BY <1>0, <1>7 DEF EndCancel, At, JobHolds
    <2>2. fresh' \subseteq {k \in Jobs : job[k].kind = "boss"} \ {j}
      BY <1>7, <2>1 DEF EndCancel
    <2>3. job' = [job EXCEPT ![j] = NoJob] /\ UNCHANGED <<host, starts>>
      BY <1>7 DEF EndCancel
    <2>4. QED BY <2>2, <2>3, EndStep
  <1>8. QED BY <1>1, <1>3, <1>4, <1>5, <1>6, <1>7 DEF CancelStep

\* Crashes, start-ups and what the user does at the prompt keep the types.
LEMMA HostStepTypeOK ==
  ASSUME HostTypeOK, NEW h \in Hosts, UserStep(h) \/ Crash(h) \/ Start(h)
  PROVE  HostTypeOK'
  <1>1. CASE UserStep(h)
    <2>1. UNCHANGED <<host, job, starts>> /\ fresh' \subseteq fresh
      BY <1>1, BumpedKnown
      DEF UserStep, UserCreatesMission, UserCreatesTask, UserMovesMission, hostVars
    <2>2. QED BY <2>1 DEF HostTypeOK
  <1>2. CASE Crash(h)
    <2>1. /\ host' \in [Hosts -> {"down", "up", "nostore"}]
          /\ starts' = starts
          /\ job' = [j \in Jobs |-> IF HostOf[j] = h THEN NoJob ELSE job[j]]
          /\ fresh' = {j \in fresh : HostOf[j] # h}
      BY <1>2 DEF Crash, HostTypeOK
    <2>2. job' \in [Jobs -> JobRow] /\ \A j \in Jobs : JobHolds(job'[j])
      BY <2>1, NoJobRow, RowOf
    <2>3. fresh' \subseteq {j \in Jobs : job'[j].kind = "boss"}
      BY <2>1, FreshBosses
    <2>4. QED BY <2>1, <2>2, <2>3 DEF HostTypeOK
  <1>3. CASE Start(h)
    <2>1. /\ host' \in [Hosts -> {"down", "up", "nostore"}]
          /\ job' = job /\ fresh' \subseteq fresh
          /\ starts' = starts + 1 /\ starts < MaxStarts
      BY <1>3 DEF Start, HostTypeOK
    <2>2. starts' \in 0..MaxStarts
      BY <2>1, StartBound DEF HostTypeOK
    <2>3. QED BY <2>1, <2>2 DEF HostTypeOK
  <1>4. QED BY <1>1, <1>2, <1>3

\* Every process is down, and every command idle, to begin with.
LEMMA HostInitTypeOK == HostInit => HostTypeOK
  BY NoJobRow, StartBound DEF HostInit, HostTypeOK

-------------------------------------------------------------------------------
(* Every step of a host is a step of the store, or leaves the store alone.   *)

\* The store's operations, as steps of its specification: missions and tasks.
LEMMA MissionSteps ==
  /\ \A m \in Missions : CreateMission(m) => Next
  /\ \A m \in Missions, s \in MissionStatus, by \in {"boss", "user"} : TransitionMission(m, s, by) => Next
  /\ \A t \in Tasks, s \in {"pending", "planned"} : CreateTask(t, s) => Next
  /\ \A t \in Tasks, s \in {"blocked", "cancelled"} : FinishTask(t, s) => Next
  <1>1. /\ \A m \in Missions : CreateMission(m) => MissionStep
        /\ \A m \in Missions, s \in MissionStatus, by \in {"boss", "user"} :
              TransitionMission(m, s, by) => MissionStep
    BY DEF MissionStep
  <1>2. /\ \A t \in Tasks, s \in {"pending", "planned"} : CreateTask(t, s) => TaskStep
        /\ \A t \in Tasks, s \in {"blocked", "cancelled"} : FinishTask(t, s) => TaskStep
    BY DEF TaskStep
  <1>3. QED BY <1>1, <1>2 DEF Next

\* The same of attempts, verifications and recovery.
LEMMA RunSteps ==
  /\ \A a \in Attempts, t \in Tasks : CreateAttempt(a, t, NoId) => Next
  /\ \A a \in Attempts, s \in AttemptEnd : FinishAttempt(a, s) => Next
  /\ \A v \in Verifications, t \in Tasks, a \in Attempts : CreateVerificationRun(v, t, a) => Next
  /\ \A v \in Verifications, t \in Tasks : \A q \in ServiceRows(v) : SetTaskQualityStatus(t, q) => Next
  /\ \A v \in Verifications, d \in Verdict : FinalizeQualityVerification(v, d) => Next
  /\ \A v \in Verifications, s \in {"review_required", "blocked"} : FinalizeQualityFailure(v, s) => Next
  /\ RecoverInterrupted => Next
  <1>1. \A a \in Attempts, t \in Tasks : CreateAttempt(a, t, NoId) => TaskStep
    BY DEF TaskStep
  <1>2. \A a \in Attempts, s \in AttemptEnd : FinishAttempt(a, s) => AttemptStep
    BY DEF AttemptStep
  <1>3. /\ \A v \in Verifications, t \in Tasks, a \in Attempts : CreateVerificationRun(v, t, a) => QualityStep
        /\ \A v \in Verifications, t \in Tasks : \A q \in ServiceRows(v) : SetTaskQualityStatus(t, q) => QualityStep
        /\ \A v \in Verifications, d \in Verdict : FinalizeQualityVerification(v, d) => QualityStep
        /\ \A v \in Verifications, s \in {"review_required", "blocked"} : FinalizeQualityFailure(v, s) => QualityStep
    BY DEF QualityStep
  <1>4. QED BY <1>1, <1>2, <1>3 DEF Next, RecoveryStep

\* A step of the Boss loop plans a task, moves its mission, or writes nothing.
LEMMA BossRefines == ASSUME HostTypeOK, NEW j \in Jobs, BossStep(j) PROVE [Next]_vars
  <1>0. JobHolds(job[j])
    BY RowOf
  <1>1. ASSUME NEW m \in Missions, BeginBoss(j, m) PROVE [Next]_vars
    <2>1. vars' = vars \/ TransitionMission(m, "running", "boss")
      BY <1>1 DEF BeginBoss
    <2>2. QED BY <2>1, MissionSteps DEF MissionStatus
  <1>2. ASSUME CloseMission(j) PROVE [Next]_vars
    <2>1. job[j].mission \in Missions /\ ClosingState(j) \in MissionStatus
      BY <1>0, <1>2 DEF CloseMission, At, JobHolds, ClosingState, CloseEnd, MissionStatus
    <2>2. TransitionMission(job[j].mission, ClosingState(j), "boss")
      BY <1>2 DEF CloseMission
    <2>3. QED BY <2>1, <2>2, MissionSteps
  <1>3. ASSUME NEW t \in Tasks, PlanTask(j, t) PROVE [Next]_vars
    <2>1. CreateTask(t, "planned")
      BY <1>3 DEF PlanTask
    <2>2. QED BY <2>1, MissionSteps
  <1>4. ASSUME \/ \E pc \in {"choosing", "planning"} : BossProceeds(j, pc)
               \/ \E end \in CloseEnd : BossCloses(j, end)
               \/ BossIsStale(j) \/ CloseNothing(j) \/ EndTasks(j)
               \/ \E t \in Tasks : ChooseTask(j, t)
        PROVE  vars' = vars
    BY <1>4 DEF BossProceeds, BossCloses, BossIsStale, CloseNothing, EndTasks, ChooseTask
  <1>5. QED BY <1>1, <1>2, <1>3, <1>4 DEF BossStep

\* A task run starts or ends an attempt, blocks the task, or writes nothing.
LEMMA ExecutionRefines == ASSUME HostTypeOK, NEW j \in Jobs, ExecutionStep(j) PROVE [Next]_vars
  <1>0. JobHolds(job[j])
    BY RowOf
  <1>1. ASSUME NEW a \in Attempts, StartAttempt(j, a) PROVE [Next]_vars
    <2>1. job[j].task \in Tasks
      BY <1>0, <1>1 DEF StartAttempt, At, JobHolds
    <2>2. CreateAttempt(a, job[j].task, NoId)
      BY <1>1 DEF StartAttempt
    <2>3. QED BY <2>1, <2>2, RunSteps
  <1>2. ASSUME NEW s \in {"succeeded", "failed", "interrupted", "cancelled"}, WorkerEnds(j, s)
        PROVE  [Next]_vars
    <2>1. job[j].attempt \in Attempts
      BY <1>0, <1>2 DEF WorkerEnds, At, JobHolds
    <2>2. FinishAttempt(job[j].attempt, s)
      BY <1>2 DEF WorkerEnds
    <2>3. s \in AttemptEnd
      BY DEF AttemptEnd
    <2>4. QED BY <2>1, <2>2, <2>3, RunSteps
  <1>3. ASSUME BlockTask(j) PROVE [Next]_vars
    <2>1. job[j].task \in Tasks
      BY <1>0, <1>3 DEF BlockTask, At, JobHolds
    <2>2. FinishTask(job[j].task, "blocked")
      BY <1>3 DEF BlockTask
    <2>3. QED BY <2>1, <2>2, MissionSteps
  <1>4. ASSUME \/ \E t \in Tasks : BeginTask(j, t)
               \/ Dispatch(j) \/ StartRefused(j) \/ WorkerIsLate(j) \/ AssessmentEnds(j)
        PROVE  vars' = vars
    BY <1>4 DEF BeginTask, Dispatch, StartRefused, WorkerIsLate, AssessmentEnds
  <1>5. QED BY <1>1, <1>2, <1>3, <1>4 DEF ExecutionStep

\* A verification is opened, marked, decided or failed, or nothing is written.
LEMMA ReviewRefines ==
  ASSUME HostTypeOK, StoreInv, NEW j \in Jobs, ReviewStep(j)
  PROVE  [Next]_vars
  <1>0. JobHolds(job[j])
    BY RowOf
  <1>1. ASSUME NEW v \in Verifications, OpenReview(j, v) PROVE [Next]_vars
    <2>1. job[j].task \in Tasks /\ job[j].attempt \in Attempts /\ MayVerify(j)
          /\ CreateVerificationRun(v, job[j].task, Target(j))
      BY <1>0, <1>1 DEF OpenReview, At, JobHolds
    <2>2. Target(j) \in Attempts
      BY <2>1 DEF Target, MayVerify, StoreInv, DoneTaskHasSucceededRun
    <2>3. QED BY <2>1, <2>2, RunSteps
  <1>2. ASSUME MarkReview(j) PROVE [Next]_vars
    <2> DEFINE q == [status |-> "verification_running", verification |-> job[j].verification,
                     decision |-> NoId]
    <2>1. job[j].task \in Tasks /\ job[j].verification \in Verifications
      BY <1>0, <1>2 DEF MarkReview, At, JobHolds
    <2>2. q \in ServiceRows(job[j].verification)
      BY DEF ServiceRows
    <2>3. vars' = vars \/ SetTaskQualityStatus(job[j].task, q)
      BY <1>2 DEF MarkReview
    <2> HIDE DEF q
    <2>4. QED BY <2>1, <2>2, <2>3, RunSteps
  <1>3. ASSUME NEW d \in Verdict, ReviewerDecides(j, d) PROVE [Next]_vars
    <2>1. job[j].verification \in Verifications
      BY <1>0, <1>3 DEF ReviewerDecides, At, JobHolds
    <2>2. FinalizeQualityVerification(job[j].verification, d)
      BY <1>3 DEF ReviewerDecides
    <2>3. QED BY <2>1, <2>2, RunSteps
  <1>4. ASSUME NEW s \in {"review_required", "blocked"}, ReviewerFails(j, s) PROVE [Next]_vars
    <2>1. job[j].verification \in Verifications
      BY <1>0, <1>4 DEF ReviewerFails, At, JobHolds
    <2>2. FinalizeQualityFailure(job[j].verification, s)
      BY <1>4 DEF ReviewerFails
    <2>3. QED BY <2>1, <2>2, RunSteps
  <1>5. ASSUME \/ \E t \in Tasks : BeginLoop(j, t) \/ \E a \in Attempts : BeginVerify(j, t, a)
               \/ Confirm(j) \/ ReviewRefused(j) \/ ReviewerAborts(j) \/ ReviewerIsLate(j)
        PROVE  vars' = vars
    BY <1>5 DEF BeginLoop, BeginVerify, Confirm, ReviewRefused, ReviewerAborts, ReviewerIsLate
  <1>6. QED BY <1>1, <1>2, <1>3, <1>4, <1>5 DEF ReviewStep

\* A cancellation moves the mission, ends a task or blocks a verification.
LEMMA CancelRefines == ASSUME HostTypeOK, NEW j \in Jobs, CancelStep(j) PROVE [Next]_vars
  <1>1. ASSUME NEW m \in Missions, BeginCancel(j, m) PROVE [Next]_vars
    <2>1. TransitionMission(m, "cancelled", "user")
      BY <1>1 DEF BeginCancel
    <2>2. QED BY <2>1, MissionSteps DEF MissionStatus
  <1>2. ASSUME NEW t \in Tasks, CancelTask(j, t) PROVE [Next]_vars
    <2>1. FinishTask(t, "cancelled")
      BY <1>2 DEF CancelTask
    <2>2. QED BY <2>1, MissionSteps
  <1>3. ASSUME NEW v \in Verifications, CancelReview(j, v) PROVE [Next]_vars
    <2>1. vars' = vars \/ FinalizeQualityFailure(v, "blocked")
      BY <1>3 DEF CancelReview
    <2>2. QED BY <2>1, RunSteps
  <1>4. ASSUME ListTasks(j) \/ ListReviews(j) \/ EndCancel(j) PROVE vars' = vars
    BY <1>4 DEF ListTasks, ListReviews, EndCancel
  <1>5. QED BY <1>1, <1>2, <1>3, <1>4 DEF CancelStep

\* The user creates and moves rows; a start-up recovers, or writes nothing.
LEMMA HostRefines ==
  ASSUME NEW h \in Hosts, UserStep(h) \/ Crash(h) \/ Start(h)
  PROVE  [Next]_vars
  <1>1. ASSUME NEW m \in Missions, UserCreatesMission(h, m) PROVE [Next]_vars
    BY <1>1, MissionSteps DEF UserCreatesMission
  <1>2. ASSUME NEW m \in Missions, NEW s \in UserMoves, UserMovesMission(h, m, s) PROVE [Next]_vars
    <2>1. TransitionMission(m, s, "boss") /\ s \in MissionStatus
      BY <1>2, MovesKnown DEF UserMovesMission
    <2>2. QED BY <2>1, MissionSteps
  <1>3. ASSUME NEW t \in Tasks, UserCreatesTask(h, t) PROVE [Next]_vars
    <2>1. CreateTask(t, "pending")
      BY <1>3 DEF UserCreatesTask
    <2>2. QED BY <2>1, MissionSteps
  <1>4. ASSUME Crash(h) PROVE vars' = vars
    BY <1>4 DEF Crash
  <1>5. ASSUME Start(h) PROVE [Next]_vars
    BY <1>5, RunSteps DEF Start
  <1>6. QED BY <1>1, <1>2, <1>3, <1>4, <1>5 DEF UserStep

HostInv == HostTypeOK /\ StoreInv

\* A step of a running system is a step of the store or leaves it alone.
LEMMA StepRefines == HostInv /\ [HostNext]_allVars => [Next]_vars
  <1> SUFFICES ASSUME HostInv, [HostNext]_allVars PROVE [Next]_vars
    OBVIOUS
  <1>1. CASE UNCHANGED allVars
    BY <1>1 DEF allVars
  <1>2. ASSUME NEW j \in Jobs, BossStep(j) \/ ExecutionStep(j) \/ ReviewStep(j) \/ CancelStep(j)
        PROVE  [Next]_vars
    BY <1>2, BossRefines, ExecutionRefines, ReviewRefines, CancelRefines DEF HostInv
  <1>3. ASSUME NEW h \in Hosts, UserStep(h) \/ Crash(h) \/ Start(h) PROVE [Next]_vars
    BY <1>3, HostRefines
  <1>4. QED BY <1>1, <1>2, <1>3 DEF HostNext

\* The types, and the consistency of the store's rows, are kept together.
LEMMA StepHostInv == HostInv /\ [HostNext]_allVars => HostInv'
  <1> SUFFICES ASSUME HostInv, [HostNext]_allVars PROVE HostInv'
    OBVIOUS
  <1>1. StoreInv'
    BY StepRefines, StepStoreInv DEF HostInv
  <1>2. HostTypeOK'
    <2>1. CASE UNCHANGED allVars
      BY <2>1 DEF allVars, hostVars, HostInv, HostTypeOK
    <2>2. ASSUME NEW j \in Jobs, BossStep(j) \/ ExecutionStep(j) \/ ReviewStep(j) \/ CancelStep(j)
          PROVE  HostTypeOK'
      BY <2>2, BossTypeOK, ExecutionTypeOK, ReviewTypeOK, CancelTypeOK DEF HostInv
    <2>3. ASSUME NEW h \in Hosts, UserStep(h) \/ Crash(h) \/ Start(h) PROVE HostTypeOK'
      BY <2>3, HostStepTypeOK DEF HostInv
    <2>4. QED BY <2>1, <2>2, <2>3 DEF HostNext
  <1>3. QED BY <1>1, <1>2 DEF HostInv

\* To begin with, too.
LEMMA InitHostInv == HostInit => HostInv
  BY HostInitTypeOK, InitStoreInv DEF HostInit, HostInv

-------------------------------------------------------------------------------
(* Theorems.                                                                 *)

\* In every reachable state each command holds the rows its next step needs, and
\* only Boss loops hold mission revisions.
THEOREM HostTypeCorrect == HostSpec => []HostTypeOK
  BY InitHostInv, StepHostInv, PTL DEF HostSpec, HostInv

\* Any number of processes, running commands, crashing and starting as they may,
\* use the store only through its operations.
THEOREM HostRefinesStore == HostSpec => Spec
  <1>1. HostInit => Init
    BY DEF HostInit
  <1>2. QED BY <1>1, InitHostInv, StepHostInv, StepRefines, PTL DEF HostSpec, Spec

\* So a mission the running system completes has every active task executed and
\* passed by a verification of a run that succeeded.
THEOREM HostCompletionJustified == HostSpec => CompletionJustified
  BY HostRefinesStore, CompletionIsJustified, PTL

\* And no crash, restart or late answer rewrites what has ended.
THEOREM HostHistoryImmutable == HostSpec => HistoryImmutable
  BY HostRefinesStore, HistoryIsImmutable, PTL

-------------------------------------------------------------------------------
(* Attempts and the commands that wait for them.                             *)

\* A step of command j that neither starts nor ends an attempt.
Quiet(j) == /\ job[j].pc # "working"
            /\ UNCHANGED <<attempt, lease, host>>
            /\ \A k \in Jobs \ {j} : job'[k] = job[k]

\* Changing one command's row leaves the others alone.
LEMMA OthersKept ==
  ASSUME HostTypeOK, NEW j \in Jobs, NEW r, job' = [job EXCEPT ![j] = r]
  PROVE  \A k \in Jobs \ {j} : job'[k] = job[k]
  BY DEF HostTypeOK

\* The ways a command's row is rewritten.
LEMMA MovesKeepOthers ==
  ASSUME HostTypeOK, NEW j \in Jobs
  PROVE  /\ \A pc : Goto(j, pc) => \A k \in Jobs \ {j} : job'[k] = job[k]
         /\ Return(j) => \A k \in Jobs \ {j} : job'[k] = job[k]
         /\ \A end : CloseAs(j, end) => \A k \in Jobs \ {j} : job'[k] = job[k]
         /\ \A next : Follow(j, next) => \A k \in Jobs \ {j} : job'[k] = job[k]
  <1>1. \A pc : Goto(j, pc) => \A k \in Jobs \ {j} : job'[k] = job[k]
    BY DEF Goto, HostTypeOK
  <1>2. Return(j) => \A k \in Jobs \ {j} : job'[k] = job[k]
    BY OthersKept DEF Return
  <1>3. \A end : CloseAs(j, end) => \A k \in Jobs \ {j} : job'[k] = job[k]
    BY OthersKept DEF CloseAs
  <1>4. ASSUME NEW next, Follow(j, next) PROVE \A k \in Jobs \ {j} : job'[k] = job[k]
    <2>1. Return(j) \/ CloseAs(j, "cancelled") \/ Goto(j, next)
      BY <1>4 DEF Follow
    <2>2. QED BY <2>1, <1>1, <1>2, <1>3
  <1>5. QED BY <1>1, <1>2, <1>3, <1>4

\* The Boss loop itself touches no attempt.
LEMMA BossQuiet == ASSUME HostTypeOK, NEW j \in Jobs, BossStep(j) PROVE Quiet(j)
  <1> USE MovesKeepOthers DEF Quiet, At, vars
  <1>1. ASSUME NEW m \in Missions, BeginBoss(j, m) PROVE Quiet(j)
    BY <1>1, OthersKept DEF BeginBoss, TransitionMission
  <1>2. ASSUME NEW pc \in {"choosing", "planning"}, BossProceeds(j, pc) PROVE Quiet(j)
    BY <1>2 DEF BossProceeds
  <1>3. ASSUME NEW end \in CloseEnd, BossCloses(j, end) PROVE Quiet(j)
    BY <1>3 DEF BossCloses
  <1>4. ASSUME BossIsStale(j) PROVE Quiet(j)
    BY <1>4, OthersKept DEF BossIsStale
  <1>5. ASSUME CloseMission(j) PROVE Quiet(j)
    BY <1>5, OthersKept DEF CloseMission, TransitionMission
  <1>6. ASSUME CloseNothing(j) PROVE Quiet(j)
    BY <1>6, OthersKept DEF CloseNothing
  <1>7. ASSUME EndTasks(j) PROVE Quiet(j)
    BY <1>7 DEF EndTasks
  <1>8. ASSUME NEW t \in Tasks, ChooseTask(j, t) PROVE Quiet(j)
    BY <1>8 DEF ChooseTask, HostTypeOK
  <1>9. ASSUME NEW t \in Tasks, PlanTask(j, t) PROVE Quiet(j)
    BY <1>9 DEF PlanTask, CreateTask, HostTypeOK
  <1>10. QED BY <1>1, <1>2, <1>3, <1>4, <1>5, <1>6, <1>7, <1>8, <1>9 DEF BossStep

\* Nor does a verification.
LEMMA ReviewQuiet == ASSUME HostTypeOK, NEW j \in Jobs, ReviewStep(j) PROVE Quiet(j)
  <1> USE MovesKeepOthers DEF Quiet, At, vars
  <1>1. ASSUME NEW t \in Tasks, BeginLoop(j, t) PROVE Quiet(j)
    BY <1>1, OthersKept DEF BeginLoop
  <1>2. ASSUME NEW t \in Tasks, NEW a \in Attempts, BeginVerify(j, t, a) PROVE Quiet(j)
    BY <1>2, OthersKept DEF BeginVerify
  <1>3. ASSUME Confirm(j) PROVE Quiet(j)
    BY <1>3 DEF Confirm
  <1>4. ASSUME ReviewRefused(j) PROVE Quiet(j)
    BY <1>4 DEF ReviewRefused
  <1>5. ASSUME MarkReview(j) PROVE Quiet(j)
    BY <1>5 DEF MarkReview, SetTaskQualityStatus
  <1>6. ASSUME ReviewerAborts(j) PROVE Quiet(j)
    BY <1>6 DEF ReviewerAborts
  <1>7. ASSUME ReviewerIsLate(j) PROVE Quiet(j)
    BY <1>7 DEF ReviewerIsLate
  <1>8. ASSUME NEW v \in Verifications, OpenReview(j, v) PROVE Quiet(j)
    BY <1>8 DEF OpenReview, CreateVerificationRun, HostTypeOK
  <1>9. ASSUME NEW d \in Verdict, ReviewerDecides(j, d) PROVE Quiet(j)
    BY <1>9 DEF ReviewerDecides, FinalizeQualityVerification
  <1>10. ASSUME NEW s \in {"review_required", "blocked"}, ReviewerFails(j, s) PROVE Quiet(j)
    BY <1>10 DEF ReviewerFails, FinalizeQualityFailure
  <1>11. QED BY <1>1, <1>2, <1>3, <1>4, <1>5, <1>6, <1>7, <1>8, <1>9, <1>10 DEF ReviewStep

\* Nor does a cancellation, which is why it leaves attempts running.
LEMMA CancelQuiet == ASSUME HostTypeOK, NEW j \in Jobs, CancelStep(j) PROVE Quiet(j)
  <1> USE DEF Quiet, At, vars
  <1>1. ASSUME NEW m \in Missions, BeginCancel(j, m) PROVE Quiet(j)
    BY <1>1, OthersKept DEF BeginCancel, TransitionMission
  <1>2. ASSUME ListTasks(j) PROVE Quiet(j)
    BY <1>2 DEF ListTasks, HostTypeOK
  <1>3. ASSUME NEW t \in Tasks, CancelTask(j, t) PROVE Quiet(j)
    BY <1>3 DEF CancelTask, FinishTask, HostTypeOK
  <1>4. ASSUME ListReviews(j) PROVE Quiet(j)
    BY <1>4 DEF ListReviews, HostTypeOK
  <1>5. ASSUME NEW v \in Verifications, CancelReview(j, v) PROVE Quiet(j)
    BY <1>5 DEF CancelReview, FinalizeQualityFailure, HostTypeOK
  <1>6. ASSUME EndCancel(j) PROVE Quiet(j)
    BY <1>6, OthersKept DEF EndCancel
  <1>7. QED BY <1>1, <1>2, <1>3, <1>4, <1>5, <1>6 DEF CancelStep

\* A task run starts an attempt, ends the one it waits for, learns that somebody
\* else ended it, or does something quiet.
LEMMA ExecutionCases ==
  ASSUME HostTypeOK, NEW j \in Jobs, ExecutionStep(j)
  PROVE  /\ UNCHANGED <<lease, host>> /\ \A k \in Jobs \ {j} : job'[k] = job[k]
         /\ \/ Quiet(j)
            \/ \E a \in Attempts : StartAttempt(j, a)
            \/ \E s \in {"succeeded", "failed", "interrupted", "cancelled"} : WorkerEnds(j, s)
            \/ WorkerIsLate(j)
  <1> USE MovesKeepOthers DEF At, vars
  <1>1. ASSUME NEW t \in Tasks, BeginTask(j, t) PROVE Quiet(j)
    BY <1>1, OthersKept DEF BeginTask, Quiet
  <1>2. ASSUME Dispatch(j) PROVE Quiet(j)
    BY <1>2 DEF Dispatch, Quiet
  <1>3. ASSUME StartRefused(j) PROVE Quiet(j)
    BY <1>3 DEF StartRefused, Quiet
  <1>4. ASSUME NEW a \in Attempts, StartAttempt(j, a)
        PROVE  UNCHANGED <<lease, host>> /\ \A k \in Jobs \ {j} : job'[k] = job[k]
    BY <1>4 DEF StartAttempt, CreateAttempt, HostTypeOK
  <1>5. ASSUME NEW s \in {"succeeded", "failed", "interrupted", "cancelled"}, WorkerEnds(j, s)
        PROVE  UNCHANGED <<lease, host>> /\ \A k \in Jobs \ {j} : job'[k] = job[k]
    <2>1. PICK next \in AfterWorker(j, s) : Follow(j, next)
      BY <1>5 DEF WorkerEnds
    <2>2. QED BY <1>5, <2>1 DEF WorkerEnds, FinishAttempt
  <1>6. ASSUME WorkerIsLate(j)
        PROVE  UNCHANGED <<lease, host>> /\ \A k \in Jobs \ {j} : job'[k] = job[k]
    BY <1>6 DEF WorkerIsLate
  <1>7. ASSUME BlockTask(j) PROVE Quiet(j)
    BY <1>7 DEF BlockTask, FinishTask, Quiet
  <1>8. ASSUME AssessmentEnds(j) PROVE Quiet(j)
    BY <1>8 DEF AssessmentEnds, Quiet
  <1>9. QED
    BY <1>1, <1>2, <1>3, <1>4, <1>5, <1>6, <1>7, <1>8 DEF ExecutionStep, Quiet

\* A child whose attempt somebody else ended changes nothing when it answers.
LEMMA LateAnswer ==
  ASSUME HostTypeOK, HostNext, NEW j \in Jobs,
         job[j].pc = "working", attempt[job[j].attempt].status # "running", job'[j].pc # "working"
  PROVE  UNCHANGED vars
  <1>1. ASSUME NEW k \in Jobs, BossStep(k) \/ ReviewStep(k) \/ CancelStep(k) PROVE FALSE
    <2>1. Quiet(k)
      BY <1>1, BossQuiet, ReviewQuiet, CancelQuiet
    <2>2. QED BY <2>1 DEF Quiet
  <1>2. ASSUME NEW k \in Jobs, ExecutionStep(k) PROVE UNCHANGED vars
    <2>1. k = j
      BY <1>2, ExecutionCases
    <2>2. CASE WorkerIsLate(j)
      BY <2>2 DEF WorkerIsLate
    <2>3. ~Quiet(j) /\ \A a \in Attempts : ~StartAttempt(j, a)
      BY DEF Quiet, StartAttempt, At
    <2>4. \A s : ~WorkerEnds(j, s)
      BY DEF WorkerEnds, FinishAttempt
    <2>5. QED BY <1>2, <2>1, <2>2, <2>3, <2>4, ExecutionCases
  <1>3. ASSUME NEW h \in Hosts, UserStep(h) \/ Start(h) PROVE FALSE
    BY <1>3 DEF UserStep, UserCreatesMission, UserCreatesTask, UserMovesMission, hostVars, Start
  <1>4. ASSUME NEW h \in Hosts, Crash(h) PROVE UNCHANGED vars
    BY <1>4 DEF Crash
  <1>5. QED BY <1>1, <1>2, <1>3, <1>4 DEF HostNext

\* Recovery by another process is final: the child it took the attempt from can
\* answer, but its answer changes no row, for any number of processes.
THEOREM LateAnswersAreIgnored == HostSpec => LateAnswersChangeNothing
  <1>1. HostTypeOK /\ [HostNext]_allVars =>
          [\A j \in Jobs :
             /\ job[j].pc = "working" /\ attempt[job[j].attempt].status # "running"
             /\ job'[j].pc # "working"
             => UNCHANGED vars]_allVars
    BY LateAnswer
  <1>2. QED BY <1>1, HostTypeCorrect, PTL DEF HostSpec, LateAnswersChangeNothing

-------------------------------------------------------------------------------
(* No attempt is left behind.                                                *)

\* No process takes a lease, so recovery sees every attempt that is running.
Unleased == /\ lease = [m \in Missions |-> NoLease]
            /\ \A a \in Attempts : attempt[a].expires = 0

LeakInv == HostInv /\ Unleased /\ NoLeakedAttempt

\* Nothing but recovery changes the attempts when a user or a process acts.
LEMMA HostStepAttempts ==
  ASSUME NEW h \in Hosts, UserStep(h) \/ Crash(h)
  PROVE  UNCHANGED <<attempt, lease>>
  BY DEF UserStep, UserCreatesMission, UserCreatesTask, UserMovesMission, Crash, vars,
         CreateMission, CreateTask, TransitionMission

\* No step of a host takes a lease.
LEMMA StepUnleased == HostInv /\ Unleased /\ [HostNext]_allVars => Unleased'
  <1> SUFFICES ASSUME HostInv, Unleased, [HostNext]_allVars PROVE Unleased'
    OBVIOUS
  <1> USE DEF HostInv
  <1>1. CASE UNCHANGED allVars
    BY <1>1 DEF allVars, vars, Unleased
  <1>2. ASSUME UNCHANGED <<attempt, lease>> PROVE Unleased'
    BY <1>2 DEF Unleased
  <1>3. ASSUME NEW j \in Jobs, ExecutionStep(j) PROVE Unleased'
    <2>1. CASE Quiet(j)
      BY <1>2, <2>1 DEF Quiet
    <2>2. ASSUME NEW a \in Attempts, StartAttempt(j, a) PROVE Unleased'
      <3>1. attempt' = [attempt EXCEPT ![a] = [status |-> "running", task |-> job[j].task,
                                               owner |-> NoId, expires |-> 0]]
            /\ lease' = lease
        BY <2>2 DEF StartAttempt, CreateAttempt
      <3>2. QED BY <3>1 DEF Unleased, StoreInv, TypeOK
    <2>3. ASSUME NEW s \in {"succeeded", "failed", "interrupted", "cancelled"}, WorkerEnds(j, s)
          PROVE  Unleased'
      <3> DEFINE a == job[j].attempt
      <3>1. a \in Attempts
        BY <2>3, RowOf DEF WorkerEnds, At, JobHolds
      <3>2. attempt' = [attempt EXCEPT ![a].status = s] /\ lease' = lease
        BY <2>3 DEF WorkerEnds, FinishAttempt
      <3>3. \A b \in Attempts : attempt'[b].expires = attempt[b].expires
        BY <3>1, <3>2 DEF StoreInv, TypeOK, AttemptRow
      <3>4. QED BY <3>2, <3>3 DEF Unleased
    <2>4. CASE WorkerIsLate(j)
      BY <1>2, <2>4 DEF WorkerIsLate, vars
    <2>5. QED BY <1>3, <2>1, <2>2, <2>3, <2>4, ExecutionCases
  <1>4. ASSUME NEW j \in Jobs, BossStep(j) \/ ReviewStep(j) \/ CancelStep(j) PROVE Unleased'
    BY <1>2, <1>4, BossQuiet, ReviewQuiet, CancelQuiet DEF Quiet
  <1>5. ASSUME NEW h \in Hosts, UserStep(h) \/ Crash(h) PROVE Unleased'
    BY <1>2, <1>5, HostStepAttempts
  <1>6. ASSUME NEW h \in Hosts, Start(h) PROVE Unleased'
    <2>1. CASE vars' = vars
      BY <1>2, <2>1 DEF vars
    <2>2. CASE RecoverInterrupted
      <3>1. lease' = lease
        BY <2>2 DEF RecoverInterrupted
      <3>2. PICK as : attempt' = [a \in Attempts |->
                        IF a \in as THEN [attempt[a] EXCEPT !.status = "interrupted"] ELSE attempt[a]]
        BY <2>2 DEF RecoverInterrupted, InterruptWork
      <3>3. \A b \in Attempts : attempt'[b].expires = attempt[b].expires
        BY <3>2 DEF StoreInv, TypeOK, AttemptRow
      <3>4. QED BY <3>1, <3>3 DEF Unleased
    <2>3. QED BY <1>6, <2>1, <2>2 DEF Start
  <1>7. QED BY <1>1, <1>3, <1>4, <1>5, <1>6 DEF HostNext

\* Without leases every running attempt is an orphan to a process that starts.
LEMMA OrphansAreAll ==
  ASSUME HostInv, Unleased
  PROVE  OrphanedAttempts = {a \in Attempts : attempt[a].status = "running"}
  <1> SUFFICES ASSUME NEW a \in Attempts, attempt[a].status = "running"
               PROVE  attempt[a].expires <= now /\ ~LeaseLive(AttemptMission(a))
    BY DEF OrphanedAttempts
  <1>1. now \in 1..MaxTime /\ attempt[a].expires = 0
    BY DEF HostInv, StoreInv, TypeOK, Unleased
  <1>2. AttemptMission(a) \in Missions
    BY TaskColumns DEF HostInv, StoreInv, RowsLinked, AttemptMission
  <1>3. lease[AttemptMission(a)].expires = 0
    BY <1>2 DEF Unleased, NoLease
  <1>4. QED BY <1>1, <1>3, ClockBounds DEF LeaseLive

\* An attempt is started by a command that waits for it, ended before that command
\* goes on, and interrupted by the start-up that follows a crash.
LEMMA StepNoLeak == LeakInv /\ [HostNext]_allVars => NoLeakedAttempt'
  <1> SUFFICES ASSUME LeakInv, [HostNext]_allVars, NEW a \in Attempts, attempt'[a].status = "running",
                      \A h \in Hosts : host'[h] = "up"
               PROVE  \E j \in Jobs : job'[j].pc = "working" /\ job'[j].attempt = a
    BY DEF NoLeakedAttempt
  <1> USE DEF LeakInv, HostInv
  <1> DEFINE Waits(j) == j \in Jobs /\ job[j].pc = "working" /\ job[j].attempt = a
  <1>1. ASSUME attempt[a].status = "running", host' = host PROVE \E j : Waits(j)
    BY <1>1 DEF NoLeakedAttempt
  <1>2. CASE UNCHANGED allVars
    BY <1>1, <1>2 DEF allVars, vars, hostVars
  <1>3. ASSUME NEW j \in Jobs, Quiet(j) PROVE \E k \in Jobs : job'[k].pc = "working" /\ job'[k].attempt = a
    <2>1. PICK k : Waits(k)
      BY <1>1, <1>3 DEF Quiet
    <2>2. k # j /\ job'[k] = job[k]
      BY <1>3, <2>1 DEF Quiet
    <2>3. QED BY <2>1, <2>2
  <1>4. ASSUME NEW j \in Jobs, ExecutionStep(j)
        PROVE  \E k \in Jobs : job'[k].pc = "working" /\ job'[k].attempt = a
    <2>1. host' = host /\ \A k \in Jobs \ {j} : job'[k] = job[k]
      BY <1>4, ExecutionCases
    <2>2. ASSUME NEW b \in Attempts, StartAttempt(j, b)
          PROVE  \E k \in Jobs : job'[k].pc = "working" /\ job'[k].attempt = a
      <3>1. job[j].pc = "starting" /\ job' = [job EXCEPT ![j].pc = "working", ![j].attempt = b]
        BY <2>2 DEF StartAttempt, At
      <3>2. job'[j].pc = "working" /\ job'[j].attempt = b
        BY <3>1, RowOf DEF HostTypeOK, JobRow
      <3>3. CASE a = b
        BY <3>2, <3>3
      <3>4. CASE a # b
        <4>1. attempt[a].status = "running"
          BY <2>2, <3>4 DEF StartAttempt, CreateAttempt, StoreInv, TypeOK
        <4>2. PICK k : Waits(k)
          BY <1>1, <2>1, <4>1
        <4>3. k # j
          BY <3>1, <4>2
        <4>4. QED BY <2>1, <4>2, <4>3
      <3>5. QED BY <3>3, <3>4
    <2>3. ASSUME NEW s \in {"succeeded", "failed", "interrupted", "cancelled"}, WorkerEnds(j, s)
          PROVE  \E k \in Jobs : job'[k].pc = "working" /\ job'[k].attempt = a
      <3> DEFINE b == job[j].attempt
      <3>1. b \in Attempts
        BY <2>3, RowOf DEF WorkerEnds, At, JobHolds
      <3>2. attempt' = [attempt EXCEPT ![b].status = s]
        BY <2>3 DEF WorkerEnds, FinishAttempt
      <3>3. a # b /\ attempt[a].status = "running"
        <4>1. attempt'[b].status = s
          BY <3>1, <3>2 DEF StoreInv, TypeOK, AttemptRow
        <4>2. a # b
          BY <4>1
        <4>3. attempt'[a] = attempt[a]
          BY <3>2, <4>2 DEF StoreInv, TypeOK
        <4>4. QED BY <4>2, <4>3
      <3>4. PICK k : Waits(k)
        BY <1>1, <2>1, <3>3
      <3>5. k # j
        BY <3>3, <3>4
      <3>6. QED BY <2>1, <3>4, <3>5
    <2>4. ASSUME WorkerIsLate(j) PROVE \E k \in Jobs : job'[k].pc = "working" /\ job'[k].attempt = a
      <3>1. attempt[a].status = "running" /\ attempt[job[j].attempt].status # "running"
        BY <2>4 DEF WorkerIsLate, vars
      <3>2. PICK k : Waits(k)
        BY <1>1, <2>1, <3>1
      <3>3. k # j
        BY <3>1, <3>2
      <3>4. QED BY <2>1, <3>2, <3>3
    <2>5. QED BY <1>3, <1>4, <2>2, <2>3, <2>4, ExecutionCases
  <1>5. ASSUME NEW j \in Jobs, BossStep(j) \/ ReviewStep(j) \/ CancelStep(j) PROVE Quiet(j)
    BY <1>5, BossQuiet, ReviewQuiet, CancelQuiet
  <1>6. ASSUME NEW h \in Hosts, UserStep(h)
        PROVE  \E k \in Jobs : job'[k].pc = "working" /\ job'[k].attempt = a
    <2>1. job' = job /\ host' = host
      BY <1>6 DEF UserStep, UserCreatesMission, UserCreatesTask, UserMovesMission, hostVars
    <2>2. attempt' = attempt
      BY <1>6, HostStepAttempts
    <2>3. QED BY <1>1, <2>1, <2>2
  <1>7. ASSUME NEW h \in Hosts, Crash(h) PROVE FALSE
    <2>1. host'[h] = "down"
      BY <1>7 DEF Crash, HostTypeOK
    <2>2. QED BY <2>1
  <1>8. ASSUME NEW h \in Hosts, Start(h) PROVE FALSE
    <2>1. ~(Orphans /\ ~MayAwaitReview(OrphanMissions))
      <3>1. host'[h] = IF Orphans /\ ~MayAwaitReview(OrphanMissions) THEN "nostore" ELSE "up"
        BY <1>8 DEF Start, HostTypeOK
      <3>2. QED BY <3>1
    <2>2. CASE RecoverInterrupted
      <3>1. attempt'[a] = IF a \in OrphanedAttempts
                            THEN [attempt[a] EXCEPT !.status = "interrupted"] ELSE attempt[a]
        BY <2>2 DEF RecoverInterrupted, InterruptWork
      <3>2. CASE attempt[a].status = "running"
        BY <3>1, <3>2, OrphansAreAll DEF StoreInv, TypeOK, AttemptRow
      <3>3. CASE attempt[a].status # "running"
        BY <3>1, <3>3, OrphansAreAll
      <3>4. QED BY <3>2, <3>3
    <2>3. CASE ~Orphans /\ vars' = vars
      BY <2>3, OrphansAreAll DEF Orphans, vars
    <2>4. QED BY <1>8, <2>1, <2>2, <2>3 DEF Start
  <1>9. QED BY <1>2, <1>3, <1>4, <1>5, <1>6, <1>7, <1>8 DEF HostNext

\* While every process is up, each attempt that is running in the store has a
\* command waiting for its child, for any number of processes, crashes and starts.
THEOREM AttemptsAreWaitedFor == HostSpec => []NoLeakedAttempt
  <1>1. HostInit => LeakInv
    BY InitHostInv DEF HostInit, Init, LeakInv, Unleased, NoLeakedAttempt, NoAttempt
  <1>2. LeakInv /\ [HostNext]_allVars => LeakInv'
    BY StepHostInv, StepUnleased, StepNoLeak DEF LeakInv
  <1>3. QED BY <1>1, <1>2, PTL DEF HostSpec, LeakInv

-------------------------------------------------------------------------------
(* One Boss loop at a time.  With two, or with commands that run and verify  *)
(* tasks beside it, neither theorem of this section holds: a mission can be  *)
(* blocked under a running child, and a task run again after its review.     *)

\* One command is a Boss loop and the others, if any, cancel missions; the user takes
\* no mission back to running, pauses none and blocks none.
BossAlone ==
    /\ \A j \in Jobs : Kinds[j] \subseteq {"boss", "cancel"}
    /\ \A j, k \in Jobs : "boss" \in Kinds[j] /\ "boss" \in Kinds[k] => j = k
    /\ UserMoves \cap {"running", "paused", "blocked"} = {}

\* States of a mission that recovery leaves alone, and that no Boss loop begins with.
Over == {"awaiting-review", "failed", "cancelled", "completed"}
CancelPoints == {"cancelling", "cancelTasks", "cancelReviews"}
OnTask == {"dispatching", "starting", "working", "assessing", "blocking", "targeting",
           "opened", "reviewing"}
UnderReview == {"opened", "reviewing"}

\* A command is of a kind it may be.  A Boss loop's mission is running, and then the
\* loop knows its revision, or over; its task, and its verification, are of that mission.
RowFits(j, r) ==
    /\ r.kind \in Kinds[j] \cup {"none"}
    /\ r.pc \notin {"idle"} \cup CancelPoints => r.kind = "boss"
    /\ r.kind = "boss" =>
          /\ r.pc \notin {"idle", "confirming"} \cup CancelPoints
          /\ mission[r.mission] \in Over \cup {"running"}
          /\ mission[r.mission] = "running" => j \in fresh
          /\ r.pc \in OnTask => TaskMission[r.task] = r.mission
          /\ r.pc \in UnderReview => /\ verification[r.verification].status # "absent"
                                     /\ verification[r.verification].task = r.task

\* What runs in the store is in a mission that is running or over.
RunsInOrder ==
    /\ \A a \in Attempts : attempt[a].status = "running" =>
          mission[AttemptMission(a)] \in Over \cup {"running"}
    /\ \A v \in Verifications : verification[v].status = "running" =>
          mission[VerificationMission(v)] \in Over \cup {"running"}

\* The loop with row r waits for the child of a; it waits for the reviewer of v, or was
\* aborted there and is about to cancel the mission, unless the mission of v is over.
AttemptHeld(a, r) == r.pc = "working" /\ r.attempt = a
ReviewHeld(v, r) ==
    IF r.kind = "boss" /\ VerificationMission(v) = r.mission
      THEN \/ r.pc \in UnderReview /\ r.verification = v
           \/ r.pc = "closing" /\ r.end = "cancelled"
      ELSE mission[VerificationMission(v)] \in Over
WorkHeld(r) ==
    /\ \A a \in Attempts : attempt[a].status = "running" => AttemptHeld(a, r)
    /\ \A v \in Verifications : verification[v].status = "running" => ReviewHeld(v, r)

\* The inductive invariant.
AloneInv ==
    /\ HostInv /\ Unleased
    /\ RunsInOrder
    /\ \A j \in Jobs : RowFits(j, job[j])
    /\ \A j \in Jobs : "boss" \in Kinds[j] /\ host[HostOf[j]] = "up" => WorkHeld(job[j])

\* Nothing runs but verifications of missions that are over, none of them m.
NoneLeft(m) ==
    /\ \A a \in Attempts : attempt[a].status # "running"
    /\ \A v \in Verifications : verification[v].status = "running" =>
          VerificationMission(v) # m /\ mission[VerificationMission(v)] \in Over

-------------------------------------------------------------------------------
(* Steps of the Boss loop.                                                   *)

\* The other commands' rows say nothing of the loop's mission, and cannot be in the way.
LEMMA BossStepOf ==
  ASSUME AloneInv, BossAlone, NEW j \in Jobs, "boss" \in Kinds[j],
         \A k \in Jobs \ {j} : job'[k] = job[k], HostInv', Unleased',
         RunsInOrder', RowFits(j, job[j])', host' = host, host[HostOf[j]] = "up" => WorkHeld(job[j])'
  PROVE  AloneInv'
  <1>1. \A k \in Jobs \ {j} : "boss" \notin Kinds[k]
    BY DEF BossAlone
  <1>2. ASSUME NEW k \in Jobs PROVE RowFits(k, job[k])'
    <2>1. CASE k # j
      <3>1. RowFits(k, job[k]) /\ job[k].kind # "boss" /\ job'[k] = job[k]
        BY <1>1, <2>1 DEF AloneInv, RowFits
      <3>2. QED BY <3>1 DEF RowFits
    <2>2. QED BY <2>1
  <1>3. ASSUME NEW k \in Jobs, "boss" \in Kinds[k], host'[HostOf[k]] = "up" PROVE WorkHeld(job[k])'
    <2>1. k = j
      BY <1>1, <1>3
    <2>2. QED BY <1>3, <2>1
  <1>4. QED BY <1>2, <1>3 DEF AloneInv

\* A loop goes on, turns to the next task or to closing, or ends: it does not take up
\* a task, a child or a reviewer.
Moved(j) ==
    \/ Return(j)
    \/ \E end \in CloseEnd : CloseAs(j, end)
    \/ job' = [job EXCEPT ![j] = NoJob]
    \/ \E pc \in JobPoint \ ({"idle", "confirming"} \cup CancelPoints) :
          /\ Goto(j, pc)
          /\ pc \in OnTask => job[j].pc \in OnTask
          /\ pc \in UnderReview => job[j].pc \in UnderReview

\* A loop that moves on within its mission, or ends, keeps a fitting row.
LEMMA RowMoves ==
  ASSUME AloneInv, NEW j \in Jobs, job[j].kind = "boss", Moved(j),
         mission' = mission, j \in fresh => j \in fresh', [Next]_vars
  PROVE  /\ \A k \in Jobs \ {j} : job'[k] = job[k]
         /\ RowFits(j, job[j])'
         /\ job'[j].kind = "boss" => job'[j].mission = job[j].mission
  <1>0. RowFits(j, job[j]) /\ job[j] \in JobRow /\ JobHolds(job[j]) /\ HostTypeOK /\ StoreInv
    BY RowOf DEF AloneInv, HostInv
  <1>1. CASE job' = [job EXCEPT ![j] = NoJob]
    <2>1. job'[j] = NoJob /\ \A k \in Jobs \ {j} : job'[k] = job[k]
      BY <1>0, <1>1 DEF HostTypeOK
    <2>2. QED BY <2>1 DEF RowFits, NoJob
  <1>2. ASSUME NEW x, job' = [job EXCEPT ![j] = x], x.kind = "boss", x.mission = job[j].mission,
               x.pc \in {"choosing", "closing"}
        PROVE  /\ \A k \in Jobs \ {j} : job'[k] = job[k]
               /\ RowFits(j, job[j])'
               /\ job'[j].mission = job[j].mission
    <2>1. job'[j] = x /\ \A k \in Jobs \ {j} : job'[k] = job[k]
      BY <1>0, <1>2 DEF HostTypeOK
    <2>2. QED BY <1>0, <1>2, <2>1 DEF RowFits, OnTask, UnderReview, CancelPoints
  <1>3. CASE Return(j)
    <2>1. job' = [job EXCEPT ![j] = Choosing(j)]
      BY <1>3 DEF Return
    <2>2. QED BY <1>2, <2>1 DEF Choosing, NoJob
  <1>4. ASSUME NEW end \in CloseEnd, CloseAs(j, end)
        PROVE  /\ \A k \in Jobs \ {j} : job'[k] = job[k]
               /\ RowFits(j, job[j])'
               /\ job'[j].mission = job[j].mission
    <2> DEFINE x == [Choosing(j) EXCEPT !.pc = "closing", !.end = end]
    <2>1. job' = [job EXCEPT ![j] = x]
      BY <1>4 DEF CloseAs
    <2>2. x.kind = "boss" /\ x.mission = job[j].mission /\ x.pc = "closing"
      BY DEF Choosing, NoJob
    <2> HIDE DEF x
    <2>3. QED BY <1>2, <2>1, <2>2
  <1>5. ASSUME NEW pc \in JobPoint \ ({"idle", "confirming"} \cup CancelPoints), Goto(j, pc),
               pc \in OnTask => job[j].pc \in OnTask,
               pc \in UnderReview => job[j].pc \in UnderReview
        PROVE  /\ \A k \in Jobs \ {j} : job'[k] = job[k]
               /\ RowFits(j, job[j])'
               /\ job'[j].mission = job[j].mission
    <2>1. /\ \A k \in Jobs \ {j} : job'[k] = job[k]
          /\ job'[j].pc = pc /\ job'[j].kind = job[j].kind /\ job'[j].mission = job[j].mission
          /\ job'[j].task = job[j].task /\ job'[j].verification = job[j].verification
      BY <1>0, <1>5 DEF Goto, HostTypeOK, JobRow
    <2>2. pc \in UnderReview => job[j].verification \in Verifications
      BY <1>0, <1>5 DEF JobHolds, UnderReview
    <2>3. pc \in UnderReview => /\ verification'[job[j].verification].status # "absent"
                                /\ verification'[job[j].verification].task = job[j].task
      BY <1>0, <1>5, <2>2, VerificationKept DEF RowFits
    <2>4. QED BY <1>0, <1>5, <2>1, <2>3 DEF RowFits
  <1>6. QED BY <1>1, <1>3, <1>4, <1>5 DEF Moved

\* Where nothing of its mission runs, a loop holds nothing.
LEMMA NothingHeld ==
  ASSUME NEW j \in Jobs, NEW m, NoneLeft(m)', job'[j].kind = "boss" => job'[j].mission = m
  PROVE  RunsInOrder' /\ WorkHeld(job[j])'
  BY DEF NoneLeft, RunsInOrder, WorkHeld, ReviewHeld

\* A loop that waits for neither a child nor a reviewer, and was not aborted, has left
\* nothing running in its mission.
LEMMA NothingRuns ==
  ASSUME AloneInv, NEW j \in Jobs, job[j].kind = "boss", host[HostOf[j]] = "up",
         job[j].pc = "working" => attempt[job[j].attempt].status # "running",
         job[j].pc \in UnderReview => verification[job[j].verification].status # "running",
         ~(job[j].pc = "closing" /\ job[j].end = "cancelled")
  PROVE  NoneLeft(job[j].mission)
  <1>1. "boss" \in Kinds[j]
    BY DEF AloneInv, RowFits
  <1>2. WorkHeld(job[j])
    BY <1>1 DEF AloneInv
  <1>3. QED BY <1>2 DEF WorkHeld, AttemptHeld, ReviewHeld, NoneLeft

\* A loop moves on when nothing of its mission runs any more.
LEMMA MovesKeep ==
  ASSUME AloneInv, BossAlone, [HostNext]_allVars, NEW j \in Jobs, job[j].kind = "boss", Moved(j),
         mission' = mission, host' = host, j \in fresh => j \in fresh',
         NEW m, m = job[j].mission, NoneLeft(m)'
  PROVE  AloneInv'
  <1>0. HostInv /\ HostInv' /\ Unleased' /\ [Next]_vars
    BY StepHostInv, StepUnleased, StepRefines DEF AloneInv
  <1>1. "boss" \in Kinds[j]
    BY DEF AloneInv, RowFits
  <1>2. /\ \A k \in Jobs \ {j} : job'[k] = job[k]
        /\ RowFits(j, job[j])'
        /\ job'[j].kind = "boss" => job'[j].mission = m
    BY <1>0, RowMoves
  <1>3. RunsInOrder' /\ WorkHeld(job[j])'
    BY <1>2, NothingHeld
  <1>4. QED BY <1>0, <1>1, <1>2, <1>3, BossStepOf

\* The same for the steps that write neither attempts nor verifications.
LEMMA QuietMovesKeep ==
  ASSUME AloneInv, BossAlone, [HostNext]_allVars, NEW j \in Jobs, job[j].kind = "boss", Moved(j),
         UNCHANGED <<mission, attempt, verification, host>>, j \in fresh => j \in fresh',
         host[HostOf[j]] = "up",
         job[j].pc = "working" => attempt[job[j].attempt].status # "running",
         job[j].pc \in UnderReview => verification[job[j].verification].status # "running",
         ~(job[j].pc = "closing" /\ job[j].end = "cancelled")
  PROVE  AloneInv'
  <1>1. PICK m : m = job[j].mission
    OBVIOUS
  <1>2. NoneLeft(m)
    BY <1>1, NothingRuns
  <1>3. NoneLeft(m)'
    BY <1>2 DEF NoneLeft, VerificationMission
  <1>4. QED BY <1>1, <1>3, MovesKeep

\* A command at work is the Boss loop, unless it cancels.
LEMMA WhoWorks ==
  ASSUME AloneInv, NEW j \in Jobs, NEW pc, At(j, pc), pc \notin {"idle"} \cup CancelPoints
  PROVE  job[j].kind = "boss" /\ host[HostOf[j]] = "up" /\ job[j].pc = pc
  BY DEF AloneInv, RowFits, At, Runs

\* A loop ends: what it left running, if anything, is in a mission that is now over.
LEMMA EndsKeep ==
  ASSUME AloneInv, BossAlone, [HostNext]_allVars, NEW j \in Jobs, job[j].kind = "boss",
         host[HostOf[j]] = "up", job[j].pc \notin {"working"} \cup UnderReview,
         job' = [job EXCEPT ![j] = NoJob], UNCHANGED <<attempt, verification, host>>,
         \A n \in Missions : n # job[j].mission => mission'[n] = mission[n],
         job[j].pc = "closing" /\ job[j].end = "cancelled" => mission'[job[j].mission] \in Over
  PROVE  AloneInv'
  <1>0. HostInv /\ HostInv' /\ Unleased' /\ HostTypeOK /\ StoreInv /\ "boss" \in Kinds[j] /\ WorkHeld(job[j])
    BY StepHostInv, StepUnleased DEF AloneInv, RowFits, HostInv
  <1>1. job'[j] = NoJob /\ \A k \in Jobs \ {j} : job'[k] = job[k]
    BY <1>0 DEF HostTypeOK
  <1>2. RowFits(j, job[j])'
    BY <1>1 DEF RowFits, NoJob
  <1>3. /\ \A a \in Attempts : attempt[a].status # "running"
        /\ \A v \in Verifications : verification[v].status = "running" =>
              mission'[VerificationMission(v)] \in Over
    <2>1. \A v \in Verifications : verification[v].status = "running" => VerificationMission(v) \in Missions
      BY <1>0, TaskColumns DEF StoreInv, RowsLinked, VerificationMission
    <2>2. QED BY <1>0, <2>1 DEF WorkHeld, AttemptHeld, ReviewHeld
  <1>4. RunsInOrder' /\ WorkHeld(job[j])'
    BY <1>1, <1>3 DEF RunsInOrder, WorkHeld, ReviewHeld, NoJob, VerificationMission
  <1>5. QED BY <1>0, <1>1, <1>2, <1>4, BossStepOf

\* The steps of the Boss loop itself.
LEMMA BossKeepsAlone ==
  ASSUME AloneInv, BossAlone, NEW j \in Jobs, BossStep(j)
  PROVE  AloneInv'
  <1> USE DEF CancelPoints, OnTask, UnderReview
  <1>0. [HostNext]_allVars /\ HostTypeOK /\ StoreInv /\ RowFits(j, job[j])
    BY DEF HostNext, AloneInv, HostInv
  <1>1. ASSUME NEW m \in Missions, BeginBoss(j, m) PROVE AloneInv'
    <2> DEFINE x == [NoJob EXCEPT !.kind = "boss", !.pc = "planning", !.mission = m]
    <2>1. /\ "boss" \in Kinds[j] /\ job[j].pc = "idle" /\ host[HostOf[j]] = "up"
          /\ job' = [job EXCEPT ![j] = x] /\ host' = host /\ fresh' = Bumped(m, {j})
          /\ UNCHANGED <<attempt, verification>>
      BY <1>1 DEF BeginBoss, At, Runs, TransitionMission, vars
    <2>2. job'[j] = x /\ \A k \in Jobs \ {j} : job'[k] = job[k]
      BY <1>0, <2>1 DEF HostTypeOK
    <2>3. /\ mission[m] \notin Over
          /\ mission' = [mission EXCEPT ![m] = "running"]
      <3>1. CASE mission[m] = "running"
        BY <1>0, <1>1, <3>1 DEF BeginBoss, vars, Over, StoreInv, TypeOK
      <3>2. CASE mission[m] # "running"
        BY <1>1, <3>2 DEF BeginBoss, TransitionMission, CanTransition, Over
      <3>3. QED BY <3>1, <3>2
    <2>4. mission'[m] = "running" /\ \A n \in Missions : n # m => mission'[n] = mission[n]
      BY <1>0, <2>3 DEF StoreInv, TypeOK
    <2>5. RowFits(j, job[j])'
      <3>1. x.kind = "boss" /\ x.pc = "planning" /\ x.mission = m
        BY DEF NoJob
      <3> HIDE DEF x
      <3>2. j \in fresh'
        BY <2>1 DEF Bumped
      <3>3. QED BY <2>1, <2>2, <2>4, <3>1, <3>2 DEF RowFits
    <2>6. NoneLeft(m)
      <3>1. WorkHeld(job[j]) /\ job[j].kind # "boss"
        BY <1>0, <2>1 DEF AloneInv, RowFits
      <3>2. QED BY <2>1, <2>3, <3>1 DEF WorkHeld, AttemptHeld, ReviewHeld, NoneLeft
    <2>7. NoneLeft(m)'
      <3>1. \A v \in Verifications : verification[v].status = "running" => VerificationMission(v) \in Missions
        BY <1>0, TaskColumns DEF StoreInv, RowsLinked, VerificationMission
      <3>2. \A v \in Verifications : VerificationMission(v)' = VerificationMission(v)
        BY <2>1 DEF VerificationMission
      <3>3. QED BY <2>1, <2>4, <2>6, <3>1, <3>2 DEF NoneLeft
    <2>8. job'[j].mission = m
      BY <2>2 DEF NoJob
    <2> HIDE DEF x
    <2>9. RunsInOrder' /\ WorkHeld(job[j])'
      BY <2>7, <2>8, NothingHeld
    <2>10. QED
      BY <1>0, <2>1, <2>2, <2>5, <2>9, BossStepOf, StepHostInv, StepUnleased DEF AloneInv
  <1>2. ASSUME NEW pc \in {"choosing", "planning"}, BossProceeds(j, pc) PROVE AloneInv'
    <2>1. /\ job[j].kind = "boss" /\ host[HostOf[j]] = "up" /\ job[j].pc \in {"planning", "evaluating"}
      BY <1>2, WhoWorks DEF BossProceeds
    <2>2. Moved(j)
      BY <1>2 DEF BossProceeds, Moved, JobPoint, Waiting
    <2>3. UNCHANGED <<mission, attempt, verification, host>> /\ j \in fresh'
      BY <1>2 DEF BossProceeds, vars, Bumped
    <2>4. QED BY <1>0, <2>1, <2>2, <2>3, QuietMovesKeep
  <1>3. ASSUME NEW end \in CloseEnd, BossCloses(j, end) PROVE AloneInv'
    <2>1. /\ job[j].kind = "boss" /\ host[HostOf[j]] = "up" /\ job[j].pc \in {"planning", "evaluating", "choosing"}
      BY <1>3, WhoWorks DEF BossCloses
    <2>2. Moved(j)
      BY <1>3 DEF BossCloses, Moved
    <2>3. UNCHANGED <<mission, attempt, verification, host>> /\ j \in fresh'
      BY <1>3 DEF BossCloses, vars, Bumped
    <2>4. QED BY <1>0, <2>1, <2>2, <2>3, QuietMovesKeep
  <1>4. ASSUME BossIsStale(j) PROVE AloneInv'
    <2>1. /\ job[j].kind = "boss" /\ host[HostOf[j]] = "up"
          /\ job[j].pc \in {"planning", "choosing", "evaluating", "closing"}
      BY <1>4, WhoWorks DEF BossIsStale
    <2>2. Moved(j) /\ UNCHANGED <<mission, attempt, verification, host, fresh>> /\ j \notin fresh
      BY <1>4 DEF BossIsStale, Moved, vars
    <2>3. mission'[job[j].mission] \in Over
      BY <1>0, <2>1, <2>2 DEF RowFits
    <2>4. job' = [job EXCEPT ![j] = NoJob]
      BY <1>4 DEF BossIsStale
    <2>5. QED BY <1>0, <2>1, <2>2, <2>3, <2>4, EndsKeep
  <1>5. ASSUME CloseNothing(j) PROVE AloneInv'
    <2>1. job[j].kind = "boss" /\ host[HostOf[j]] = "up" /\ job[j].pc = "closing"
      BY <1>5, WhoWorks DEF CloseNothing
    <2>2. /\ UNCHANGED <<mission, attempt, verification, host>> /\ job' = [job EXCEPT ![j] = NoJob]
      BY <1>5 DEF CloseNothing, vars
    <2>3. job[j].end = "cancelled" => mission'[job[j].mission] \in Over
      <3>1. SUFFICES ASSUME job[j].end = "cancelled" PROVE mission[job[j].mission] \in Over
        BY <2>2
      <3>2. mission[job[j].mission] = "cancelled" \/ ~CanTransition(mission[job[j].mission], "cancelled")
        BY <1>5, <3>1 DEF CloseNothing, ClosingState
      <3>3. mission[job[j].mission] # "running"
        BY <3>2 DEF CanTransition
      <3>4. QED BY <1>0, <2>1, <3>3 DEF RowFits
    <2>4. QED BY <1>0, <2>1, <2>2, <2>3, EndsKeep
  <1>6. ASSUME CloseMission(j) PROVE AloneInv'
    <2>1. job[j].kind = "boss" /\ host[HostOf[j]] = "up" /\ job[j].pc = "closing"
      BY <1>6, WhoWorks DEF CloseMission
    <2>2. PICK m : m = job[j].mission
      OBVIOUS
    <2>3. m \in Missions
      BY <1>0, <2>1, <2>2, RowOf DEF JobHolds
    <2>4. /\ mission' = [mission EXCEPT ![m] = ClosingState(j)]
          /\ UNCHANGED <<attempt, verification, host>>
      BY <1>6, <2>2 DEF CloseMission, TransitionMission
    <2>5. mission'[m] = ClosingState(j) /\ \A n \in Missions : n # m => mission'[n] = mission[n]
      BY <1>0, <2>3, <2>4 DEF StoreInv, TypeOK
    <2>6. CASE ClosingState(j) = job[j].end
      <3>1. job' = [job EXCEPT ![j] = NoJob]
        BY <1>6, <2>6 DEF CloseMission
      <3>2. job[j].end = "cancelled" => mission'[m] \in Over
        BY <2>5, <2>6 DEF Over
      <3>3. QED BY <1>0, <2>1, <2>2, <2>4, <2>5, <3>1, <3>2, EndsKeep
    <2>7. CASE ClosingState(j) # job[j].end
      <3>1. job' = job /\ j \in fresh' /\ mission'[m] = "awaiting-review" /\ job[j].end = "completed"
        BY <1>6, <2>5, <2>7 DEF CloseMission, ClosingState, Bumped
      <3>2. NoneLeft(m)
        BY <1>0, <2>1, <2>2, <3>1, NothingRuns
      <3>3. NoneLeft(m)'
        <4>1. \A v \in Verifications : verification[v].status = "running" => VerificationMission(v) \in Missions
          BY <1>0, TaskColumns DEF StoreInv, RowsLinked, VerificationMission
        <4>2. QED BY <2>4, <2>5, <3>2, <4>1 DEF NoneLeft, VerificationMission
      <3>4. RunsInOrder' /\ WorkHeld(job[j])'
        BY <2>2, <3>1, <3>3, NothingHeld
      <3>5. RowFits(j, job[j])'
        BY <1>0, <2>1, <2>2, <3>1 DEF RowFits, Over
      <3>6. "boss" \in Kinds[j]
        BY <1>0, <2>1 DEF RowFits
      <3>7. HostInv' /\ Unleased'
        BY <1>0, StepHostInv, StepUnleased DEF AloneInv
      <3>8. QED BY <2>4, <3>1, <3>4, <3>5, <3>6, <3>7, BossStepOf
    <2>8. QED BY <2>6, <2>7
  <1>7. ASSUME EndTasks(j) PROVE AloneInv'
    <2>1. job[j].kind = "boss" /\ host[HostOf[j]] = "up" /\ job[j].pc = "choosing"
      BY <1>7, WhoWorks DEF EndTasks
    <2>2. Moved(j) /\ UNCHANGED <<mission, attempt, verification, host, fresh>>
      BY <1>7 DEF EndTasks, Moved, JobPoint, Waiting, vars
    <2>3. QED BY <1>0, <2>1, <2>2, QuietMovesKeep
  <1>8. ASSUME NEW t \in Tasks, ChooseTask(j, t) \/ PlanTask(j, t) PROVE AloneInv'
    <2>1. job[j].kind = "boss" /\ host[HostOf[j]] = "up" /\ job[j].pc = "choosing"
      BY <1>8, WhoWorks DEF ChooseTask, PlanTask
    <2>2. /\ job' = [job EXCEPT ![j].pc = "dispatching", ![j].task = t]
          /\ UNCHANGED <<mission, attempt, verification, host, fresh>>
          /\ TaskMission[t] = job[j].mission
      BY <1>8 DEF ChooseTask, PlanTask, CreateTask, vars
    <2>3. PICK m : m = job[j].mission
      OBVIOUS
    <2>4. /\ \A k \in Jobs \ {j} : job'[k] = job[k]
          /\ job'[j].pc = "dispatching" /\ job'[j].kind = "boss" /\ job'[j].task = t /\ job'[j].mission = m
      BY <1>0, <2>1, <2>2, <2>3 DEF HostTypeOK, JobRow
    <2>5. RowFits(j, job[j])'
      BY <1>0, <2>1, <2>2, <2>3, <2>4 DEF RowFits
    <2>6. NoneLeft(m)
      BY <1>0, <2>1, <2>3, NothingRuns
    <2>7. NoneLeft(m)'
      BY <2>2, <2>6 DEF NoneLeft, VerificationMission
    <2>8. RunsInOrder' /\ WorkHeld(job[j])'
      BY <2>4, <2>7, NothingHeld
    <2>9. QED
      BY <1>0, <2>1, <2>2, <2>4, <2>5, <2>8, BossStepOf, StepHostInv, StepUnleased DEF AloneInv, RowFits
  <1>9. QED BY <1>1, <1>2, <1>3, <1>4, <1>5, <1>6, <1>7, <1>8 DEF BossStep

\* A loop whose child answered goes where the answer leads.
LEMMA FollowMoves ==
  ASSUME NEW j \in Jobs, NEW next \in {"targeting", "blocking", "return", "assessing", "cancelled"},
         Follow(j, next), job[j].pc = "working"
  PROVE  Moved(j)
  <1> USE DEF CancelPoints, OnTask, UnderReview
  <1>1. Return(j) \/ CloseAs(j, "cancelled")
        \/ (next \in {"targeting", "blocking", "assessing"} /\ Goto(j, next))
    BY DEF Follow
  <1>2. QED BY <1>1 DEF Moved, CloseEnd, JobPoint, Waiting

\* The steps of a task run.
LEMMA ExecutionKeepsAlone ==
  ASSUME AloneInv, BossAlone, NEW j \in Jobs, ExecutionStep(j)
  PROVE  AloneInv'
  <1> USE DEF CancelPoints, OnTask, UnderReview
  <1>0. [HostNext]_allVars /\ HostTypeOK /\ StoreInv /\ RowFits(j, job[j])
    BY DEF HostNext, AloneInv, HostInv
  <1>1. ASSUME NEW t \in Tasks, BeginTask(j, t) PROVE AloneInv'
    BY <1>1 DEF BeginTask, BossAlone
  <1>2. CASE Dispatch(j) \/ StartRefused(j) \/ WorkerIsLate(j) \/ BlockTask(j) \/ AssessmentEnds(j)
    <2>1. \E pc \in {"dispatching", "starting", "working", "blocking", "assessing"} :
             At(j, pc) /\ (pc = "working" => attempt[job[j].attempt].status # "running")
      BY <1>2 DEF Dispatch, StartRefused, WorkerIsLate, BlockTask, AssessmentEnds
    <2>2. /\ job[j].kind = "boss" /\ host[HostOf[j]] = "up"
          /\ job[j].pc \in {"dispatching", "starting", "working", "blocking", "assessing"}
          /\ job[j].pc = "working" => attempt[job[j].attempt].status # "running"
      BY <2>1, WhoWorks
    <2>3. UNCHANGED <<mission, attempt, verification, host, fresh>>
      BY <1>2 DEF Dispatch, StartRefused, WorkerIsLate, BlockTask, AssessmentEnds, FinishTask, vars
    <2>4. Moved(j)
      BY <1>2, <2>2 DEF Dispatch, StartRefused, WorkerIsLate, BlockTask, AssessmentEnds, Moved, JobPoint, Waiting
    <2>5. QED BY <1>0, <2>2, <2>3, <2>4, QuietMovesKeep
  <1>3. ASSUME NEW a \in Attempts, StartAttempt(j, a) PROVE AloneInv'
    <2>1. job[j].kind = "boss" /\ host[HostOf[j]] = "up" /\ job[j].pc = "starting"
      BY <1>3, WhoWorks DEF StartAttempt
    <2>2. PICK m, t : m = job[j].mission /\ t = job[j].task
      OBVIOUS
    <2>3. /\ m \in Missions /\ t \in Tasks /\ TaskMission[t] = m /\ mission[m] \in Over \cup {"running"}
      BY <1>0, <2>1, <2>2, RowOf DEF RowFits, JobHolds
    <2>4. /\ attempt'[a].task = t /\ \A b \in Attempts \ {a} : attempt'[b] = attempt[b]
          /\ UNCHANGED <<mission, verification, host, fresh>>
      BY <1>0, <1>3, <2>2 DEF StartAttempt, CreateAttempt, StoreInv, TypeOK
    <2>5. /\ \A k \in Jobs \ {j} : job'[k] = job[k]
          /\ job'[j].pc = "working" /\ job'[j].kind = "boss" /\ job'[j].task = t /\ job'[j].mission = m
          /\ job'[j].attempt = a
      BY <1>0, <1>3, <2>1, <2>2 DEF StartAttempt, HostTypeOK, JobRow
    <2>6. NoneLeft(m)
      BY <1>0, <2>1, <2>2, NothingRuns
    <2>7. RowFits(j, job[j])'
      BY <1>0, <2>1, <2>2, <2>3, <2>4, <2>5 DEF RowFits
    <2>8. RunsInOrder'
      BY <2>3, <2>4, <2>6 DEF RunsInOrder, NoneLeft, AttemptMission, VerificationMission
    <2>9. WorkHeld(job[j])'
      BY <2>4, <2>5, <2>6 DEF WorkHeld, AttemptHeld, ReviewHeld, NoneLeft, VerificationMission
    <2>10. QED
      BY <1>0, <2>1, <2>4, <2>5, <2>7, <2>8, <2>9, BossStepOf, StepHostInv, StepUnleased DEF AloneInv, RowFits
  <1>4. ASSUME NEW s \in {"succeeded", "failed", "interrupted", "cancelled"}, WorkerEnds(j, s) PROVE AloneInv'
    <2>1. job[j].kind = "boss" /\ host[HostOf[j]] = "up" /\ job[j].pc = "working"
      BY <1>4, WhoWorks DEF WorkerEnds
    <2>2. PICK m, a : m = job[j].mission /\ a = job[j].attempt
      OBVIOUS
    <2>3. a \in Attempts /\ WorkHeld(job[j])
      BY <1>0, <2>1, <2>2, RowOf DEF JobHolds, AloneInv, RowFits
    <2>4. /\ attempt' = [attempt EXCEPT ![a].status = s]
          /\ UNCHANGED <<mission, verification, host, fresh>>
      BY <1>4, <2>2 DEF WorkerEnds, FinishAttempt
    <2>5. attempt'[a].status # "running" /\ \A b \in Attempts \ {a} : attempt'[b] = attempt[b]
      BY <1>0, <2>3, <2>4 DEF StoreInv, TypeOK, AttemptRow
    <2>6. NoneLeft(m)'
      BY <2>1, <2>2, <2>3, <2>4, <2>5 DEF NoneLeft, WorkHeld, AttemptHeld, ReviewHeld, VerificationMission
    <2>7. PICK next \in AfterWorker(j, s) : Follow(j, next)
      BY <1>4 DEF WorkerEnds
    <2>8. next \in {"targeting", "blocking", "return", "assessing", "cancelled"}
      BY DEF AfterWorker
    <2>9. Moved(j)
      BY <2>1, <2>7, <2>8, FollowMoves
    <2>10. QED BY <1>0, <2>1, <2>2, <2>4, <2>6, <2>9, MovesKeep
  <1>5. QED BY <1>1, <1>2, <1>3, <1>4 DEF ExecutionStep

\* A verification that has ended is no longer held; the loop moves on.
LEMMA ReviewEndsKeep ==
  ASSUME AloneInv, BossAlone, [HostNext]_allVars, NEW j \in Jobs, job[j].kind = "boss", Moved(j),
         host[HostOf[j]] = "up", job[j].pc \in UnderReview, UNCHANGED <<mission, attempt, host>>,
         j \in fresh => j \in fresh',
         verification'[job[j].verification].status # "running",
         \A v \in Verifications \ {job[j].verification} : verification'[v] = verification[v]
  PROVE  AloneInv'
  <1>1. WorkHeld(job[j])
    BY DEF AloneInv, RowFits
  <1>2. PICK m, w : m = job[j].mission /\ w = job[j].verification
    OBVIOUS
  <1>3. /\ \A a \in Attempts : attempt[a].status # "running"
        /\ \A v \in Verifications : verification'[v].status = "running" =>
              /\ verification'[v] = verification[v] /\ VerificationMission(v) # m
              /\ mission[VerificationMission(v)] \in Over
    BY <1>1, <1>2 DEF WorkHeld, AttemptHeld, ReviewHeld, UnderReview
  <1>4. NoneLeft(m)'
    BY <1>3 DEF NoneLeft, VerificationMission
  <1>5. QED BY <1>2, <1>4, MovesKeep

\* The steps of a verification.
LEMMA ReviewKeepsAlone ==
  ASSUME AloneInv, BossAlone, NEW j \in Jobs, ReviewStep(j)
  PROVE  AloneInv'
  <1> USE DEF CancelPoints, OnTask, UnderReview
  <1>0. [HostNext]_allVars /\ HostTypeOK /\ StoreInv /\ RowFits(j, job[j])
    BY DEF HostNext, AloneInv, HostInv
  <1>1. ASSUME NEW t \in Tasks, BeginLoop(j, t) PROVE AloneInv'
    BY <1>1 DEF BeginLoop, BossAlone
  <1>2. ASSUME NEW t \in Tasks, NEW a \in Attempts, BeginVerify(j, t, a) PROVE AloneInv'
    BY <1>2 DEF BeginVerify, BossAlone
  <1>3. CASE ReviewRefused(j) \/ ReviewerIsLate(j)
    <2>1. \E pc \in {"targeting", "reviewing"} :
             At(j, pc) /\ (pc = "reviewing" => verification[job[j].verification].status # "running")
      BY <1>3 DEF ReviewRefused, ReviewerIsLate
    <2>2. /\ job[j].kind = "boss" /\ host[HostOf[j]] = "up"
          /\ job[j].pc \in {"targeting", "reviewing"}
          /\ job[j].pc = "reviewing" => verification[job[j].verification].status # "running"
      BY <2>1, WhoWorks
    <2>3. UNCHANGED <<mission, attempt, verification, host, fresh>>
      BY <1>3 DEF ReviewRefused, ReviewerIsLate, vars
    <2>4. Moved(j)
      BY <1>3 DEF ReviewRefused, ReviewerIsLate, Moved
    <2>5. QED BY <1>0, <2>2, <2>3, <2>4, QuietMovesKeep
  <1>10. CASE Confirm(j)
    BY <1>0, <1>10, WhoWorks DEF Confirm, RowFits
  <1>4. CASE MarkReview(j)
    <2>1. job[j].kind = "boss" /\ host[HostOf[j]] = "up" /\ job[j].pc = "opened"
      BY <1>4, WhoWorks DEF MarkReview
    <2>2. UNCHANGED <<mission, attempt, verification, host, fresh>>
      BY <1>4 DEF MarkReview, SetTaskQualityStatus, vars
    <2>3. CASE verification[job[j].verification].status # "running" /\ Return(j)
      BY <1>0, <2>1, <2>2, <2>3, QuietMovesKeep DEF Moved
    <2>4. CASE Goto(j, "reviewing")
      <3>1. Moved(j)
        BY <2>1, <2>4 DEF Moved, JobPoint, Waiting
      <3>2. \A k \in Jobs \ {j} : job'[k] = job[k]
        BY <1>0, <2>4, MovesKeepOthers
      <3>3. job'[j] = [job[j] EXCEPT !.pc = "reviewing"]
        BY <1>0, <2>4 DEF Goto, HostTypeOK
      <3>4. /\ job'[j].kind = "boss" /\ job'[j].mission = job[j].mission /\ job'[j].pc = "reviewing"
            /\ job'[j].verification = job[j].verification
        BY <1>0, <2>1, <3>3 DEF HostTypeOK, JobRow
      <3>5. WorkHeld(job[j])
        BY <1>0, <2>1 DEF AloneInv, RowFits
      <3>6. WorkHeld(job[j])'
        BY <2>1, <2>2, <3>4, <3>5 DEF WorkHeld, AttemptHeld, ReviewHeld, VerificationMission
      <3>7. RunsInOrder'
        BY <2>2 DEF AloneInv, RunsInOrder, AttemptMission, VerificationMission
      <3>8. RowFits(j, job[j])'
        BY <1>0, <2>1, <2>2, <3>1, RowMoves, StepRefines DEF AloneInv
      <3>9. QED
        BY <1>0, <2>1, <2>2, <3>2, <3>6, <3>7, <3>8, BossStepOf, StepHostInv, StepUnleased DEF AloneInv, RowFits
    <2>5. QED BY <1>4, <2>3, <2>4 DEF MarkReview
  <1>5. CASE ReviewerAborts(j)
    <2>1. job[j].kind = "boss" /\ host[HostOf[j]] = "up" /\ job[j].pc = "reviewing"
      BY <1>5, WhoWorks DEF ReviewerAborts
    <2>2. CloseAs(j, "cancelled") /\ UNCHANGED <<mission, attempt, verification, host, fresh>>
      BY <1>5 DEF ReviewerAborts, vars
    <2>3. Moved(j)
      BY <2>2 DEF Moved, CloseEnd
    <2>4. /\ \A k \in Jobs \ {j} : job'[k] = job[k]
          /\ job'[j] = [Choosing(j) EXCEPT !.pc = "closing", !.end = "cancelled"]
      BY <1>0, <2>2, OthersKept DEF CloseAs, HostTypeOK
    <2>5. /\ job'[j].kind = "boss" /\ job'[j].mission = job[j].mission
          /\ job'[j].pc = "closing" /\ job'[j].end = "cancelled"
      BY <2>4 DEF Choosing, NoJob
    <2>6. WorkHeld(job[j])
      BY <1>0, <2>1 DEF AloneInv, RowFits
    <2>7. WorkHeld(job[j])'
      BY <2>1, <2>2, <2>5, <2>6 DEF WorkHeld, AttemptHeld, ReviewHeld, VerificationMission
    <2>8. RunsInOrder'
      BY <2>2 DEF AloneInv, RunsInOrder, AttemptMission, VerificationMission
    <2>9. RowFits(j, job[j])'
      BY <1>0, <2>1, <2>2, <2>3, RowMoves, StepRefines DEF AloneInv
    <2>10. "boss" \in Kinds[j] /\ HostInv' /\ Unleased' /\ \A k \in Jobs \ {j} : job'[k] = job[k]
      BY <1>0, <2>1, <2>4, StepHostInv, StepUnleased DEF AloneInv, RowFits
    <2>11. QED BY <2>2, <2>7, <2>8, <2>9, <2>10, BossStepOf
  <1>6. ASSUME NEW v \in Verifications, OpenReview(j, v) PROVE AloneInv'
    <2>1. job[j].kind = "boss" /\ host[HostOf[j]] = "up" /\ job[j].pc = "targeting"
      BY <1>6, WhoWorks DEF OpenReview
    <2>2. PICK m, t : m = job[j].mission /\ t = job[j].task
      OBVIOUS
    <2>3. m \in Missions /\ t \in Tasks /\ TaskMission[t] = m /\ mission[m] \in Over \cup {"running"}
      BY <1>0, <2>1, <2>2, RowOf DEF RowFits, JobHolds
    <2>4. /\ verification'[v].task = t /\ verification'[v].status = "running"
          /\ \A w \in Verifications \ {v} : verification'[w] = verification[w]
          /\ UNCHANGED <<mission, attempt, host, fresh>>
      BY <1>0, <1>6, <2>2 DEF OpenReview, CreateVerificationRun, StoreInv, TypeOK
    <2>5. /\ \A k \in Jobs \ {j} : job'[k] = job[k]
          /\ job'[j].pc = "opened" /\ job'[j].kind = "boss" /\ job'[j].task = t /\ job'[j].mission = m
          /\ job'[j].verification = v
      BY <1>0, <1>6, <2>1, <2>2 DEF OpenReview, HostTypeOK, JobRow
    <2>6. NoneLeft(m)
      BY <1>0, <2>1, <2>2, NothingRuns
    <2>7. RowFits(j, job[j])'
      BY <1>0, <2>1, <2>2, <2>3, <2>4, <2>5 DEF RowFits
    <2>8. RunsInOrder'
      BY <2>3, <2>4, <2>6 DEF RunsInOrder, NoneLeft, AttemptMission, VerificationMission
    <2>9. WorkHeld(job[j])'
      <3>1. VerificationMission(v)' = m
        BY <2>3, <2>4 DEF VerificationMission
      <3>2. \A w \in Verifications \ {v} : verification'[w].status = "running" =>
               VerificationMission(w)' # m /\ mission'[VerificationMission(w)'] \in Over
        BY <2>4, <2>6 DEF NoneLeft, VerificationMission
      <3>3. \A a \in Attempts : attempt'[a].status # "running"
        BY <2>4, <2>6 DEF NoneLeft
      <3>4. QED BY <2>5, <3>1, <3>2, <3>3 DEF WorkHeld, ReviewHeld
    <2>10. QED
      BY <1>0, <2>1, <2>4, <2>5, <2>7, <2>8, <2>9, BossStepOf, StepHostInv, StepUnleased DEF AloneInv, RowFits
  <1>7. ASSUME NEW d \in Verdict, ReviewerDecides(j, d) PROVE AloneInv'
    <2>1. job[j].kind = "boss" /\ host[HostOf[j]] = "up" /\ job[j].pc = "reviewing"
      BY <1>7, WhoWorks DEF ReviewerDecides
    <2>2. /\ UNCHANGED <<mission, attempt, host>>
          /\ j \in fresh => j \in fresh'
          /\ verification' = [verification EXCEPT ![job[j].verification].status = "completed",
                                                  ![job[j].verification].verdict = d]
      BY <1>7 DEF ReviewerDecides, FinalizeQualityVerification, Bumped
    <2>3. /\ verification'[job[j].verification].status # "running"
          /\ \A v \in Verifications \ {job[j].verification} : verification'[v] = verification[v]
      BY <1>0, <2>1, <2>2, RowOf DEF JobHolds, StoreInv, TypeOK, VerificationRow
    <2>4. Return(j)
      BY <1>7, <2>1 DEF ReviewerDecides
    <2>6. Moved(j)
      BY <2>4 DEF Moved
    <2>5. QED BY <1>0, <2>1, <2>2, <2>3, <2>6, ReviewEndsKeep
  <1>8. ASSUME NEW s \in {"review_required", "blocked"}, ReviewerFails(j, s) PROVE AloneInv'
    <2>1. job[j].kind = "boss" /\ host[HostOf[j]] = "up" /\ job[j].pc = "reviewing"
      BY <1>8, WhoWorks DEF ReviewerFails
    <2>2. /\ UNCHANGED <<mission, attempt, host, fresh>>
          /\ verification' = [verification EXCEPT ![job[j].verification].status =
                                IF s = "review_required" THEN "interrupted" ELSE "blocked"]
      BY <1>8 DEF ReviewerFails, FinalizeQualityFailure
    <2>3. /\ verification'[job[j].verification].status # "running"
          /\ \A v \in Verifications \ {job[j].verification} : verification'[v] = verification[v]
      BY <1>0, <2>1, <2>2, RowOf DEF JobHolds, StoreInv, TypeOK, VerificationRow
    <2>4. Moved(j)
      BY <1>8 DEF ReviewerFails, Moved, CloseEnd
    <2>5. QED BY <1>0, <2>1, <2>2, <2>3, <2>4, ReviewEndsKeep
  <1>9. QED BY <1>1, <1>2, <1>3, <1>4, <1>5, <1>6, <1>7, <1>8, <1>10 DEF ReviewStep
-------------------------------------------------------------------------------
(* Steps that are not the loop's.                                            *)

\* The row of a command that is not a Boss loop.
CancelRow(k, r) == r.kind \in (Kinds[k] \cup {"none"}) \ {"boss"} /\ r.pc \in {"idle"} \cup CancelPoints

\* The loops keep their rows, unless their process ends; a mission that is running or
\* over changes only to be over; and nothing is started.
LEMMA OthersKeepAlone ==
  ASSUME AloneInv, BossAlone, [HostNext]_allVars, attempt' = attempt,
         \A k \in Jobs : \/ job'[k] = job[k]
                         \/ job[k].kind # "boss" /\ CancelRow(k, job'[k])
                         \/ job'[k] = NoJob /\ host'[HostOf[k]] # "up",
         \A h \in Hosts : host'[h] = "up" => host[h] = "up",
         \A m \in Missions : \/ mission'[m] = mission[m] \/ mission'[m] \in Over
                             \/ mission[m] \notin Over \cup {"running"},
         \A k \in fresh : \/ k \in fresh' \/ job'[k] # job[k]
                          \/ mission'[job[k].mission] # "running",
         \A v \in Verifications : verification'[v] = verification[v] \/ verification'[v].status # "running"
  PROVE  AloneInv'
  <1>0. /\ HostInv /\ HostInv' /\ Unleased' /\ [Next]_vars /\ StoreInv /\ HostTypeOK
        /\ \A k \in Jobs : RowFits(k, job[k])
    BY StepHostInv, StepUnleased, StepRefines DEF AloneInv, HostInv
  <1>1. /\ \A a \in Attempts : attempt[a].status = "running" => AttemptMission(a) \in Missions
        /\ \A v \in Verifications : verification[v].status = "running" => VerificationMission(v) \in Missions
    BY <1>0, TaskColumns DEF StoreInv, RowsLinked, AttemptMission, VerificationMission
  <1>2. RunsInOrder'
    <2>1. \A a \in Attempts : AttemptMission(a)' = AttemptMission(a)
      BY DEF AttemptMission
    <2>2. ASSUME NEW v \in Verifications, verification'[v].status = "running"
          PROVE  verification[v].status = "running" /\ VerificationMission(v)' = VerificationMission(v)
      BY <2>2 DEF VerificationMission
    <2>3. QED BY <1>1, <2>1, <2>2 DEF AloneInv, RunsInOrder
  <1>3. ASSUME NEW k \in Jobs PROVE RowFits(k, job[k])'
    <2>1. CASE job'[k] = job[k]
      <3>1. CASE job[k].kind = "boss"
        <4>1. PICK r : r = job[k]
          OBVIOUS
        <4>2. /\ r.mission \in Missions
              /\ r.pc \in UnderReview => r.verification \in Verifications
          BY <1>0, <3>1, <4>1, RowOf DEF RowFits, JobHolds, UnderReview
        <4>3. r.pc \in UnderReview => /\ verification'[r.verification].status # "absent"
                                      /\ verification'[r.verification].task = r.task
          BY <1>0, <3>1, <4>1, <4>2, VerificationKept DEF RowFits
        <4>4. /\ mission'[r.mission] \in Over \cup {"running"}
              /\ mission'[r.mission] = "running" => mission[r.mission] = "running"
          BY <1>0, <3>1, <4>1, <4>2 DEF RowFits, Over
        <4>5. mission'[r.mission] = "running" => k \in fresh'
          BY <1>0, <2>1, <3>1, <4>1, <4>4 DEF RowFits
        <4>6. RowFits(k, r)
          BY <1>0, <4>1
        <4>7. r.kind = "boss" /\ job'[k] = r
          BY <2>1, <3>1, <4>1
        <4>8. QED BY <4>3, <4>4, <4>5, <4>6, <4>7 DEF RowFits
      <3>2. QED BY <1>0, <2>1, <3>1 DEF RowFits
    <2>2. CASE CancelRow(k, job'[k]) \/ job'[k] = NoJob
      BY <2>2 DEF CancelRow, RowFits, NoJob
    <2>3. QED BY <2>1, <2>2
  <1>4. ASSUME NEW k \in Jobs, "boss" \in Kinds[k], host'[HostOf[k]] = "up" PROVE WorkHeld(job[k])'
    <2>1. PICK r, q : r = job[k] /\ q = job'[k]
      OBVIOUS
    <2>2. WorkHeld(r) /\ RowFits(k, r)
      BY <1>0, <1>4, <2>1, HostColumns DEF AloneInv
    <2>3. q = r \/ (r.kind # "boss" /\ CancelRow(k, q))
      BY <1>4, <2>1
    <2>4. ASSUME NEW a \in Attempts, attempt'[a].status = "running" PROVE AttemptHeld(a, q)
      <3>1. AttemptHeld(a, r)
        BY <2>2, <2>4 DEF WorkHeld
      <3>2. q = r
        BY <2>2, <2>3, <3>1 DEF AttemptHeld, RowFits, CancelPoints
      <3>3. QED BY <3>1, <3>2
    <2>5. ASSUME NEW v \in Verifications, verification'[v].status = "running" PROVE ReviewHeld(v, q)'
      <3>1. verification'[v] = verification[v] /\ ReviewHeld(v, r) /\ VerificationMission(v) \in Missions
        BY <1>1, <2>2, <2>5 DEF WorkHeld
      <3>2. VerificationMission(v)' = VerificationMission(v)
        BY <3>1 DEF VerificationMission
      <3>3. mission[VerificationMission(v)] \in Over => mission'[VerificationMission(v)] \in Over
        BY <3>1
      <3>4. QED BY <2>3, <3>1, <3>2, <3>3 DEF ReviewHeld, CancelRow
    <2>6. QED BY <2>1, <2>4, <2>5 DEF WorkHeld, AttemptHeld
  <1>5. QED BY <1>0, <1>2, <1>3, <1>4 DEF AloneInv

\* Cancelling a mission ends it before anything that runs in it is ended.
LEMMA CancelKeepsAlone ==
  ASSUME AloneInv, BossAlone, NEW j \in Jobs, CancelStep(j)
  PROVE  AloneInv'
  <1>0. [HostNext]_allVars /\ HostTypeOK /\ StoreInv /\ RowFits(j, job[j]) /\ JobHolds(job[j])
    BY RowOf DEF HostNext, AloneInv, HostInv
  <1>1. attempt' = attempt /\ host' = host /\ (\A k \in Jobs \ {j} : job'[k] = job[k])
    BY <1>0, CancelQuiet DEF Quiet
  <1>2. ASSUME NEW m \in Missions, BeginCancel(j, m) PROVE AloneInv'
    <2>1. /\ job'[j] = [NoJob EXCEPT !.kind = "cancel", !.pc = "cancelling", !.mission = m]
          /\ job[j].pc = "idle" /\ "cancel" \in Kinds[j] /\ verification' = verification
          /\ fresh' = Bumped(m, {}) /\ mission' = [mission EXCEPT ![m] = "cancelled"]
      BY <1>0, <1>2 DEF BeginCancel, At, TransitionMission, HostTypeOK
    <2>2. job[j].kind # "boss" /\ CancelRow(j, job'[j])
      BY <1>0, <2>1 DEF RowFits, CancelRow, CancelPoints, NoJob
    <2>3. \A n \in Missions : mission'[n] = mission[n] \/ mission'[n] \in Over
      BY <1>0, <2>1 DEF StoreInv, TypeOK, Over
    <2>4. \A k \in fresh : k \in fresh' \/ mission'[job[k].mission] # "running"
      <3>1. mission'[m] = "cancelled"
        BY <1>0, <2>1 DEF StoreInv, TypeOK
      <3>2. QED BY <2>1, <3>1 DEF Bumped
    <2>5. QED BY <1>0, <1>1, <2>1, <2>2, <2>3, <2>4, OthersKeepAlone
  <1>3. CASE ListTasks(j) \/ ListReviews(j) \/ EndCancel(j) \/ (\E t \in Tasks : CancelTask(j, t))
             \/ \E v \in Verifications : CancelReview(j, v)
    <2>1. job[j].pc \in CancelPoints /\ job[j].kind = "cancel" /\ UNCHANGED <<mission, fresh>>
      BY <1>0, <1>3 DEF ListTasks, ListReviews, EndCancel, CancelTask, CancelReview, At, JobHolds,
         CancelPoints, vars, FinishTask, FinalizeQualityFailure
    <2>2. CancelRow(j, job'[j])
      <3>1. job[j] \in JobRow /\ "cancel" \in Kinds[j]
        BY <1>0, <2>1, RowOf DEF RowFits
      <3>2. \/ job'[j] = NoJob
            \/ job'[j].kind = "cancel" /\ job'[j].pc \in CancelPoints
        BY <1>0, <1>3, <2>1, <3>1 DEF ListTasks, ListReviews, EndCancel, CancelTask, CancelReview,
           HostTypeOK, JobRow, CancelPoints
      <3>3. QED BY <3>1, <3>2 DEF CancelRow, NoJob
    <2>3. \A v \in Verifications : verification'[v] = verification[v] \/ verification'[v].status # "running"
      <3>1. CASE UNCHANGED verification
        BY <3>1
      <3>2. ASSUME NEW w \in Verifications, FinalizeQualityFailure(w, "blocked")
            PROVE  \A v \in Verifications : verification'[v] = verification[v] \/ verification'[v].status # "running"
        <4>1. verification' = [verification EXCEPT ![w].status = "blocked"]
          BY <3>2 DEF FinalizeQualityFailure
        <4>2. QED BY <1>0, <4>1 DEF StoreInv, TypeOK, VerificationRow
      <3>3. UNCHANGED verification \/ \E w \in Verifications : FinalizeQualityFailure(w, "blocked")
        BY <1>3 DEF ListTasks, ListReviews, EndCancel, CancelTask, CancelReview, vars, FinishTask
      <3>4. QED BY <3>1, <3>2, <3>3
    <2>4. QED BY <1>0, <1>1, <2>1, <2>2, <2>3, OthersKeepAlone
  <1>4. QED BY <1>2, <1>3 DEF CancelStep

\* The user creates what is not running, and ends missions; ending a process ends its loop.
LEMMA HostKeepsAlone ==
  ASSUME AloneInv, BossAlone, NEW h \in Hosts, UserStep(h) \/ Crash(h)
  PROVE  AloneInv'
  <1>0. [HostNext]_allVars /\ HostTypeOK /\ StoreInv
    BY DEF HostNext, AloneInv, HostInv
  <1>1. attempt' = attempt
    BY HostStepAttempts
  <1>2. CASE \E m \in Missions : UserCreatesMission(h, m)
    <2>1. /\ UNCHANGED <<host, job, fresh, verification>>
          /\ \A n \in Missions : mission'[n] = mission[n] \/ mission[n] = "absent"
      BY <1>0, <1>2 DEF UserCreatesMission, CreateMission, hostVars, StoreInv, TypeOK
    <2>2. QED BY <1>0, <1>1, <2>1, OthersKeepAlone DEF Over
  <1>3. CASE \E t \in Tasks : UserCreatesTask(h, t)
    <2>1. UNCHANGED <<host, job, fresh, verification, mission>>
      BY <1>3 DEF UserCreatesTask, CreateTask, hostVars
    <2>2. QED BY <1>0, <1>1, <2>1, OthersKeepAlone
  <1>4. ASSUME NEW m \in Missions, NEW s \in UserMoves, UserMovesMission(h, m, s) PROVE AloneInv'
    <2>1. /\ UNCHANGED <<host, job, verification>> /\ fresh' = Bumped(m, {})
          /\ mission' = [mission EXCEPT ![m] = s] /\ CanTransition(mission[m], s)
      BY <1>4 DEF UserMovesMission, TransitionMission
    <2>2. s \notin {"running", "paused", "blocked"}
      BY DEF BossAlone
    <2>3. mission'[m] = s /\ \A n \in Missions \ {m} : mission'[n] = mission[n]
      BY <1>0, <2>1 DEF StoreInv, TypeOK
    <2>4. s \in Over \/ mission[m] \notin Over \cup {"running"}
      BY <2>1, <2>2 DEF CanTransition, Over
    <2>5. \A n \in Missions : \/ mission'[n] = mission[n] \/ mission'[n] \in Over
                              \/ mission[n] \notin Over \cup {"running"}
      BY <2>3, <2>4
    <2>6. \A k \in fresh : k \in fresh' \/ mission'[job[k].mission] # "running"
      BY <2>1, <2>2, <2>3 DEF Bumped
    <2>7. QED BY <1>0, <1>1, <2>1, <2>5, <2>6, OthersKeepAlone
  <1>5. CASE Crash(h)
    <2>1. /\ UNCHANGED <<mission, verification>>
          /\ host' = [host EXCEPT ![h] = "down"]
          /\ \A k \in Jobs : job'[k] = IF HostOf[k] = h THEN NoJob ELSE job[k]
          /\ fresh' = {k \in fresh : HostOf[k] # h}
      BY <1>5 DEF Crash, vars
    <2>2. host'[h] = "down" /\ \A g \in Hosts : host'[g] = "up" => host[g] = "up"
      BY <1>0, <2>1 DEF HostTypeOK
    <2>3. \A k \in Jobs : job'[k] = job[k] \/ (job'[k] = NoJob /\ host'[HostOf[k]] # "up")
      BY <2>1, <2>2
    <2>4. \A k \in fresh : k \in fresh' \/ job'[k] # job[k]
      <3>1. ASSUME NEW k \in fresh, HostOf[k] = h PROVE job'[k] # job[k]
        <4>1. k \in Jobs /\ job[k].kind = "boss"
          BY <1>0, <3>1 DEF HostTypeOK
        <4>2. QED BY <2>1, <3>1, <4>1 DEF NoJob
      <3>2. QED BY <2>1, <3>1
    <2>5. QED BY <1>0, <1>1, <2>1, <2>2, <2>3, <2>4, OthersKeepAlone
  <1>6. QED BY <1>2, <1>3, <1>4, <1>5 DEF UserStep
\* Without leases every running verification is an orphan to a process that starts.
LEMMA OrphanReviewsAreAll ==
  ASSUME HostInv, Unleased
  PROVE  OrphanedVerifications = {v \in Verifications : verification[v].status = "running"}
  <1> SUFFICES ASSUME NEW v \in Verifications, verification[v].status = "running"
               PROVE  ~LeaseLive(VerificationMission(v))
    BY DEF OrphanedVerifications
  <1>1. now \in 1..MaxTime
    BY DEF HostInv, StoreInv, TypeOK
  <1>2. VerificationMission(v) \in Missions
    BY TaskColumns DEF HostInv, StoreInv, RowsLinked, VerificationMission
  <1>3. lease[VerificationMission(v)].expires = 0
    BY <1>2 DEF Unleased, NoLease
  <1>4. QED BY <1>1, <1>3, ClockBounds DEF LeaseLive

\* What runs is in missions that may await review, or that recovery leaves alone.
LEMMA RecoveryAccepted == AloneInv => MayAwaitReview(OrphanMissions)
  <1> SUFFICES ASSUME AloneInv PROVE MayAwaitReview(OrphanMissions)
    OBVIOUS
  <1>1. /\ OrphanedAttempts = {a \in Attempts : attempt[a].status = "running"}
        /\ OrphanedVerifications = {v \in Verifications : verification[v].status = "running"}
    BY OrphansAreAll, OrphanReviewsAreAll DEF AloneInv
  <1>2. \A m \in OrphanMissions : mission[m] \in Over \cup {"running"}
    BY <1>1 DEF OrphanMissions, ParentMissions, AloneInv, RunsInOrder
  <1>3. QED BY <1>2 DEF MayAwaitReview, Over, Interruptible, CanTransition

\* After a start nothing runs in the store; where nothing had to be recovered nothing ran.
LEMMA StartClears ==
  ASSUME AloneInv, NEW h \in Hosts, Start(h)
  PROVE  /\ \A a \in Attempts : attempt'[a].status # "running"
         /\ \A v \in Verifications : verification'[v].status # "running"
         /\ \A m \in Missions : mission'[m] = mission[m]
                                \/ (mission'[m] = "awaiting-review" /\ mission[m] \in Interruptible)
         /\ host' = [host EXCEPT ![h] = "up"]
  <1>0. HostInv /\ StoreInv /\ Unleased
    BY DEF AloneInv, HostInv
  <1>1. /\ OrphanedAttempts = {a \in Attempts : attempt[a].status = "running"}
        /\ OrphanedVerifications = {v \in Verifications : verification[v].status = "running"}
    BY <1>0, OrphansAreAll, OrphanReviewsAreAll
  <1>2. CASE RecoverInterrupted
    <2>1. \A a \in Attempts : attempt'[a] = IF a \in OrphanedAttempts
             THEN [attempt[a] EXCEPT !.status = "interrupted"] ELSE attempt[a]
      BY <1>2 DEF RecoverInterrupted, InterruptWork
    <2>2. \A v \in Verifications : verification'[v] = IF v \in OrphanedVerifications
             THEN [verification[v] EXCEPT !.status = "interrupted"] ELSE verification[v]
      BY <1>2 DEF RecoverInterrupted, InterruptWork
    <2>3. \A m \in Missions : mission'[m] = mission[m]
                              \/ (mission'[m] = "awaiting-review" /\ mission[m] \in Interruptible)
      BY <1>2 DEF RecoverInterrupted, InterruptWork
    <2>4. \A a \in Attempts : attempt'[a].status # "running"
      BY <1>0, <1>1, <2>1 DEF StoreInv, TypeOK, AttemptRow
    <2>5. \A v \in Verifications : verification'[v].status # "running"
      BY <1>0, <1>1, <2>2 DEF StoreInv, TypeOK, VerificationRow
    <2>6. QED BY <2>3, <2>4, <2>5, RecoveryAccepted DEF Start
  <1>3. CASE ~Orphans /\ vars' = vars
    BY <1>1, <1>3, RecoveryAccepted DEF Start, Orphans, vars
  <1>4. QED BY <1>2, <1>3, RecoveryAccepted DEF Start

\* A start ends what runs, and gives the missions of it back to the user.
LEMMA StartKeepsAlone ==
  ASSUME AloneInv, BossAlone, NEW h \in Hosts, Start(h)
  PROVE  AloneInv'
  <1>0. /\ HostInv /\ HostInv' /\ Unleased' /\ [Next]_vars /\ StoreInv /\ HostTypeOK
        /\ \A k \in Jobs : RowFits(k, job[k])
    BY StepHostInv, StepUnleased, StepRefines DEF AloneInv, HostInv, HostNext
  <1>1. /\ \A a \in Attempts : attempt'[a].status # "running"
        /\ \A v \in Verifications : verification'[v].status # "running"
        /\ \A m \in Missions : mission'[m] = mission[m]
                               \/ (mission'[m] = "awaiting-review" /\ mission[m] \in Interruptible)
    BY StartClears
  <1>2. job' = job /\ fresh' = {k \in fresh : mission'[job[k].mission] = mission[job[k].mission]}
    BY DEF Start
  <1>3. ASSUME NEW k \in Jobs PROVE RowFits(k, job[k])'
    <2>1. PICK r : r = job[k]
      OBVIOUS
    <2>2. RowFits(k, r) /\ r = job[k] /\ job'[k] = r
      BY <1>0, <1>2, <2>1
    <2>3. CASE r.kind = "boss"
      <3>1. /\ r.mission \in Missions
            /\ r.pc \in UnderReview => r.verification \in Verifications
        BY <1>0, <2>1, <2>3, RowOf DEF RowFits, JobHolds, UnderReview
      <3>2. r.pc \in UnderReview => /\ verification'[r.verification].status # "absent"
                                    /\ verification'[r.verification].task = r.task
        BY <1>0, <2>2, <2>3, <3>1, VerificationKept DEF RowFits
      <3>3. /\ mission'[r.mission] \in Over \cup {"running"}
            /\ mission'[r.mission] = "running" => mission[r.mission] = "running"
        BY <1>1, <2>2, <2>3, <3>1 DEF RowFits, Over
      <3>4. mission'[r.mission] = "running" => k \in fresh'
        BY <1>2, <2>2, <2>3, <3>3 DEF RowFits
      <3>5. QED BY <2>2, <2>3, <3>2, <3>3, <3>4 DEF RowFits
    <2>4. QED BY <2>2, <2>3 DEF RowFits
  <1>4. RunsInOrder' /\ \A k \in Jobs : WorkHeld(job[k])'
    BY <1>1 DEF RunsInOrder, WorkHeld
  <1>5. QED BY <1>0, <1>3, <1>4 DEF AloneInv

\* The invariant is inductive.
LEMMA StepAlone ==
  ASSUME BossAlone, AloneInv, [HostNext]_allVars
  PROVE  AloneInv'
  <1>1. CASE UNCHANGED allVars
    <2>1. /\ HostInv' /\ Unleased' /\ UNCHANGED <<mission, attempt, verification, host, job, fresh>>
      BY <1>1, StepHostInv, StepUnleased DEF AloneInv, allVars, vars, hostVars
    <2>2. RunsInOrder' /\ \A k \in Jobs : RowFits(k, job[k])'
      BY <2>1 DEF AloneInv, RunsInOrder, RowFits, AttemptMission, VerificationMission
    <2>3. \A k \in Jobs : "boss" \in Kinds[k] /\ host'[HostOf[k]] = "up" => WorkHeld(job[k])'
      BY <2>1 DEF AloneInv, WorkHeld, AttemptHeld, ReviewHeld, VerificationMission
    <2>4. QED BY <2>1, <2>2, <2>3 DEF AloneInv
  <1>2. ASSUME NEW j \in Jobs, BossStep(j) \/ ExecutionStep(j) \/ ReviewStep(j) \/ CancelStep(j)
        PROVE  AloneInv'
    BY <1>2, BossKeepsAlone, ExecutionKeepsAlone, ReviewKeepsAlone, CancelKeepsAlone
  <1>3. ASSUME NEW h \in Hosts, UserStep(h) \/ Crash(h) \/ Start(h) PROVE AloneInv'
    BY <1>3, HostKeepsAlone, StartKeepsAlone
  <1>4. QED BY <1>1, <1>2, <1>3 DEF HostNext

\* It holds of an empty database and processes that are down.
LEMMA InitAlone == HostInit => AloneInv
  <1> SUFFICES ASSUME HostInit PROVE AloneInv
    OBVIOUS
  <1>1. /\ HostInv /\ host = [h \in Hosts |-> "down"] /\ job = [j \in Jobs |-> NoJob]
        /\ attempt = [a \in Attempts |-> NoAttempt]
        /\ verification = [v \in Verifications |-> NoVerification]
        /\ lease = [m \in Missions |-> NoLease]
    BY InitHostInv DEF HostInit, Init
  <1>2. Unleased /\ RunsInOrder
    BY <1>1 DEF Unleased, RunsInOrder, NoAttempt, NoVerification
  <1>3. \A j \in Jobs : RowFits(j, job[j]) /\ host[HostOf[j]] # "up"
    BY <1>1, HostColumns DEF RowFits, NoJob
  <1>4. QED BY <1>1, <1>2, <1>3 DEF AloneInv

\* With one Boss loop and any number of commands that cancel missions, processes and
\* crashes, start-up recovery never fails: what a process left running is in a mission
\* that may await review, or is over.
THEOREM StartupsOpenStore ==
  ASSUME BossAlone
  PROVE  HostSpec => []StartupOpensStore
  <1> DEFINE Inv == AloneInv /\ StartupOpensStore
  <1>1. HostInit => Inv
    BY InitAlone DEF HostInit, StartupOpensStore
  <1>2. ASSUME Inv, [HostNext]_allVars PROVE Inv'
    <2>1. CASE UNCHANGED host
      BY <1>2, <2>1, StepAlone DEF StartupOpensStore
    <2>2. ASSUME NEW h \in Hosts, host' = [host EXCEPT ![h] = "up"] \/ host' = [host EXCEPT ![h] = "down"]
          PROVE  StartupOpensStore'
      BY <1>2, <2>2 DEF StartupOpensStore, AloneInv, HostInv, HostTypeOK
    <2>3. ASSUME NEW h \in Hosts, Start(h) PROVE StartupOpensStore'
      BY <1>2, <2>2, <2>3, StartClears
    <2>4. ASSUME NEW h \in Hosts, Crash(h) PROVE StartupOpensStore'
      BY <2>2, <2>4 DEF Crash
    <2>5. ASSUME NEW h \in Hosts, UserStep(h) PROVE UNCHANGED host
      BY <2>5 DEF UserStep, UserCreatesMission, UserCreatesTask, UserMovesMission, hostVars
    <2>6. ASSUME NEW j \in Jobs, BossStep(j) \/ ExecutionStep(j) \/ ReviewStep(j) \/ CancelStep(j)
          PROVE  UNCHANGED host
      <3>1. HostTypeOK
        BY <1>2 DEF AloneInv, HostInv
      <3>2. QED BY <2>6, <3>1, BossQuiet, ReviewQuiet, CancelQuiet, ExecutionCases DEF Quiet
    <2>7. QED BY <1>2, <2>1, <2>3, <2>4, <2>5, <2>6, StepAlone DEF HostNext, allVars, hostVars
  <1>3. Inv /\ [HostNext]_allVars => Inv'
    BY <1>2
  <1>4. Inv => StartupOpensStore
    OBVIOUS
  <1> HIDE DEF Inv
  <1>5. QED BY <1>1, <1>3, <1>4, PTL DEF HostSpec
-------------------------------------------------------------------------------
(* What a review that passed is of.                                          *)

\* A task that passed was executed, and the review behind it is of its last run; the
\* tasks of a cancelled mission may have been cancelled since.
PassedFits(t) ==
    quality[t].status = "passed" /\ mission[TaskMission[t]] # "cancelled" =>
        /\ task[t].status = "execution_completed"
        /\ quality[t].decision = quality[t].verification
        /\ verification[quality[t].decision].target = task[t].lastRun

\* The task of a Boss loop has not passed, and what is under review is its last run.
TaskFits(r) ==
    r.kind = "boss" /\ mission[r.mission] # "cancelled" =>
        /\ r.pc \in OnTask => quality[r.task].status # "passed"
        /\ r.pc \in UnderReview =>
              /\ task[r.task].status = "execution_completed"
              /\ verification[r.verification].target = task[r.task].lastRun

\* A command that cancels has cancelled its mission, and cancels tasks of it only.
CancelFits(r) ==
    r.kind = "cancel" =>
        /\ mission[r.mission] = "cancelled"
        /\ r.pc = "cancelTasks" => \A t \in r.todo : TaskMission[t] = r.mission

ReviewedInv ==
    /\ AloneInv
    /\ \A t \in Tasks : PassedFits(t)
    /\ \A j \in Jobs : TaskFits(job[j]) /\ CancelFits(job[j])

\* A step that lets nothing pass, and changes an executed task only in a cancelled mission.
Undisturbed(t) ==
    /\ quality'[t] = quality[t] \/ quality'[t].status # "passed"
    /\ \/ task'[t] = task[t] \/ task[t].status # "execution_completed"
       \/ mission[TaskMission[t]] = "cancelled"

\* The loop runs its task, again, or blocks it; or a review lets it pass.
Reworked(j, t) ==
    /\ job[j].kind = "boss" /\ job[j].pc \in OnTask /\ job[j].task = t
    /\ quality'[t] = quality[t] \/ quality'[t].status # "passed"
    /\ job'[j].pc \notin UnderReview
Passing(j, t) == ReviewerDecides(j, "pass") /\ verification[job[j].verification].task = t

\* Running and reviewing change the task of the loop, and no other one.
LEMMA LoopTaskSteps ==
  ASSUME AloneInv, BossAlone, NEW j \in Jobs, BossStep(j) \/ ExecutionStep(j) \/ ReviewStep(j),
         NEW t \in Tasks
  PROVE  Undisturbed(t) \/ Reworked(j, t) \/ Passing(j, t)
  <1>0. HostTypeOK /\ StoreInv /\ RowFits(j, job[j]) /\ job[j] \in JobRow /\ JobHolds(job[j])
    BY RowOf DEF AloneInv, HostInv
  <1>1. CASE UNCHANGED <<task, quality>>
    BY <1>1 DEF Undisturbed
  <1>2. CASE BossStep(j)
    <2>1. ASSUME NEW u \in Tasks, PlanTask(j, u) PROVE Undisturbed(t)
      BY <1>0, <2>1 DEF PlanTask, CreateTask, Undisturbed, Unverified, StoreInv, TypeOK
    <2>2. (\A u \in Tasks : ~PlanTask(j, u)) => UNCHANGED <<task, quality>>
      BY <1>2 DEF BossStep, BeginBoss, TransitionMission, BossProceeds, BossCloses, BossIsStale,
         CloseMission, CloseNothing, EndTasks, ChooseTask, vars
    <2>3. QED BY <1>1, <2>1, <2>2
  <1>3. CASE ExecutionStep(j)
    <2>1. ASSUME NEW a \in Attempts, StartAttempt(j, a) PROVE Undisturbed(t) \/ Reworked(j, t)
      <3>1. /\ job[j].kind = "boss" /\ job[j].pc = "starting"
            /\ CreateAttempt(a, job[j].task, NoId)
            /\ job' = [job EXCEPT ![j].pc = "working", ![j].attempt = a]
        BY <2>1, WhoWorks DEF StartAttempt, CancelPoints
      <3>2. quality'[t] = quality[t] \/ quality'[t].status # "passed"
        BY <1>0, <3>1 DEF CreateAttempt, Unverified, StoreInv, TypeOK
      <3>3. t # job[j].task => task'[t] = task[t]
        BY <1>0, <3>1 DEF CreateAttempt, StoreInv, TypeOK
      <3>4. job'[j].pc = "working"
        BY <1>0, <3>1 DEF HostTypeOK, JobRow
      <3>5. QED BY <3>1, <3>2, <3>3, <3>4 DEF Undisturbed, Reworked, OnTask, UnderReview
    <2>2. ASSUME NEW s \in {"succeeded", "failed", "interrupted", "cancelled"}, WorkerEnds(j, s)
          PROVE  Undisturbed(t)
      <3>1. PICK a : a = job[j].attempt
        OBVIOUS
      <3>2. /\ a \in Attempts /\ attempt[a].status = "running" /\ quality' = quality
            /\ task' = [task EXCEPT ![attempt[a].task].status = TaskStatusAfter(s)]
        BY <1>0, <2>2, <3>1 DEF WorkerEnds, At, FinishAttempt, JobHolds
      <3>3. task[attempt[a].task].status # "execution_completed"
        BY <1>0, <3>2 DEF StoreInv, RowsLinked, RunningAttemptIsLastRun, DoneTaskHasSucceededRun
      <3>4. t # attempt[a].task => task'[t] = task[t]
        BY <1>0, <3>2 DEF StoreInv, TypeOK
      <3>5. QED BY <3>2, <3>3, <3>4 DEF Undisturbed
    <2>3. ASSUME BlockTask(j) PROVE Undisturbed(t) \/ Reworked(j, t)
      <3>1. /\ job[j].kind = "boss" /\ job[j].pc = "blocking"
            /\ FinishTask(job[j].task, "blocked") /\ Return(j)
        BY <2>3, WhoWorks DEF BlockTask, CancelPoints
      <3>2. quality'[t] = quality[t] /\ (t # job[j].task => task'[t] = task[t])
        BY <1>0, <3>1 DEF FinishTask, StoreInv, TypeOK
      <3>3. job'[j].pc = "choosing"
        BY <1>0, <3>1 DEF Return, Choosing, NoJob, HostTypeOK
      <3>4. QED BY <3>1, <3>2, <3>3 DEF Undisturbed, Reworked, OnTask, UnderReview
    <2>4. \/ UNCHANGED <<task, quality>> \/ BlockTask(j) \/ (\E a \in Attempts : StartAttempt(j, a))
          \/ \E s \in {"succeeded", "failed", "interrupted", "cancelled"} : WorkerEnds(j, s)
      BY <1>3 DEF ExecutionStep, BeginTask, Dispatch, StartRefused, WorkerIsLate, AssessmentEnds, vars
    <2>5. QED BY <1>1, <2>1, <2>2, <2>3, <2>4
  <1>4. CASE ReviewStep(j)
    <2>1. ASSUME NEW v \in Verifications, NEW s \in {"review_required", "blocked"}, FinalizeQualityFailure(v, s)
          PROVE  Undisturbed(t)
      BY <1>0, <2>1 DEF FinalizeQualityFailure, Undisturbed, StoreInv, TypeOK
    <2>2. ASSUME NEW s \in {"review_required", "blocked"}, ReviewerFails(j, s) PROVE Undisturbed(t)
      BY <1>0, <2>1, <2>2 DEF ReviewerFails, At, JobHolds
    <2>3. ASSUME NEW d \in Verdict, ReviewerDecides(j, d) PROVE Undisturbed(t) \/ Passing(j, t)
      <3>1. PICK v : v = job[j].verification
        OBVIOUS
      <3>2. /\ task' = task
            /\ quality' = [quality EXCEPT ![verification[v].task] =
                             [status |-> QualityOf(d), verification |-> v, decision |-> v]]
        BY <2>3, <3>1 DEF ReviewerDecides, FinalizeQualityVerification
      <3>3. d # "pass" => QualityOf(d) # "passed"
        BY DEF QualityOf, Verdict
      <3>4. t # verification[v].task => quality'[t] = quality[t]
        BY <1>0, <3>2 DEF StoreInv, TypeOK
      <3>5. d # "pass" => quality'[t] = quality[t] \/ quality'[t].status # "passed"
        BY <1>0, <3>2, <3>3 DEF StoreInv, TypeOK
      <3>6. QED BY <2>3, <3>1, <3>2, <3>4, <3>5 DEF Undisturbed, Passing
    <2>4. ASSUME MarkReview(j) PROVE Undisturbed(t)
      BY <1>0, <2>4 DEF MarkReview, SetTaskQualityStatus, Undisturbed, StoreInv, TypeOK, vars
    <2>5. \/ UNCHANGED <<task, quality>> \/ MarkReview(j) \/ (\E d \in Verdict : ReviewerDecides(j, d))
          \/ \E s \in {"review_required", "blocked"} : ReviewerFails(j, s)
      BY <1>4 DEF ReviewStep, BeginLoop, BeginVerify, Confirm, ReviewRefused, ReviewerAborts,
         ReviewerIsLate, OpenReview, CreateVerificationRun, vars
    <2>6. QED BY <1>1, <2>2, <2>3, <2>4, <2>5
  <1>5. QED BY <1>2, <1>3, <1>4

\* Cancellation changes tasks of a cancelled mission; recovery, tasks that run.
LEMMA TaskSteps ==
  ASSUME ReviewedInv, BossAlone, [HostNext]_allVars, NEW t \in Tasks
  PROVE  Undisturbed(t) \/ \E j \in Jobs : Reworked(j, t) \/ Passing(j, t)
  <1>0. HostTypeOK /\ StoreInv /\ AloneInv
    BY DEF ReviewedInv, AloneInv, HostInv
  <1>1. ASSUME UNCHANGED <<task, quality>> PROVE Undisturbed(t)
    BY <1>1 DEF Undisturbed
  <1>2. ASSUME NEW j \in Jobs, BossStep(j) \/ ExecutionStep(j) \/ ReviewStep(j)
        PROVE  Undisturbed(t) \/ Reworked(j, t) \/ Passing(j, t)
    BY <1>0, <1>2, LoopTaskSteps
  <1>3. ASSUME NEW j \in Jobs, CancelStep(j) PROVE Undisturbed(t)
    <2>1. JobHolds(job[j]) /\ CancelFits(job[j])
      BY <1>0, RowOf DEF ReviewedInv
    <2>2. ASSUME NEW u \in Tasks, CancelTask(j, u) PROVE Undisturbed(t)
      <3>1. mission[TaskMission[u]] = "cancelled"
        BY <2>1, <2>2 DEF CancelTask, At, JobHolds, CancelFits
      <3>2. quality' = quality /\ (t # u => task'[t] = task[t])
        BY <1>0, <2>2 DEF CancelTask, FinishTask, StoreInv, TypeOK
      <3>3. QED BY <3>1, <3>2 DEF Undisturbed
    <2>3. ASSUME NEW v \in Verifications, CancelReview(j, v) PROVE Undisturbed(t)
      BY <1>0, <2>3 DEF CancelReview, FinalizeQualityFailure, Undisturbed, StoreInv, TypeOK, vars
    <2>4. \/ UNCHANGED <<task, quality>> \/ (\E u \in Tasks : CancelTask(j, u))
          \/ \E v \in Verifications : CancelReview(j, v)
      BY <1>3 DEF CancelStep, BeginCancel, TransitionMission, ListTasks, ListReviews, EndCancel, vars
    <2>5. QED BY <1>1, <2>2, <2>3, <2>4
  <1>4. ASSUME NEW h \in Hosts, UserStep(h) \/ Crash(h) PROVE Undisturbed(t)
    <2>1. ASSUME NEW u \in Tasks, UserCreatesTask(h, u) PROVE Undisturbed(t)
      BY <1>0, <2>1 DEF UserCreatesTask, CreateTask, Undisturbed, Unverified, StoreInv, TypeOK
    <2>2. UNCHANGED <<task, quality>> \/ \E u \in Tasks : UserCreatesTask(h, u)
      BY <1>4 DEF UserStep, UserCreatesMission, CreateMission, UserMovesMission, TransitionMission, Crash, vars
    <2>3. QED BY <1>1, <2>1, <2>2
  <1>5. ASSUME NEW h \in Hosts, Start(h) PROVE Undisturbed(t)
    <2>1. CASE RecoverInterrupted
      <3>1. /\ task'[t] = task[t] \/ task[t].status = "running"
            /\ quality'[t] = quality[t] \/ quality'[t].status = "review_required"
        BY <2>1 DEF RecoverInterrupted, InterruptWork
      <3>2. QED BY <3>1 DEF Undisturbed
    <2>2. QED BY <1>1, <1>5, <2>1 DEF Start, vars
  <1>6. CASE UNCHANGED allVars
    BY <1>1, <1>6 DEF allVars, vars
  <1>7. QED BY <1>2, <1>3, <1>4, <1>5, <1>6 DEF HostNext
\* A loop takes up a task, a run or a review by the steps named here, and otherwise goes
\* on with what it had or drops it.
Follows(q, r) ==
    q.kind = "boss" =>
        /\ q.pc \in OnTask => /\ r.kind = "boss" /\ r.pc \in OnTask
                              /\ q.task = r.task /\ q.mission = r.mission
        /\ q.pc \in UnderReview => r.pc \in UnderReview /\ q.verification = r.verification
Goes(j) == Follows(job'[j], job[j]) /\ job'[j].kind # "cancel"
Chosen(j) == \E t \in Tasks : ChooseTask(j, t) \/ PlanTask(j, t)
Opened(j) == \E v \in Verifications : OpenReview(j, v)

\* The shapes of a row after a step.
LEMMA MovedFollows ==
  ASSUME AloneInv, NEW j \in Jobs, job[j].kind = "boss", Moved(j)
  PROVE  Goes(j)
  <1> USE DEF Goes
  <1>0. HostTypeOK /\ job[j] \in JobRow
    BY RowOf DEF AloneInv, HostInv
  <1>1. CASE Return(j)
    BY <1>0, <1>1 DEF Return, Choosing, NoJob, Follows, OnTask, UnderReview, HostTypeOK
  <1>2. ASSUME NEW end \in CloseEnd, CloseAs(j, end) PROVE Goes(j)
    <2>1. job'[j].pc = "closing" /\ job'[j].kind = "boss"
      BY <1>0, <1>2 DEF CloseAs, Choosing, NoJob, HostTypeOK
    <2>2. QED BY <2>1 DEF Follows, OnTask, UnderReview
  <1>3. CASE job' = [job EXCEPT ![j] = NoJob]
    BY <1>0, <1>3 DEF NoJob, Follows, HostTypeOK
  <1>4. ASSUME NEW pc \in JobPoint, Goto(j, pc), pc \in OnTask => job[j].pc \in OnTask,
               pc \in UnderReview => job[j].pc \in UnderReview
        PROVE  Goes(j)
    <2>1. /\ job'[j].pc = pc /\ job'[j].kind = job[j].kind /\ job'[j].mission = job[j].mission
          /\ job'[j].task = job[j].task /\ job'[j].verification = job[j].verification
      BY <1>0, <1>4 DEF Goto, HostTypeOK, JobRow
    <2>2. QED BY <1>4, <2>1 DEF Follows
  <1>5. QED BY <1>1, <1>2, <1>3, <1>4 DEF Moved

\* The loop's own steps.
LEMMA LoopRowSteps ==
  ASSUME AloneInv, BossAlone, NEW j \in Jobs, BossStep(j) \/ ExecutionStep(j) \/ ReviewStep(j)
  PROVE  Goes(j) \/ Chosen(j) \/ Opened(j)
  <1> USE DEF CancelPoints, OnTask, UnderReview
  <1>0. HostTypeOK /\ RowFits(j, job[j]) /\ job[j] \in JobRow
    BY RowOf DEF AloneInv, HostInv
  <1>3. CASE BossStep(j)
    <2>1. ASSUME NEW m \in Missions, BeginBoss(j, m) PROVE Goes(j)
      <3>1. job'[j].pc = "planning" /\ job'[j].kind = "boss"
        BY <1>0, <2>1 DEF BeginBoss, NoJob, HostTypeOK
      <3>2. QED BY <3>1 DEF Follows, Goes
    <2>2. ASSUME NEW pc \in {"choosing", "planning"}, BossProceeds(j, pc) PROVE Goes(j)
      <3>1. job[j].kind = "boss"
        BY <2>2, WhoWorks DEF BossProceeds
      <3>2. Moved(j)
        BY <2>2 DEF BossProceeds, Moved, JobPoint, Waiting
      <3>3. QED BY <3>1, <3>2, MovedFollows
    <2>3. ASSUME NEW end \in CloseEnd, BossCloses(j, end) PROVE Goes(j)
      <3>1. job[j].kind = "boss"
        BY <2>3, WhoWorks DEF BossCloses
      <3>2. Moved(j)
        BY <2>3 DEF BossCloses, Moved
      <3>3. QED BY <3>1, <3>2, MovedFollows
    <2>4. ASSUME EndTasks(j) PROVE Goes(j)
      <3>1. job[j].kind = "boss"
        BY <2>4, WhoWorks DEF EndTasks
      <3>2. Moved(j)
        BY <2>4 DEF EndTasks, Moved, JobPoint, Waiting
      <3>3. QED BY <3>1, <3>2, MovedFollows
    <2>5. ASSUME BossIsStale(j) \/ CloseMission(j) \/ CloseNothing(j) PROVE Goes(j)
      <3>1. job' = job \/ job' = [job EXCEPT ![j] = NoJob]
        BY <2>5 DEF BossIsStale, CloseMission, CloseNothing
      <3>2. job'[j] = job[j] \/ job'[j] = NoJob
        BY <1>0, <3>1 DEF HostTypeOK
      <3>3. \E pc \in {"planning", "choosing", "evaluating", "closing"} : At(j, pc)
        BY <2>5 DEF BossIsStale, CloseMission, CloseNothing
      <3>4. job[j].kind = "boss"
        BY <3>3, WhoWorks
      <3>5. QED BY <3>2, <3>4 DEF Follows, Goes, NoJob
    <2>6. QED BY <1>3, <2>1, <2>2, <2>3, <2>4, <2>5 DEF BossStep, Chosen
  <1>4. CASE ExecutionStep(j)
    <2>1. ASSUME NEW t \in Tasks, BeginTask(j, t) PROVE FALSE
      BY <2>1 DEF BeginTask, BossAlone
    <2>2. ASSUME Dispatch(j) \/ StartRefused(j) \/ WorkerIsLate(j) \/ BlockTask(j) \/ AssessmentEnds(j)
          PROVE  Goes(j)
      <3>1. \E pc \in {"dispatching", "starting", "working", "blocking", "assessing"} : At(j, pc)
        BY <2>2 DEF Dispatch, StartRefused, WorkerIsLate, BlockTask, AssessmentEnds
      <3>2. job[j].kind = "boss" /\ job[j].pc \in {"dispatching", "starting", "working", "blocking", "assessing"}
        BY <3>1, WhoWorks
      <3>3. Moved(j)
        BY <2>2, <3>2 DEF Dispatch, StartRefused, WorkerIsLate, BlockTask, AssessmentEnds, Moved, JobPoint, Waiting
      <3>4. QED BY <3>2, <3>3, MovedFollows
    <2>3. ASSUME NEW a \in Attempts, StartAttempt(j, a) PROVE Goes(j)
      <3>1. job[j].kind = "boss" /\ job[j].pc = "starting"
        BY <2>3, WhoWorks DEF StartAttempt
      <3>2. /\ job'[j].pc = "working" /\ job'[j].task = job[j].task /\ job'[j].mission = job[j].mission
            /\ job'[j].kind = job[j].kind
        BY <1>0, <2>3 DEF StartAttempt, HostTypeOK, JobRow
      <3>3. QED BY <3>1, <3>2 DEF Follows, Goes
    <2>4. ASSUME NEW s \in {"succeeded", "failed", "interrupted", "cancelled"}, WorkerEnds(j, s)
          PROVE  Goes(j)
      <3>1. job[j].kind = "boss" /\ job[j].pc = "working"
        BY <2>4, WhoWorks DEF WorkerEnds
      <3>2. PICK next \in AfterWorker(j, s) : Follow(j, next)
        BY <2>4 DEF WorkerEnds
      <3>3. next \in {"targeting", "blocking", "return", "assessing", "cancelled"}
        BY DEF AfterWorker
      <3>4. QED BY <3>1, <3>2, <3>3, FollowMoves, MovedFollows
    <2>5. QED BY <1>4, <2>1, <2>2, <2>3, <2>4 DEF ExecutionStep
  <1>5. CASE ReviewStep(j)
    <2>1. ASSUME NEW t \in Tasks, BeginLoop(j, t) \/ \E a \in Attempts : BeginVerify(j, t, a) PROVE FALSE
      BY <2>1 DEF BeginLoop, BeginVerify, BossAlone
    <2>2. ASSUME Confirm(j) PROVE FALSE
      BY <1>0, <2>2, WhoWorks DEF Confirm, RowFits
    <2>3. ASSUME ReviewRefused(j) \/ ReviewerAborts(j) \/ ReviewerIsLate(j)
                 \/ (\E s \in {"review_required", "blocked"} : ReviewerFails(j, s))
                 \/ \E d \in Verdict : ReviewerDecides(j, d)
          PROVE  Goes(j)
      <3>1. At(j, "targeting") \/ At(j, "reviewing")
        BY <2>3 DEF ReviewRefused, ReviewerAborts, ReviewerIsLate, ReviewerFails, ReviewerDecides
      <3>2. job[j].kind = "boss"
        BY <3>1, WhoWorks
      <3>3. Return(j) \/ CloseAs(j, "cancelled")
        BY <2>3, <3>2 DEF ReviewRefused, ReviewerAborts, ReviewerIsLate, ReviewerFails, ReviewerDecides
      <3>4. Moved(j)
        BY <3>3 DEF Moved, CloseEnd
      <3>5. QED BY <3>2, <3>4, MovedFollows
    <2>4. ASSUME MarkReview(j) PROVE Goes(j)
      <3>1. job[j].kind = "boss" /\ job[j].pc = "opened"
        BY <2>4, WhoWorks DEF MarkReview
      <3>2. Moved(j)
        BY <2>4, <3>1 DEF MarkReview, Moved, JobPoint, Waiting
      <3>3. QED BY <3>1, <3>2, MovedFollows
    <2>5. QED BY <1>5, <2>1, <2>2, <2>3, <2>4 DEF ReviewStep, Opened
  <1>6. QED BY <1>3, <1>4, <1>5

\* The other commands' steps, and the processes', give no loop a task.
LEMMA RowSteps ==
  ASSUME AloneInv, BossAlone, [HostNext]_allVars, NEW j \in Jobs
  PROVE  Follows(job'[j], job[j]) \/ Chosen(j) \/ Opened(j)
  <1>0. HostTypeOK /\ RowFits(j, job[j]) /\ JobHolds(job[j])
    BY RowOf DEF AloneInv, HostInv
  <1>1. CASE job'[j] = job[j]
    BY <1>1 DEF Follows
  <1>2. ASSUME NEW k \in Jobs, BossStep(k) \/ ExecutionStep(k) \/ ReviewStep(k)
        PROVE  k = j \/ job'[j] = job[j]
    BY <1>0, <1>2, BossQuiet, ReviewQuiet, ExecutionCases DEF Quiet
  <1>3. ASSUME NEW k \in Jobs, CancelStep(k) PROVE job'[j] = job[j] \/ job'[j].kind # "boss"
    <2>1. CASE k # j
      BY <1>0, <1>3, <2>1, CancelQuiet DEF Quiet
    <2>2. CASE k = j
      <3>1. job[j].kind # "boss" \/ job[j].pc = "idle"
        BY <1>0, <1>3, <2>2 DEF CancelStep, BeginCancel, ListTasks, ListReviews, EndCancel, CancelTask,
           CancelReview, At, JobHolds
      <3>2. job[j].kind # "boss" /\ job[j] \in JobRow
        BY <1>0, <3>1, RowOf DEF JobHolds
      <3>3. ASSUME NEW m \in Missions, BeginCancel(j, m) PROVE job'[j].kind # "boss"
        BY <1>0, <3>3 DEF BeginCancel, NoJob, HostTypeOK
      <3>4. CASE ListTasks(j) \/ ListReviews(j) \/ EndCancel(j)
        BY <1>0, <3>2, <3>4 DEF ListTasks, ListReviews, EndCancel, NoJob, HostTypeOK, JobRow
      <3>5. CASE (\E t \in Tasks : CancelTask(j, t)) \/ \E v \in Verifications : CancelReview(j, v)
        BY <1>0, <3>2, <3>5 DEF CancelTask, CancelReview, HostTypeOK, JobRow
      <3>6. QED BY <1>3, <2>2, <3>3, <3>4, <3>5 DEF CancelStep
    <2>3. QED BY <2>1, <2>2
  <1>4. ASSUME NEW h \in Hosts, UserStep(h) \/ Crash(h) \/ Start(h)
        PROVE  job'[j] = job[j] \/ job'[j] = NoJob
    BY <1>4 DEF UserStep, UserCreatesMission, UserCreatesTask, UserMovesMission, hostVars, Crash, Start
  <1>5. CASE UNCHANGED allVars
    BY <1>1, <1>5 DEF allVars, hostVars
  <1>6. CASE job'[j].kind # "boss"
    BY <1>6 DEF Follows
  <1>7. ASSUME NEW k \in Jobs, BossStep(k) \/ ExecutionStep(k) \/ ReviewStep(k)
        PROVE  Follows(job'[j], job[j]) \/ Chosen(j) \/ Opened(j)
    <2>1. CASE k = j
      BY <1>7, <2>1, LoopRowSteps DEF Goes
    <2>2. QED BY <1>1, <1>2, <1>7, <2>1
  <1>8. ASSUME NEW h \in Hosts, UserStep(h) \/ Crash(h) \/ Start(h)
        PROVE  Follows(job'[j], job[j])
    BY <1>4, <1>8 DEF Follows, NoJob
  <1>9. QED BY <1>1, <1>3, <1>5, <1>6, <1>7, <1>8 DEF HostNext
\* What is cancelled stays so, in the mission of a command or of a task.
LEMMA CancelledStays ==
  ASSUME ReviewedInv, [HostNext]_allVars, NEW m \in Missions, mission[m] = "cancelled"
  PROVE  mission'[m] = "cancelled"
  BY StepRefines, MissionEndsForGood DEF ReviewedInv, AloneInv, HostInv

\* A task passes with its last run executed and reviewed, and is run again or blocked
\* by the loop only where it has not passed.
LEMMA PassesKept ==
  ASSUME ReviewedInv, BossAlone, [HostNext]_allVars, NEW t \in Tasks
  PROVE  PassedFits(t)'
  <1>0. /\ HostTypeOK /\ StoreInv /\ [Next]_vars /\ PassedFits(t) /\ TaskMission[t] \in Missions
        /\ \A j \in Jobs : RowFits(j, job[j]) /\ TaskFits(job[j])
    BY TaskColumns, StepRefines DEF ReviewedInv, AloneInv, HostInv
  <1> SUFFICES ASSUME quality'[t].status = "passed", mission'[TaskMission[t]] # "cancelled"
               PROVE  /\ task'[t].status = "execution_completed"
                      /\ quality'[t].decision = quality'[t].verification
                      /\ verification'[quality'[t].decision].target = task'[t].lastRun
    BY DEF PassedFits
  <1>1. mission[TaskMission[t]] # "cancelled"
    BY <1>0, CancelledStays
  <1>2. CASE Undisturbed(t)
    <2>1. /\ quality'[t] = quality[t] /\ quality[t].status = "passed"
          /\ task[t].status = "execution_completed" /\ task'[t] = task[t]
          /\ quality[t].decision = quality[t].verification
          /\ verification[quality[t].decision].target = task[t].lastRun
      BY <1>0, <1>1, <1>2 DEF Undisturbed, PassedFits
    <2>2. PICK v : v = quality[t].decision
      OBVIOUS
    <2>3. v \in Verifications /\ verification[v].status # "absent"
      BY <1>0, <2>1, <2>2 DEF StoreInv, PassedIsEarned, Earned
    <2>4. verification'[v].target = verification[v].target
      BY <1>0, <2>3, VerificationKept
    <2>5. QED BY <2>1, <2>2, <2>4
  <1>3. ASSUME NEW j \in Jobs, Reworked(j, t) PROVE FALSE
    <2>1. quality[t].status = "passed"
      <3>1. quality'[t] = quality[t]
        BY <1>3 DEF Reworked
      <3>2. QED BY <3>1
    <2>2. mission[job[j].mission] # "cancelled"
      BY <1>0, <1>1, <1>3 DEF Reworked, RowFits
    <2>3. QED BY <1>0, <1>3, <2>1, <2>2 DEF Reworked, TaskFits
  <1>4. ASSUME NEW j \in Jobs, Passing(j, t)
        PROVE  /\ task'[t].status = "execution_completed"
               /\ quality'[t].decision = quality'[t].verification
               /\ verification'[quality'[t].decision].target = task'[t].lastRun
    <2>1. PICK v : v = job[j].verification
      OBVIOUS
    <2>2. /\ v \in Verifications /\ verification[v].task = t /\ verification[v].status # "absent"
          /\ job[j].kind = "boss" /\ job[j].pc = "reviewing"
      BY <1>0, <1>4, <2>1, WhoWorks, RowOf
      DEF Passing, ReviewerDecides, FinalizeQualityVerification, Decidable, JobHolds, CancelPoints, ReviewedInv
    <2>3. job[j].task = t /\ job[j].mission = TaskMission[t]
      BY <1>0, <2>1, <2>2 DEF RowFits, UnderReview, OnTask
    <2>4. task[t].status = "execution_completed" /\ verification[v].target = task[t].lastRun
      BY <1>0, <1>1, <2>1, <2>2, <2>3 DEF TaskFits, UnderReview
    <2>5. /\ task' = task
          /\ quality' = [quality EXCEPT ![t] = [status |-> QualityOf("pass"), verification |-> v, decision |-> v]]
      BY <1>4, <2>1, <2>2 DEF Passing, ReviewerDecides, FinalizeQualityVerification
    <2>6. quality'[t].decision = v /\ quality'[t].verification = v
      BY <1>0, <2>5 DEF StoreInv, TypeOK
    <2>7. verification'[v].target = verification[v].target
      BY <1>0, <2>2, VerificationKept
    <2>8. QED BY <2>4, <2>5, <2>6, <2>7
  <1>5. QED BY <1>2, <1>3, <1>4, TaskSteps

\* The loop takes up a task that has not passed, opens a review of the last run of an
\* executed one, and nobody else runs, blocks or passes it meanwhile.
LEMMA TaskFitsKept ==
  ASSUME ReviewedInv, BossAlone, [HostNext]_allVars, NEW j \in Jobs
  PROVE  TaskFits(job[j])'
  <1>0. /\ HostTypeOK /\ StoreInv /\ [Next]_vars /\ AloneInv /\ (\A t \in Tasks : PassedFits(t))
        /\ RowFits(j, job[j]) /\ TaskFits(job[j]) /\ JobHolds(job[j]) /\ job[j] \in JobRow
    BY StepRefines, RowOf DEF ReviewedInv, AloneInv, HostInv
  <1>1. PICK r, q : r = job[j] /\ q = job'[j]
    OBVIOUS
  <1> SUFFICES ASSUME q.kind = "boss", mission'[q.mission] # "cancelled", q.pc \in OnTask
               PROVE  /\ quality'[q.task].status # "passed"
                      /\ q.pc \in UnderReview =>
                            /\ task'[q.task].status = "execution_completed"
                            /\ verification'[q.verification].target = task'[q.task].lastRun
    BY <1>1 DEF TaskFits, UnderReview, OnTask
  <1>2. CASE Follows(q, r)
    <2>1. PICK t : t = r.task
      OBVIOUS
    <2>2. /\ r.kind = "boss" /\ r.pc \in OnTask /\ q.task = t /\ q.mission = r.mission
          /\ q.pc \in UnderReview => r.pc \in UnderReview /\ q.verification = r.verification
      BY <1>2, <2>1 DEF Follows
    <2>3. t \in Tasks /\ r.mission \in Missions /\ TaskMission[t] = r.mission
      BY <1>0, <1>1, <2>1, <2>2 DEF JobHolds, OnTask, RowFits, CancelPoints
    <2>4. mission[r.mission] # "cancelled"
      BY <2>2, <2>3, CancelledStays
    <2>5. /\ quality[t].status # "passed"
          /\ r.pc \in UnderReview => /\ task[t].status = "execution_completed"
                                     /\ verification[r.verification].target = task[t].lastRun
      BY <1>0, <1>1, <2>1, <2>2, <2>4 DEF TaskFits
    <2>6. r.pc \in UnderReview => verification'[r.verification].target = verification[r.verification].target
      BY <1>0, <1>1, <2>2, VerificationKept DEF RowFits, JobHolds, UnderReview
    <2>7. CASE Undisturbed(t)
      BY <2>2, <2>3, <2>4, <2>5, <2>6, <2>7 DEF Undisturbed
    <2>8. ASSUME NEW k \in Jobs, Reworked(k, t) \/ Passing(k, t) PROVE k = j
      <3>1. job[k].kind = "boss"
        BY <1>0, <2>8, WhoWorks DEF Reworked, Passing, ReviewerDecides, CancelPoints
      <3>2. "boss" \in Kinds[k] /\ "boss" \in Kinds[j]
        BY <1>0, <1>1, <2>2, <3>1 DEF AloneInv, RowFits
      <3>3. QED BY <3>2 DEF BossAlone
    <2>9. CASE Reworked(j, t)
      BY <1>1, <2>2, <2>5, <2>9 DEF Reworked
    <2>10. CASE Passing(j, t)
      <3>1. job' = [job EXCEPT ![j] = Choosing(j)]
        BY <1>1, <2>2, <2>10 DEF Passing, ReviewerDecides, Return
      <3>2. q.pc = "choosing"
        BY <1>0, <1>1, <3>1 DEF Choosing, NoJob, HostTypeOK
      <3>3. QED BY <3>2 DEF OnTask
    <2>11. QED BY <2>3, <2>7, <2>8, <2>9, <2>10, TaskSteps
  <1>3. ASSUME NEW t \in Tasks, ChooseTask(j, t) \/ PlanTask(j, t)
        PROVE  quality'[t].status # "passed" /\ q.task = t /\ q.pc = "dispatching"
    <2>1. r.kind = "boss" /\ job' = [job EXCEPT ![j].pc = "dispatching", ![j].task = t] /\ TaskMission[t] = r.mission
      BY <1>0, <1>1, <1>3, WhoWorks DEF ChooseTask, PlanTask, CancelPoints
    <2>2. q.task = t /\ q.pc = "dispatching" /\ q.mission = r.mission
      BY <1>0, <1>1, <2>1 DEF HostTypeOK, JobRow
    <2>3. CASE ChooseTask(j, t)
      <3>1. /\ ~(task[t].status = "execution_completed" /\ quality[t].status = "passed")
            /\ quality' = quality /\ mission' = mission
        BY <2>3 DEF ChooseTask, vars
      <3>2. QED BY <1>0, <2>1, <2>2, <3>1 DEF PassedFits
    <2>4. CASE PlanTask(j, t)
      BY <1>0, <2>2, <2>4 DEF PlanTask, CreateTask, Unverified, StoreInv, TypeOK
    <2>5. QED BY <1>3, <2>2, <2>3, <2>4
  <1>4. ASSUME NEW v \in Verifications, OpenReview(j, v)
        PROVE  /\ quality'[q.task].status # "passed"
               /\ task'[q.task].status = "execution_completed"
               /\ verification'[q.verification].target = task'[q.task].lastRun
    <2>1. PICK t : t = r.task
      OBVIOUS
    <2>2. r.kind = "boss" /\ r.pc = "targeting" /\ t \in Tasks
      BY <1>0, <1>1, <1>4, <2>1, WhoWorks DEF OpenReview, At, CancelPoints, JobHolds
    <2>3. /\ q.task = t /\ q.mission = r.mission /\ q.verification = v
          /\ UNCHANGED <<task, quality, mission>>
          /\ CreateVerificationRun(v, t, task[t].lastRun) /\ task[t].status = "execution_completed"
      BY <1>0, <1>1, <1>4, <2>1, <2>2
      DEF OpenReview, CreateVerificationRun, Target, MayVerify, HostTypeOK, JobRow
    <2>4. verification'[v].target = task[t].lastRun
      BY <1>0, <2>3 DEF CreateVerificationRun, StoreInv, TypeOK
    <2>5. quality[t].status # "passed"
      BY <1>0, <1>1, <2>1, <2>2, <2>3 DEF TaskFits, OnTask
    <2>6. QED BY <2>3, <2>4, <2>5
  <1>5. QED BY <1>0, <1>1, <1>2, <1>3, <1>4, RowSteps DEF Chosen, Opened, UnderReview

\* A cancellation works on the mission it cancelled.
LEMMA CancelFitsKept ==
  ASSUME ReviewedInv, BossAlone, [HostNext]_allVars, NEW j \in Jobs
  PROVE  CancelFits(job[j])'
  <1>0. /\ HostTypeOK /\ StoreInv /\ AloneInv /\ RowFits(j, job[j]) /\ CancelFits(job[j])
        /\ JobHolds(job[j]) /\ job[j] \in JobRow
    BY RowOf DEF ReviewedInv, AloneInv, HostInv
  <1>1. PICK r, q : r = job[j] /\ q = job'[j]
    OBVIOUS
  <1>2. CASE q = r
    <2>1. r.kind = "cancel" => r.mission \in Missions
      BY <1>0, <1>1 DEF JobHolds
    <2>2. CancelFits(r)'
      BY <1>0, <1>1, <2>1, CancelledStays DEF CancelFits
    <2>3. QED BY <1>1, <1>2, <2>2 DEF CancelFits
  <1>3. CASE q.kind # "cancel"
    BY <1>1, <1>3 DEF CancelFits
  <1>4. ASSUME NEW k \in Jobs, BossStep(k) \/ ExecutionStep(k) \/ ReviewStep(k)
        PROVE  q = r \/ q.kind # "cancel"
    <2>1. CASE k # j
      BY <1>0, <1>1, <1>4, <2>1, BossQuiet, ReviewQuiet, ExecutionCases DEF Quiet
    <2>2. CASE k = j
      <3>1. CASE Chosen(j) \/ Opened(j)
        <4>1. \E pc \in {"choosing", "targeting"} : At(j, pc)
          BY <3>1 DEF Chosen, Opened, ChooseTask, PlanTask, OpenReview
        <4>2. r.kind = "boss"
          BY <1>0, <1>1, <4>1, WhoWorks DEF CancelPoints
        <4>3. q.kind = r.kind
          BY <1>0, <1>1, <3>1 DEF Chosen, Opened, ChooseTask, PlanTask, OpenReview, HostTypeOK, JobRow
        <4>4. QED BY <4>2, <4>3
      <3>2. QED BY <1>0, <1>1, <1>4, <2>2, <3>1, LoopRowSteps DEF Goes
    <2>3. QED BY <2>1, <2>2
  <1>5. ASSUME NEW k \in Jobs, CancelStep(k) PROVE q = r \/ CancelFits(q)'
    <2>1. CASE k # j
      BY <1>0, <1>1, <1>5, <2>1, CancelQuiet DEF Quiet
    <2>2. ASSUME NEW m \in Missions, BeginCancel(j, m) PROVE CancelFits(q)'
      <3>1. /\ q.mission = m /\ q.pc = "cancelling"
            /\ mission' = [mission EXCEPT ![m] = "cancelled"]
        BY <1>0, <1>1, <2>2 DEF BeginCancel, TransitionMission, NoJob, HostTypeOK
      <3>2. QED BY <1>0, <3>1 DEF CancelFits, StoreInv, TypeOK
    <2>3. ASSUME ListTasks(j) \/ ListReviews(j) \/ EndCancel(j) \/ (\E t \in Tasks : CancelTask(j, t))
                 \/ \E v \in Verifications : CancelReview(j, v)
          PROVE  CancelFits(q)'
      <3>1. r.kind = "cancel" /\ r.mission \in Missions /\ mission' = mission
        BY <1>0, <1>1, <2>3 DEF ListTasks, ListReviews, EndCancel, CancelTask, CancelReview, At, JobHolds,
           vars, FinishTask, FinalizeQualityFailure
      <3>2. CASE EndCancel(j)
        BY <1>0, <1>1, <3>2 DEF EndCancel, NoJob, CancelFits, HostTypeOK
      <3>3. CASE ListTasks(j)
        <4>1. q.mission = r.mission /\ \A t \in q.todo : TaskMission[t] = r.mission
          BY <1>0, <1>1, <3>3 DEF ListTasks, HostTypeOK, JobRow
        <4>2. QED BY <1>0, <1>1, <3>1, <4>1 DEF CancelFits
      <3>4. CASE ListReviews(j) \/ \E v \in Verifications : CancelReview(j, v)
        <4>1. q.mission = r.mission /\ q.pc = "cancelReviews"
          BY <1>0, <1>1, <3>4 DEF ListReviews, CancelReview, At, HostTypeOK, JobRow
        <4>2. QED BY <1>0, <1>1, <3>1, <4>1 DEF CancelFits
      <3>5. ASSUME NEW t \in Tasks, CancelTask(j, t) PROVE CancelFits(q)'
        <4>1. q.mission = r.mission /\ q.todo \subseteq r.todo /\ r.pc = "cancelTasks"
          BY <1>0, <1>1, <3>5 DEF CancelTask, At, HostTypeOK, JobRow
        <4>2. QED BY <1>0, <1>1, <3>1, <4>1 DEF CancelFits
      <3>6. QED BY <2>3, <3>2, <3>3, <3>4, <3>5
    <2>4. QED BY <1>5, <2>1, <2>2, <2>3 DEF CancelStep
  <1>6. ASSUME NEW h \in Hosts, UserStep(h) \/ Crash(h) \/ Start(h)
        PROVE  q = r \/ q.kind # "cancel"
    BY <1>1, <1>6 DEF UserStep, UserCreatesMission, UserCreatesTask, UserMovesMission, hostVars, Crash, Start, NoJob
  <1>7. UNCHANGED allVars => q = r
    BY <1>1 DEF allVars, hostVars
  <1>8. (\E k \in Jobs : BossStep(k) \/ ExecutionStep(k) \/ ReviewStep(k) \/ CancelStep(k)) =>
           CancelFits(job[j])'
    BY <1>1, <1>2, <1>3, <1>4, <1>5 DEF CancelFits
  <1>9. QED BY <1>2, <1>3, <1>6, <1>7, <1>8 DEF HostNext

\* The invariant is inductive.
LEMMA StepReviewed ==
  ASSUME BossAlone, ReviewedInv, [HostNext]_allVars
  PROVE  ReviewedInv'
  BY StepAlone, PassesKept, TaskFitsKept, CancelFitsKept DEF ReviewedInv

\* With one Boss loop and any number of cancellations, processes and crashes, a mission
\* is completed only on reviews of the very last run of each of its active tasks.
THEOREM CompletionsAreReviewed ==
  ASSUME BossAlone
  PROVE  HostSpec => CompletedWorkReviewed
  <1> DEFINE Reviewed ==
        \A m \in Missions : mission[m] # "completed" /\ mission'[m] = "completed" =>
          \A t \in ActiveTasks(m) : verification[quality[t].decision].target = task[t].lastRun
  <1>1. HostInit => ReviewedInv
    <2> SUFFICES ASSUME HostInit PROVE ReviewedInv
      OBVIOUS
    <2>1. job = [j \in Jobs |-> NoJob] /\ quality = [t \in Tasks |-> NoQuality]
      BY DEF HostInit, Init
    <2>2. QED BY <2>1, InitAlone DEF ReviewedInv, PassedFits, TaskFits, CancelFits, NoJob, NoQuality
  <1>2. ReviewedInv /\ [HostNext]_allVars => ReviewedInv'
    BY StepReviewed
  <1>3. ReviewedInv /\ [HostNext]_allVars => Reviewed
    <2> SUFFICES ASSUME ReviewedInv, [HostNext]_allVars, NEW m \in Missions,
                        mission[m] # "completed", mission'[m] = "completed", NEW t \in ActiveTasks(m)
                 PROVE  verification[quality[t].decision].target = task[t].lastRun
      OBVIOUS
    <2>1. Completable(m)
      BY StepRefines, CompletionGate DEF ReviewedInv, AloneInv, HostInv
    <2>2. t \in Tasks /\ TaskMission[t] = m
      BY DEF ActiveTasks
    <2>3. quality[t].status = "passed" /\ mission[m] # "cancelled"
      BY <2>1, CancelledStays DEF Completable
    <2>4. QED BY <2>2, <2>3 DEF ReviewedInv, PassedFits
  <1>4. QED BY <1>1, <1>2, <1>3, PTL DEF HostSpec, CompletedWorkReviewed
===============================================================================
