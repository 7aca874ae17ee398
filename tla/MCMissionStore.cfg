SPECIFICATION Spec
CONSTANTS
  m1 = m1
  a1 = a1
  a2 = a2
  a3 = a3
  v1 = v1
  v2 = v2
  o1 = o1
  o2 = o2
  NoId = NoId
  Missions = {m1}
  Tasks <- TwoTasks
  Attempts = {a1, a2}
  Verifications = {v1, v2}
  Owners = {o1, o2}
  TaskMission <- TaskMissionDef
  TaskClass <- TaskClassDef
  TaskKey <- TaskKeyDef
  LeaseTtl = 2
  MaxTime = 4
CONSTRAINT LeasesOrReviews
VIEW WhatMatters
SYMMETRY Symmetric
CHECK_DEADLOCK FALSE
INVARIANTS TypeOK RunningAttemptIsLastRun DoneTaskHasSucceededRun OneRunningVerification PassedIsEarned LeaseExclusive
PROPERTIES CompletionJustified HistoryImmutable LiveLeaseShieldsMission RecoverySparesLiveLease
