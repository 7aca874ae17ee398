SPECIFICATION FairHostSpec
CONSTANTS
  m1 = m1
  a1 = a1
  a2 = a2
  a3 = a3
  v1 = v1
  v2 = v2
  h1 = h1
  h2 = h2
  j1 = j1
  j2 = j2
  NoId = NoId
  Missions = {m1}
  Tasks <- TwoTasks
  Attempts = {a1, a2}
  Verifications = {v1, v2}
  Owners = {}
  TaskMission <- TaskMissionDef
  TaskClass <- TaskClassDef
  TaskKey <- TaskKeyDef
  LeaseTtl = 1
  MaxTime = 1
  Hosts = {h1}
  Jobs = {j1}
  HostOf <- OneHost
  Kinds <- BossOnly
  UserMoves = {}
  MaxStarts = 2
CHECK_DEADLOCK FALSE
INVARIANTS HostTypeOK StartupOpensStore NoLeakedAttempt
PROPERTIES CompletedWorkReviewed AttemptsEnd
