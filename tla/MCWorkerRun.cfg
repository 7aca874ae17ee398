\* One run over two routes, failures of every kind, one thing that others do to the pool or the health file.
SPECIFICATION FairWorkerSpec
CONSTANTS
  x1 = x1
  x2 = x2
  r1 = r1
  r2 = r2
  p1 = p1
  p2 = p2
  Routes = {x1, x2}
  NoRoute = NoRoute
  Position <- PositionDef
  Scheduling = "priority"
  Weight <- WeightDef
  Diversity = "prefer"
  Conflicting = {x1}
  Excluded = {}
  MaxAttempts = 2
  FallbackEnabled = TRUE
  Procs = {p1}
  NoRecord = NoRecord
  Damaged = Damaged
  FailureThreshold = 2
  FailureLimit = 3
  MaxCooldown = 3
  MaxTime = 1
  Runs = {r1}
  ProcOf <- OneProc
  Writers = {r1}
  Failures <- AllKinds
  PoolMoves = {"missing"}
  MaxMoves = 1
  Submissions = {"good", "bad", "oversize"}
  MaxTools = 1
  Obedient = TRUE
CHECK_DEADLOCK FALSE
INVARIANTS ReportIsTrue
PROPERTIES NoReplayAfterMutation NeverBack RunsEnd
