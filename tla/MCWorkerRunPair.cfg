\* Two runs that may write in one directory, with children that need not stop when they are
\* aborted; records of the route are refused after the third failure.
SPECIFICATION FairWorkerSpec
CONSTANTS
  x1 = x1
  x2 = x2
  r1 = r1
  r2 = r2
  p1 = p1
  p2 = p2
  Routes = {x1}
  NoRoute = NoRoute
  Position <- PositionDef
  Scheduling = "priority"
  Weight <- WeightDef
  Diversity = "prefer"
  Conflicting = {x1}
  Excluded = {}
  MaxAttempts = 2
  FallbackEnabled = TRUE
  Procs = {p1}
  NoRecord = NoRecord
  Damaged = Damaged
  FailureThreshold = 2
  FailureLimit = 3
  MaxCooldown = 3
  MaxTime = 1
  Runs = {r1, r2}
  ProcOf <- OneProc
  Writers = {r1, r2}
  Failures <- FewKinds
  PoolMoves = {"missing"}
  MaxMoves = 0
  Submissions = {}
  MaxTools = 1
  Obedient = FALSE
CHECK_DEADLOCK FALSE
INVARIANT OneWriter
PROPERTY RunsEnd
