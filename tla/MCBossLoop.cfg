SPECIFICATION FairBossSpec
CONSTANTS
  e1 = e1
  f1 = f1
  l1 = l1
  t1 = t1
  w1 = w1
  x1 = x1
  x2 = x2
  NoText = NoText
  Prose = Prose
  Contents <- ShortContents
  Submissions <- FewSubmissions
  Criteria = {"works", "no change", "no change."}
  KeyOf <- Key
  NoChange = {"no change", "no change."}
  PacketInputs <- FewInputs
  MaxItems = 2
  MaxItemChars = 8
  MaxChars = 40
  IdChars = 1
  MinObjective = 16
  TooLarge = TooLarge
  NoRoute = NoRoute
  Entries <- BothRoutes
  Tasks = {t1}
  Loops = {l1}
  Weighted = {x1}
  MaxCycles = 2
  MaxTasks = 1
  Objectives = {w1}
  Fixes = {f1}
  Errors = {e1}
  MaxMoves = 1
CHECK_DEADLOCK FALSE
INVARIANTS BossTypeOK RecoverOnce
PROPERTIES PinnedBoss LoopEnds
