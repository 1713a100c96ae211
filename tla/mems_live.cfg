SPECIFICATION FairSpec
CONSTANTS
  Procs = {p1, p2}
  Collectors = {g1}
  Null = Null
  TotCnt = 2
  SemFlag = 1
  TimeGap = 0
  MaxTime = 1
  MaxCreate = 1
  MaxCrashes = 2
PROPERTY AllocReturns
PROPERTY OneRunReclaims
CHECK_DEADLOCK FALSE
