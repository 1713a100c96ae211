SPECIFICATION Spec
CONSTANTS
  Procs = {p1}
  Collectors = {g1}
  Null = Null
  TotCnt = 2
  SemFlag = 1
  TimeGap = 1
  MaxTime = 3
  MaxCreate = 3
  MaxCrashes = 0
PROPERTY GcFreesOnlyOld
CHECK_DEADLOCK FALSE
