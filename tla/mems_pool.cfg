SPECIFICATION Spec
CONSTANTS
  Procs = {p1, p2}
  Collectors = {}
  Null = Null
  TotCnt = 3
  SemFlag = 1
  TimeGap = 1
  MaxTime = 0
  MaxCreate = 4
  MaxCrashes = 2
SYMMETRY ProcSymmetry
INVARIANT TypeOK
INVARIANT PoolInv
INVARIANT ExhaustionIsReal
INVARIANT NeverUnderCounted
CHECK_DEADLOCK FALSE
