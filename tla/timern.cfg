SPECIFICATION FairSpec
CONSTANTS
  N_DAY = 3
  ONE_MINUTE = 1
  MaxNodeCnt = 2
  AddAhead = {1, 2, 3}
  UpdAhead = {0, 1}
  MaxIdx = 4
  MaxTime = 5
  MaxLag = 1
INVARIANT TypeOK
INVARIANT WheelExact
INVARIANT DeletedIsGone
PROPERTY WheelIsTimers
PROPERTY TimersEnd
