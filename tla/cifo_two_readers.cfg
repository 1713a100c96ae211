SPECIFICATION Spec
CONSTANTS
  Entries = {n1, n2, n3}
  Null = Null
  Writers = {w1}
  Readers = {r1, r2}
  CellCnt = 3
  WBuffCnt = 1
  RBuffCnt = 1
  WSemFlag = 0
  WTune = {}
  RTune = {}
  LiveTuning = FALSE
  MaxCrashes = 0
INVARIANT AtMostOnce
