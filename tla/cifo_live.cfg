SPECIFICATION FairSpec
CONSTANTS
  Entries = {n1, n2}
  Null = Null
  Writers = {w1, w2}
  Readers = {r1}
  CellCnt = 3
  WBuffCnt = 1
  RBuffCnt = 2
  WSemFlag = 1
  WTune = {}
  RTune = {1}
  LiveTuning = FALSE
  MaxCrashes = 1
PROPERTY CellsAreDelivered
PROPERTY WritersReturn
