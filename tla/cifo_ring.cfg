SPECIFICATION Spec
CONSTANTS
  Entries = {n1, n2, n3}
  Null = Null
  Writers = {w1, w2}
  Readers = {r1}
  CellCnt = 3
  WBuffCnt = 1
  RBuffCnt = 2
  WSemFlag = 1
  WTune = {1, 2}
  RTune = {1}
  LiveTuning = FALSE
  MaxCrashes = 1
SYMMETRY NodeSymmetry
INVARIANT TypeOK
INVARIANT RingInv
INVARIANT AtMostOnce
PROPERTY QueueRefinement
PROPERTY FifoRefinement
