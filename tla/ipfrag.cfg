SPECIFICATION Spec
CONSTANTS
  k1 = k1
  k2 = k2
  k3 = k3
  Keys = {k1, k2, k3}
  HashSize = 1
  NodesPerBucket = 2
  hasho_func <- OneBucket
  NoKey = NoKey
  NoData <- ZeroBody
  N_DAY = 4
  ONE_MINUTE = 1
  MaxNodeCnt = 3
  Entries = {n1, n2, n3, n4}
  Null = Null
  Cut <- SomeCuts
  Room = 4
  DEF_IP_FRAG_TIMEOUT = 2
  MaxTime = 5
  MaxIdx = 3
SYMMETRY Symmetry
INVARIANT TypeOK
INVARIANT TimersMatch
INVARIANT NodesAccounted
INVARIANT DeliveredWhole
PROPERTY IsReassembly
