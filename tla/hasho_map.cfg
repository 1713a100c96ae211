SPECIFICATION Spec
CONSTANTS
  Keys = {k1, k2, k3, k4}
  Lone = k4
  Datas = {d1, d2}
  HashSize = 3
  NodesPerBucket = 1
  hasho_func <- SomeCollide
  NoKey = NoKey
  NoData = NoData
SYMMETRY TableSymmetry
INVARIANT TypeOK
INVARIANT ChainsExact
PROPERTY TableIsMap
