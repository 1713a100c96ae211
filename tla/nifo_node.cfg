SPECIFICATION Spec
CONSTANTS
  Entries = {n1, n2, n3, n4, n5}
  Null = Null
SYMMETRY NodeSymmetry
INVARIANT TypeOK
INVARIANT WalkIsRing
INVARIANT DeleteIsExact
