SPECIFICATION Spec
CONSTANTS
  NIFO_SIZE = 2
  TLV_SIZE = 2
  BodySizes <- MCBodySizes
  Lens <- MCLens
  PoolSizes = {1, 3, 6}
  MaxTlv = 3
  MaxGrow = 8
  MaxReads = 5
INVARIANT TypeOK
INVARIANT EveryTlvInOrder
INVARIANT AllocedReadBack
INVARIANT HeadLookup
CHECK_DEADLOCK FALSE
