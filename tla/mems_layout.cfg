SPECIFICATION Spec
CONSTANTS
  InfoSize = 3
  HdrSize = 2
  HeadRoomSizes = {0, 2}
  BodySizes = {1, 3}
  NodeCnts = {1, 2, 3}
  MaxZones = 3
INVARIANT OffsetFindsNode
CHECK_DEADLOCK FALSE
