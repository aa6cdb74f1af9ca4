CONSTANTS
  Size = 9
  FreeListCount = 3
  PageSize = 5
SPECIFICATION Spec
CHECK_DEADLOCK FALSE
INVARIANTS
  BlocksTypeOK
  NoOverlap
  NoLeak
  CountersAgree
PROPERTIES
  RoomFound
