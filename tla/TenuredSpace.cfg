CONSTANTS
  Size = 9
  FreeListCount = 3
  PageSize = 5
  CardSize = 3
  ImageSizes = {1, 4}
SPECIFICATION Spec
CHECK_DEADLOCK FALSE
INVARIANTS
  StartsExact
  ScanMeetsObjects
