CONSTANTS
  Size = 12
  FreeListCount = 2
  PageSize = 3
  NurserySize = 4
  AgingSize = 2
  ImageSizes = {1, 2}
  ObjectSizes = {2, 3}
  LargeSizes = {4, 5}
SPECIFICATION Spec
CHECK_DEADLOCK FALSE
INVARIANTS
  ReserveContiguous
