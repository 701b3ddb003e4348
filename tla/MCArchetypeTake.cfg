SPECIFICATION NewestFirstSpec
CONSTANTS
  Entity = {e1, e2, e3, e4, e5, e6}
  NoEntity = NoEntity
  kMaxBufferSize = 30
  SparseUnit = 10
  DenseUnit = 8
  DataUnit = 12
  MaxBatch = 3
  MaxRows = 6
  TargetUnit = 30
  DenseIds = {}
  MaxBytes = 0
INVARIANT AllocationsNonEmpty
SYMMETRY EntitySymmetry
CHECK_DEADLOCK FALSE
