SPECIFICATION AnySpec
CONSTANTS
  Entity = {e1, e2, e3}
  NoEntity = NoEntity
  kMaxBufferSize = 20
  SparseUnit = 10
  DenseUnit = 8
  DataUnit = 7
  MaxBatch = 2
  MaxRows = 3
  TargetUnit = 9
  DenseIds = {}
  MaxBytes = 0
SYMMETRY EntitySymmetry
INVARIANT IndexFindsEntity
CHECK_DEADLOCK FALSE
