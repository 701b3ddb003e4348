SPECIFICATION NewestFirstSpec
CONSTANTS
  Entity = {e1, e2, e3, e4, e5, e6}
  NoEntity = NoEntity
  kMaxBufferSize = 30
  SparseUnit = 10
  DenseUnit = 8
  DataUnit = 12
  MaxBatch = 5
  MaxRows = 6
  TargetUnit = 14
  DenseIds = {}
  MaxBytes = 0
INVARIANTS OnlyEmptyBufferFails
PROPERTIES ImplementsStore
SYMMETRY EntitySymmetry
CHECK_DEADLOCK FALSE
