SPECIFICATION EitherSpec
CONSTANTS
  Entity = {e1, e2, e3}
  NoEntity = NoEntity
  kMaxBufferSize = 20
  SparseUnit = 10
  DenseUnit = 8
  DataUnit = 7
  MaxBatch = 2
  MaxRows = 3
  TargetUnit = 9
  DenseIds = {0, 7}
  MaxBytes = 43
SYMMETRY EntitySymmetry
INVARIANTS CountsAgree AvailableExact HoleStacksExact RowsPacked
  HolesAreFree SlotsMatchOwner SizeIsLiveCount
CHECK_DEADLOCK FALSE
