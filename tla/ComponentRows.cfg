SPECIFICATION Spec
CONSTANTS
  Entity = {e1, e2, e3}
  NoEntity = NoEntity
  Component = {c1, c2, c3}
  Small = {c1, c3}
  Extra = {c3}
  Raw = Raw
  Dead = Dead
  MaxTaken = 2
SYMMETRY Symmetry
INVARIANTS EachComponentOnce RowsKeepTogether BoxesFreed
PROPERTIES RawOnlyWhereLacked BundleReleasesNothing
CHECK_DEADLOCK FALSE
