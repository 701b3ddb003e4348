SPECIFICATION Spec
CONSTANTS
  Name = {a, b}
  Thing = {t1, t2}
  Empty = Empty
  Raw = Raw
  Dead = Dead
  MaxCapacity = 4
  MaxSlots = 4
  CutsOwners = FALSE
SYMMETRY Symmetry
INVARIANTS EachThingOnce UsesObjectsOnly
PROPERTY ImplementsSeqs
CHECK_DEADLOCK FALSE
