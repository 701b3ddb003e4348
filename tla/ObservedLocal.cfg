SPECIFICATION Spec
CONSTANTS
  Handle = {h1, h2, h3, h4, m}
  Member = {m}
INVARIANTS ObserversCounted NoDeadAccess NoLeak OnlyDestructorFaults
CHECK_DEADLOCK FALSE
