SPECIFICATION Spec
CONSTANTS
  Thread = {t1}
  Handle = {h1, m}
  Member = {m}
INVARIANTS NoSelfLock NoSelfWait
CHECK_DEADLOCK FALSE
