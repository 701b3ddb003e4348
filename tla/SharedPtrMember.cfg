SPECIFICATION Spec
CONSTANTS
  Thread = {t1}
  Handle = {h1, m}
  Member = {m}
INVARIANT NoFault
CHECK_DEADLOCK FALSE
