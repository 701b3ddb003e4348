SPECIFICATION Spec
CONSTANTS
  Thread = {t1, t2}
  Handle = {h1, h2}
  Member = {}
INVARIANT NoFault
CHECK_DEADLOCK FALSE
