SPECIFICATION Spec
CONSTANTS
  Handle = {h1, h2, h3, h4, m}
  Member = {m}
INVARIANT NoDeadCast
CHECK_DEADLOCK FALSE
