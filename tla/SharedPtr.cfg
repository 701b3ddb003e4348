SPECIFICATION FairSpec
CONSTANTS
  Thread = {t1, t2, t3}
  Handle = {h1, h2, h3, m}
  Member = {m}
INVARIANTS CountsExact ObjectOutlivesShared NoLeak
PROPERTIES Reclaimed ImplementsOwnership
CHECK_DEADLOCK FALSE
