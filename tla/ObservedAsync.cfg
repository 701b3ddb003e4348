SPECIFICATION FairSpec
CONSTANTS
  Thread = {t1, t2, t3}
  Handle = {h1, h2, h3, m}
  Member = {m}
INVARIANTS ObserversCounted GuardProtects NoLeak
PROPERTIES ResetsReturn ImplementsMonitor
CHECK_DEADLOCK FALSE
