SPECIFICATION LockFairSpec
CONSTANTS
  p1 = p1  p2 = p2  p3 = p3
  t1a = t1a  t1b = t1b  t2 = t2  t3 = t3
  Procs = {p1, p2, p3}
  Threads = {t1a, t1b, t2, t3}
  PidOf <- MCPidOf
  NoPid = NoPid
  NoThread = NoThread
INVARIANTS LockInv MutualExclusion AssertsHold
PROPERTIES OnlyDeadAreEvicted SurvivorGetsLock
CHECK_DEADLOCK FALSE
