SPECIFICATION KyFairSpec
CONSTANTS
  p1 = p1  p2 = p2  t1 = t1  t2 = t2
  v0 = v0  v1 = v1
  Procs = {p1, p2}
  Threads = {t1, t2}
  PidOf <- MCPidOf
  NoPid = NoPid
  NoThread = NoThread
  Addrs = {bad}
  Exists = {bad}
  BadParity = {bad}
  Values = {v0, v1}
  NoReq = NoReq
  MayAbandon = FALSE
INVARIANTS EngineServesOwner
PROPERTIES Atomic CallsEnd
CHECK_DEADLOCK FALSE
