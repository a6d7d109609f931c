SPECIFICATION MutexFairSpec
CONSTANTS
  client1 = client1  client2 = client2  server = server
  c1 = c1  c2 = c2  cmd = cmd  io = io
  Pids = {client1, client2, server}
  Threads = {c1, c2, cmd, io}
  PidOf <- MCPidOf
  NoPid = NoPid
  MayDie = {client1, client2, server}
CHECK_DEADLOCK FALSE
INVARIANTS MutualExclusion
PROPERTIES SomeoneGetsIn
