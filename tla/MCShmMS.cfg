SPECIFICATION Spec
CONSTANTS
  a = a  b = b  c3 = c3  s1 = s1  s2 = s2  s3 = s3
  Clients = {a, b}
  Servers = {s1, s3}
  ByHand = {s3}
  ForkMayFail = TRUE
  Drives = {d}
  Files = {f}
  NoPid = NoPid
  NoFile = NoFile
  Ops = {"load", "keep", "unload", "stat"}
  MaxCalls = 3
  MayDie = {a, b, s1, s3}
  FnseqMax = 1
CHECK_DEADLOCK FALSE
SYMMETRY SymmetryC
INVARIANTS OneWaiter ShownIsLoaded SuccessIsReal WorkerIsRegistered
