SPECIFICATION Spec
CONSTANTS
  a = a  b = b  c3 = c3  s1 = s1  s2 = s2  s3 = s3
  Clients = {a, b, c3}
  Servers = {s1}
  ByHand = {}
  ForkMayFail = FALSE
  Drives = {d}
  Files = {f}
  NoPid = NoPid
  NoFile = NoFile
  Ops = {"load", "unload"}
  MaxCalls = 3
  MayDie = {a}
  FnseqMax = 1
CHECK_DEADLOCK FALSE
PROPERTIES DoneKeptForSender
