SPECIFICATION Spec
CONSTANTS
  Drives = {d0, d1}
  Drive0 = d0
  Files = {f0, f1, f2}
  FDs = {3, 4, 5}
  None = None
  Disturb = {"INIT", "LOAD"}
  MaxInits = 1
  MaxCmds = 1
  MaxLoads = 2
INVARIANTS DescriptorsOwned FileStaysLoaded
CHECK_DEADLOCK FALSE
