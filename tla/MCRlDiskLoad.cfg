SPECIFICATION Spec
CONSTANTS
  Drives = {d0, d1}
  Drive0 = d0
  Files = {f0, f1, f2}
  FDs = {3, 4, 5}
  None = None
  Disturb = {"LOAD"}
  MaxInits = 0
  MaxCmds = 1
  MaxLoads = 1
INVARIANTS UnloadIsBlocked
CHECK_DEADLOCK FALSE
