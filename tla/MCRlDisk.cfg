SPECIFICATION FairSpec
CONSTANTS
  Drives = {d0, d1}
  Drive0 = d0
  Files = {f0, f1}
  FDs = {3, 4, 5}
  None = None
  Disturb = {}
  MaxInits = 1
  MaxCmds = 2
  MaxLoads = 1
INVARIANTS DescriptorsOwned StatusIsTrue
PROPERTIES CommandsEnd
CHECK_DEADLOCK FALSE
