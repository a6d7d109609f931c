CONSTANTS
  p6 = p6
  p4 = p4
  None = None
  Drives = {d1, d2}
  Files <- MCFiles
  Big = {p6, p4}
  ReadOnly = {}
  Small = 1
  Large = 2
  Trks = 2
  Secs = 2
  WPS = 2
  WMax = 8
  Bank = 4
  Asks <- MCAsks
  Fns = {"READ"}
  MaxCmds = 2
  MaxEvents = 1
  Intrude = TRUE
SPECIFICATION FairSpec

PROPERTIES EndsAsAsked 
CHECK_DEADLOCK FALSE
