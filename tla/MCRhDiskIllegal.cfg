CONSTANTS
  p6 = p6
  p4 = p4
  None = None
  Drives = {d1, d2}
  Files <- MCFiles
  Big <- MCBig
  ReadOnly <- MCReadOnly
  Small = 1
  Large = 2
  Trks = 2
  Secs = 2
  WPS = 2
  WMax = 8
  Bank = 4
  Asks <- MCAsks
  Fns = {"READ", "WRITE", "WCHECK", "SEEK", "RECAL", "DCLR", "ILX"}
  MaxCmds = 3
  MaxEvents = 0
  Intrude = FALSE
SPECIFICATION Spec
INVARIANTS OneTransfer

CHECK_DEADLOCK FALSE
