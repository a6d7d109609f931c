CONSTANTS
  p6 = p6
  p4 = p4
  None = None
  Drives = {d1, d2}
  Files <- MCFiles
  Big <- MCBig
  ReadOnly <- MCReadOnly
  Small = 1
  Large = 2
  Trks = 2
  Secs = 2
  WPS = 2
  WMax = 8
  Bank = 4
  Asks <- MCAsks
  Fns = {"WRITE", "SEEK", "RECAL", "DCLR", "ILF"}
  MaxCmds = 2
  MaxEvents = 1
  Intrude = FALSE
SPECIFICATION FairSpec
INVARIANTS OneTransfer
PROPERTIES EndsAsAsked RhCommandsEnd
CHECK_DEADLOCK FALSE
