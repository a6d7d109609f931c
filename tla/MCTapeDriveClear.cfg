SPECIFICATION Spec
CONSTANTS
  Drives = {d0, d1}
  Drive0 = d0
  Tapes = {a, b}
  None = None
  Images <- McImages
  Wrap = 3
  Fns = {"READ", "WRITE", "WMARK", "SPF", "SPR", "REWIND", "UNLOAD"}
  MaxCmds = 3
  MaxLoads = 1
  MaxWords = 6
  Intrude = TRUE
PROPERTIES
  PowerClearSeen
CHECK_DEADLOCK FALSE
