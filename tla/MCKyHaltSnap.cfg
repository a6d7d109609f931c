SPECIFICATION Spec
CONSTANTS
  Calls = {"haltreq", "snapregs"}
  MaxCtr = 1
  Unanswered = {"snapregs"}
  MayGiveUp = FALSE
  MayFault = FALSE
  MayReset = FALSE
  Devices = FALSE
INVARIANT SnapRestores
