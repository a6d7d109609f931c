SPECIFICATION Spec
CONSTANTS
  Calls = {"haltreq", "contreq", "stepreq", "snapregs", "dmaread", "resetit"}
  MaxCtr = 1
  Unanswered = {"dmaread"}
  MayGiveUp = TRUE
  MayFault = TRUE
  MayReset = TRUE
  Devices = TRUE
INVARIANTS OneMaster HeldWhileHalted StepRunsOne SnapRestores
