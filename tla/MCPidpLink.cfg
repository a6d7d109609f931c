SPECIFICATION FairSpec
CONSTANTS
  Keys = {"STRT", "CONT"}
  NOLDROWS = 2
  MaxPress = 2
  MaxEvents = 1
  MaxNet = 2
  MaxLeds = 1
  MaxGap = 2
  Intrude = FALSE
CONSTRAINT StartThenContinue
INVARIANTS
  ActedOnce
PROPERTIES HaltSwitchHalts
CHECK_DEADLOCK FALSE
