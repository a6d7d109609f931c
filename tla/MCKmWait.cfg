SPECIFICATION WfiFairSpec
CONSTANTS
  rl = rl  tm = tm
  z11rl = z11rl  z11tm = z11tm  z11ctrl = z11ctrl
  Sources = {rl, tm}
  Procs = {z11rl, z11tm, z11ctrl}
  Mask <- MCMask
  Nobody = Nobody
CHECK_DEADLOCK TRUE
INVARIANTS SleepersAreArmed
PROPERTIES WaitersWake
