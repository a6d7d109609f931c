SPECIFICATION FairSpec
CONSTANTS
  NT = 2
  NR = 2
  MaxPkts = 2
  MaxEvents = 3
  Given <- McGiven
  Chained = TRUE
  Intrude = FALSE
  Modes <- McModes
INVARIANTS
  ReceivedWhole
  NoForgottenPacket
PROPERTIES
  SentAsQueued
  XeWorkEnds
CHECK_DEADLOCK FALSE
