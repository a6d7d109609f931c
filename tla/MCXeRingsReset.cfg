SPECIFICATION FairSpec
CONSTANTS
  NT = 2
  NR = 2
  MaxPkts = 0
  MaxEvents = 2
  Given <- McPlain
  Chained = FALSE
  Intrude = TRUE
  Modes <- McModes
PROPERTIES
  CommandsAnswered
CHECK_DEADLOCK FALSE
