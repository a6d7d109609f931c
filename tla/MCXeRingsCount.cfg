SPECIFICATION FairSpec
CONSTANTS
  NT = 2
  NR = 2
  MaxPkts = 0
  MaxEvents = 1
  Given <- Commands
  Chained = FALSE
  Intrude = FALSE
  Modes <- McModes
PROPERTIES
  CommandsAnswered
CHECK_DEADLOCK FALSE
