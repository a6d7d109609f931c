SPECIFICATION FairSpec
CONSTANTS
  Calls = {"haltreq", "contreq"}
  MaxCtr = 0
  Unanswered = {}
  MayGiveUp = FALSE
  MayFault = FALSE
  MayReset = FALSE
  Devices = FALSE
PROPERTY Resumes
