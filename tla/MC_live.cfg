SPECIFICATION FairSpec
CONSTANTS
  NumRecords = 2
  Playable = {1, 2}
  MaxDev = 1
  MaxQueue = 1
  Overlap = TRUE
  UserEvents = {"select"}
PROPERTIES HandlersReturn
