SPECIFICATION Spec
CONSTANTS
  NumRecords = 1
  Playable = {1}
  MaxDev = 2
  MaxQueue = 1
  Overlap = TRUE
  UserEvents = {}
PROPERTIES StopSilences
