SPECIFICATION Spec
CONSTANTS
  NumRecords = 2
  Playable = {1, 2}
  MaxDev = 2
  MaxQueue = 1
  Overlap = TRUE
  UserEvents = {"pause", "seek"}
INVARIANTS TypeOK PublishedDeviceIsOpen StartingDeviceIsOpen StartingDevicesDiffer PauseAgrees
