SPECIFICATION MSpec
CONSTANTS
  NumRecords = 3
  Playable = {1, 3}
  MaxDev = 2
  MaxQueue = 1
  Overlap = FALSE
  UserEvents = {"select", "delete", "doubleclick", "repeat"}
INVARIANTS PlayingIsTended
PROPERTIES ImplementsPlayOrder StartsInSilence
