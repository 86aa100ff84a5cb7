SPECIFICATION FairSpec
CONSTANTS
  NumRecords = 2
  Playable = {1, 2}
  MaxDev = 2
  MaxQueue = 1
  Overlap = FALSE
  UserEvents = {"pause", "seek", "delete", "doubleclick", "repeat", "share"}
INVARIANTS SilentMeansUnused
PROPERTIES EndedTrackMovesOn
