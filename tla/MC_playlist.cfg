\* An editor whose file was deleted never ends: nothing is left to do then.
CHECK_DEADLOCK FALSE
SPECIFICATION FairSpec
CONSTANTS
  Tracks = {1, 2, 3}
  NoTrack = NoTrack
  Missing = {3}
  MaxList = 2
  MaxSavers = 2
  MaxBoxes = 2
  MaxHaste = 2
INVARIANTS TypeOK SavedIsShown FolderOutlivesSaver InUseWhileOpen
PROPERTIES ClosesSaved EditorEnds
