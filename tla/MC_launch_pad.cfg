SPECIFICATION Spec
CONSTANTS
  Handles = {h1, h2, h3}
  Junk = Junk
  MaxPads = 2
  NoDialog = NoDialog
INVARIANTS CountCoversList
PROPERTIES InsertedWhereDropped NothingElseLost
CHECK_DEADLOCK FALSE
SYMMETRY HandleSymmetry
