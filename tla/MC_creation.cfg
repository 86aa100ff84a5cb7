SPECIFICATION FairSpec
CONSTANTS
  Views = {1, 3}
  SmallSize = 2
  QueueSize = 1
  Ids = {1, 2, 3}
  None = None
  Creation = Creation
  Deletion = Deletion
  Caller = Caller
INVARIANTS NothingLost SizeIsTrue BlankIsAwaited
PROPERTIES SmallNotOverwritten SmallGoesWithViews
