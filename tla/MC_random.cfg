SPECIFICATION Spec
CONSTANTS
  Records = {r1, r2, r3, r4}
  Audio = {r1, r2, r3}
  Silent = {r2}
  MaxObjects = 2
  Unlucky = TRUE
  Changes = {"delete", "insert", "inorder"}
  Nothing = Nothing
INVARIANTS DrawIsDefined
PROPERTIES EveryTrackOnce RoundIsComplete
CHECK_DEADLOCK FALSE
