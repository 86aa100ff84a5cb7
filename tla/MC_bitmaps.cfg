SPECIFICATION FairSpec
CONSTANTS
  Images = {i1, i2}
  Senders = {s1, s2}
  QueueSize = 4
  Upper = 1
  Lower = 0
  Margin = 2
  Word = 7
  MayQuit = TRUE
  None = None
INVARIANTS RoomForRequests CountCoversQueue
PROPERTIES RequestsCarriedOut
