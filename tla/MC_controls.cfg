SPECIFICATION Spec
CONSTANTS
  Lengths = {1, 4, 7, 47}
  Volumes = {0, 1}
  Second = 3
  Hundred = 2
  Word = 48
  MaxUnusual = 1
INVARIANTS LengthIsTrue VolumeIsTrue SeekInTrack DisplayInRange TimerMeansTrack
