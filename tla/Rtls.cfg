SPECIFICATION Spec
CONSTANTS
  Delay <- RtlsDelay
  MaxLate = 1
  MaxDelay = 1
  Collisions = 1
  Anchors = {1, 2}
  BlinkPeriod = 8
  Blinks = 2
  Wakeups = {6}
  Rounds = 2
INVARIANTS RangingWatched OneBlink OwnTimerEnds OneRound
PROPERTIES RangingEnds
