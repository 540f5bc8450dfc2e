SPECIFICATION Spec
CONSTANTS
  ENTROPY_MAX_REPETITIONS = 2
  ENTROPY_WINDOW = 3
  ENTROPY_ADAPTIVE_CUTOFF = 2
  drbg_samples_required = 4
  RepetitionValues = 4
INVARIANTS StuckNeverReady SleepHasAlarm ChipWatched MotionNotLost
PROPERTY NoSampleTwice
