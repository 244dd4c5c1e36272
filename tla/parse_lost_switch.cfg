SPECIFICATION ParseSpec
CONSTANTS
  Dives <- MCDives
  MaxSamples = 3
INVARIANTS MixInUseRecorded
CHECK_DEADLOCK FALSE
