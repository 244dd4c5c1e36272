SPECIFICATION FairParseSpec
CONSTANTS
  Dives <- MCDives
  MaxSamples = 3
INVARIANTS SamplesMatch GasesMatch PanicsOnlyOnEmptyMisc
PROPERTIES ParseEnds
CHECK_DEADLOCK FALSE
