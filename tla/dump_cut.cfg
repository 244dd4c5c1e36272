SPECIFICATION DumpSpec
CONSTANTS
  Dumps <- MCDumps
  MaxRecords = 1
  MaxCut = 2
INVARIANTS NoneFoundMeansNoMarker
CHECK_DEADLOCK FALSE
