SPECIFICATION ParseRunSpec
CONSTANTS
  Dumps <- MCRunDumps
  Parses <- MCParses
  Panics <- MCPanics
  NotANumber = NotANumber
  Sinces <- MCSinces
  Lasts <- MCLasts
  NoFilter = NoFilter
  MaxRecords = 3
  MaxCut = 9
INVARIANTS RecordsApart ExtractsAll NewerSurvive CutRecordCosts NumbersKept FileIsSelection PrintedIsCalendar
CHECK_DEADLOCK FALSE
