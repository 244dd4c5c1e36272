SPECIFICATION DownloadSpec
CONSTANTS
  Word = 16
  Lengths = {0, 1, 3, 11, 12, 15}
  MaxChanges = 2
INVARIANTS OkMeansSaved OnlyWriteHarms ChangeIsNoticed
CHECK_DEADLOCK FALSE
