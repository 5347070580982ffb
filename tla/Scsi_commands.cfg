CONSTANTS
  NULL = NULL
  Word = 8
  Totals = {1, 7, 8, 9}
  Logs <- Drives
  SerialLen = 20
  NsidDigits = 2
  MaxRanges = 1
  Lengths = {0, 1, 5, 7, 8, 10, 11, 12, 14, 15, 19, 24, 28, 36, 512}
  PageLists <- Lists
SPECIFICATION Spec
INVARIANTS
  DataReported
  AnswersTrue
CHECK_DEADLOCK FALSE
