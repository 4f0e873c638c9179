SPECIFICATION Spec
CONSTANTS
  Histories <- ShortHistories
  MaxNow = 2
  MaxCalls = 2
  ErrorAnswers = FALSE
INVARIANTS ConsoleHasItsCalls ChartsAreTrue ListIsCurrent
PROPERTIES HistoryFollowsRange RangeArrives CatchesUp
