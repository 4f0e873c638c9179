SPECIFICATION FairSpec
CONSTANTS
  Jobs <- OneJob
  Cancellers <- OneCanceller
  Pages <- OnePage
  Cron = "cron"
  MaxVersion = 1
  MaxAttempts = 2
  MaxHealth = 2
  MaxScripts = 1
  MaxCrashes = 1
CHECK_DEADLOCK FALSE
INVARIANT SuccessIsReal
PROPERTIES CutsOnlyNewJobs AnswerRestarts ScriptEnds
