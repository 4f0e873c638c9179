SPECIFICATION FairSpec
CONSTANTS
  u1 = u1
  u2 = u2
  Urls <- TwoUrls
  None = None
  MaxJobs = 2
  MaxCalls = 1
CHECK_DEADLOCK FALSE
INVARIANTS PageHasItsCalls BlockedIsKept
PROPERTY ResumeWorks
