SPECIFICATION FairSpec
CONSTANTS
  j1 = j1
  Jobs <- OneJob
  Owned <- OneJob
  Admins = {"a1"}
  Cancellers = {"c1"}
  Ttls = {1, 2}
  LinkTtl = 1
  MaxRestarts = 1
  MaxFaults = 1
CHECK_DEADLOCK FALSE
INVARIANT TypeOK
PROPERTIES FetchableInTime FilesGoAway DoneExpires
