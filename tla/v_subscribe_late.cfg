SPECIFICATION FairSpec
CONSTANTS
  w1 = w1
  w2 = w2
  c1 = c1
  MaxJobs = 1
  Workers = {w1}
  Users = {"alice"}
  Owner <- AllGuest
  Guest = "guest"
  Cancellers = {}
  Admins = {}
  MkdirFaults = FALSE
  MaxRestarts = 0
  Clients = {c1}
  Watched <- OneWatchesFirst
  MaxInbox = 1
CHECK_DEADLOCK FALSE
PROPERTY WatcherLearnsOutcome
