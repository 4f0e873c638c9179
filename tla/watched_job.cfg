SPECIFICATION FairSpec
CONSTANTS
  w1 = w1
  w2 = w2
  c1 = c1
  MaxJobs = 2
  Workers = {w1}
  Users = {"alice"}
  Owner <- AllGuest
  Guest = "guest"
  Cancellers = {"h1"}
  Admins = {}
  MkdirFaults = FALSE
  MaxRestarts = 1
  Clients = {c1}
  Watched <- OneWatchesFirst
  MaxInbox = 1
CHECK_DEADLOCK FALSE
INVARIANTS RunningHasWorker AnnouncedIsCommitted
PROPERTIES JobSettles ListenerLearnsOutcome
