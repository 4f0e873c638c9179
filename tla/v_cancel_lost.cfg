SPECIFICATION Spec
CONSTANTS
  w1 = w1
  w2 = w2
  c1 = c1
  MaxJobs = 1
  Workers = {w1}
  Users = {"alice"}
  Owner <- AllAlice
  Guest = "guest"
  Cancellers = {"h1"}
  Admins = {}
  MkdirFaults = FALSE
  MaxRestarts = 0
  Clients = {}
  Watched <- NobodyWatches
  MaxInbox = 1
CHECK_DEADLOCK FALSE
PROPERTY SettledIsFinal
