SPECIFICATION Spec
CONSTANTS
  w1 = w1
  w2 = w2
  c1 = c1
  MaxJobs = 2
  Workers = {w1, w2}
  Users = {"alice"}
  Owner <- AllAlice
  Guest = "guest"
  Cancellers = {"h1"}
  Admins = {"a1"}
  MkdirFaults = TRUE
  MaxRestarts = 1
  Clients = {}
  Watched <- NobodyWatches
  MaxInbox = 1
CHECK_DEADLOCK FALSE
SYMMETRY WorkerSymmetry
INVARIANTS TypeOK OneWorkerPerJob NoLostJob FailedLeavesNothing FlagNeverOnQueued
PROPERTY HandedOverOnce
