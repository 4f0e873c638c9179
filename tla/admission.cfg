SPECIFICATION Spec
CONSTANTS
  r1 = r1
  r2 = r2
  w1 = w1
  w2 = w2
  Requests = {r1, r2}
  Workers = {w1, w2}
  Cancellers = {"c1"}
  Guests <- MovingGuest
  alice = alice
  Users = {alice}
  Nobody = Nobody
  Exempt = {}
  GuestLimit = 1
  Quota = 1
  MaxQueue = 1
  MaxJobs = 3
  MaxRestarts = 1
CHECK_DEADLOCK FALSE
SYMMETRY RequestSymmetry
INVARIANTS LimitsHold NeverOvercharged
