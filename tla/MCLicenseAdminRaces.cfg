SPECIFICATION RacesSpec
CONSTANTS
  Licenses = {l1}
  Machines = {m1, m2}
  Limits = {1}
  NoLimit = NoLimit
  MaxPairs = 1
  Threads = {t1, t2}
  Idle = Idle
INVARIANTS SeatsWithinLimit
CHECK_DEADLOCK FALSE
