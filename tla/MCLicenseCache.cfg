SPECIFICATION Spec
CONSTANTS
  Keys = {k1}
  None = None
  Torn = Torn
  Threads = {t1, t2}
  MaxRequests = 4
INVARIANTS ActivationKept
CHECK_DEADLOCK FALSE
