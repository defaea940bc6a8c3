SPECIFICATION Spec
CONSTANTS
  Policies = {1, 2}
  NoPolicy = 0
  Slots = {1, 2}
  Refs = {c1}
  Users = {}
  WindowDays = 0
  UrgentDays = 0
  Horizon = 1
  PostponeModes = {"POSTPONED", "AWAITING_FEEDBACK"}
  MaxNumber = 3
INVARIANTS TypeOK OneOpenTask RowsConsistent RenewalLinks NumbersUnique
PROPERTIES DecisionsKept SyncSettles SyncIdempotent ImplementsPromise
