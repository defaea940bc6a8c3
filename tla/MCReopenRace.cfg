SPECIFICATION RacesSpec
CONSTANTS
  Policies = {1}
  NoPolicy = 0
  Slots = {1, 2}
  Refs = {c1}
  Users = {}
  WindowDays = 0
  UrgentDays = 0
  Horizon <- EndedOnly
  PostponeModes = {"POSTPONED"}
  MaxNumber = 3
  Workers = {w1, w2}
  MaxRequests = 3
INVARIANTS OneOpenTask
