SPECIFICATION Spec
CONSTANTS
  Policies = {1, 2}
  NoPolicy = 0
  Slots = {1}
  Refs = {c1}
  Users = {u1}
  WindowDays = 1
  UrgentDays = 0
  Horizon = 2
  PostponeModes = {"POSTPONED"}
  MaxNumber = 4
PROPERTIES RestoreOpensTask
