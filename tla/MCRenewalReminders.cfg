SPECIFICATION Spec
CONSTANTS
  Policies = {1, 2}
  NoPolicy = 0
  Slots = {1}
  Refs = {c1}
  Users = {u1}
  WindowDays = 0
  UrgentDays = 0
  Horizon = 1
  PostponeModes = {"POSTPONED"}
  MaxNumber = 3
PROPERTIES NoReminderOnceDecided SyncKeepsUp ReminderComes
