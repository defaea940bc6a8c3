SPECIFICATION Spec
CONSTANTS
  Licenses = {l1, l2}
  Machines = {m1, m2}
  Limits = {1}
  NoLimit = NoLimit
  MaxPairs = 2
CONSTRAINT Bounded
INVARIANTS TypeOK SeatsWithinLimit AnswersSurvive CodesVerify
PROPERTIES ImplementsSeats
CHECK_DEADLOCK FALSE
