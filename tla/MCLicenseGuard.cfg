SPECIFICATION Spec
CONSTANTS
  Keys = {k1, k2}
  NoKey = NoKey
  Machines = {m1, m2}
  NoCode = NoCode
  NoMarker = NoMarker
  TrialLength = 2
  Tolerance = 1
  MaxClock = 4
INVARIANTS TypeOK CodeFitsKey NoDemoAfterFull ActivationKept
PROPERTIES TrialKeepsItsTerm
