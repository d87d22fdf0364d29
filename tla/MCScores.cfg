SPECIFICATION Spec
CONSTANTS
  Device = {d1, d2}
  Request = {r1, r2}
  LastDay = 2
  WeekDays = 2
  Score = {0, 1, 2}
  MaxInt = 3
  Limit = 1
  NoDevice = NoDevice
  MayFail = TRUE
SYMMETRY Symmetry
INVARIANTS
  TypeOK
  BestScoreKept
  RankIsBounded
  RankAgreesWithBoard
