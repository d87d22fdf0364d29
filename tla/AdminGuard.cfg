SPECIFICATION AdminFairSpec
CONSTANTS
  Request = {r1, r2, r3}
  Limit = 5
  Window = 3
  MayFail = TRUE
INVARIANTS
  TypeOK
  KeysGetLifetime
  GuessesAreLimited
PROPERTY BlockEnds
