SPECIFICATION RateFairSpec
CONSTANTS
  Request = {r1, r2}
  Limit = 3
  Window = 3
  MayFail = TRUE
INVARIANTS
  TypeOK
  RateIsLimited
  KeysGetLifetime
PROPERTIES
  RefusalIsNotProlonged
  RefusalEnds
