SPECIFICATION FairSpec
CONSTANTS
  Caller = {c1, c2, c3}
  Nobody = nobody
  ExpiresIn = {5, 11}
  Margin = 8
  Timeout = 2
INVARIANTS
  TypeOK
  TokenOutlivesCall
PROPERTIES
  UsableTokenIsKept
  CallEnds
