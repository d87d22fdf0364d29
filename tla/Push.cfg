SPECIFICATION FairSpec
CONSTANTS
  Device = {d1, d2}
  Token = {t1, t2, t3}
  Broadcast = {b1}
  Worker = {w1, w2}
  NoDevice = NoDevice
  NoToken = NoToken
  MayFail = TRUE
  MessagesMayBeBad = FALSE
INVARIANTS
  TypeOK
  OncePerDevice
PROPERTIES
  PruneKeepsReachable
  BroadcastEnds
