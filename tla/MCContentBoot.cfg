SPECIFICATION FairBootSpec
CONSTANTS
  own = own
  Word = {w1}
  Question = {own}
  Connection = {c1}
  Admin = {a1}
  Phone = {}
  Warmer = warmer
  NoBundle = NoBundle
  MayFail = TRUE
  MaxVersion = 2
  SeedRows <- FileRows
  FileVersion = 1
INVARIANTS
  BootTypeOK
  IdentifiesAgain
PROPERTIES
  ContentIsKept
  StaleCacheHeals
