SPECIFICATION Spec
CONSTANTS
  Device = {d1, d2}
  Request = {r1, r2}
  Code = {k1, k2}
  Nobody = nobody
  Attempts = 2
  Day = {1, 2}
  Week = 1
  MayFail = FALSE
  NoLetter = "-"
  NameLimit = 6
  LeagueNameLimit = 7
  Blank <- Spaces
  Wide <- WideCharacters
  LetterOf <- Letters
  Blocklist <- Blocked
  RawName <- Players
  RawLeagueName <- Groups
SYMMETRY Symmetry
INVARIANT OwnerIsMember
