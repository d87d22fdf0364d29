SPECIFICATION Spec
CONSTANTS
  Word = {w1, w2}
  Question = {}
  Connection = {c1}
  Admin = {a1, a2}
  Phone = {p1}
  Warmer = warmer
  NoBundle = NoBundle
  MayFail = TRUE
  MaxVersion = 1
SYMMETRY Symmetry
INVARIANTS
  TypeOK
  VersionIdentifiesContent
