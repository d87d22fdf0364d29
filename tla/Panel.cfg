SPECIFICATION Spec
CONSTANTS
  PageSize = 2
  MaxQuestions = 5
  MaxWords = 4
  MaxAnns = 2
INVARIANTS
  TypeOK
  WalkMissesNothing
  IdsStayTrue
PROPERTY ButtonKeepsItsWord
