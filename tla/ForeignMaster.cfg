CONSTANTS
  NoDS = NoDS
  DataSets <- MCDataSets
  Window = 2
  Jumps <- MCBoth
  MaxTime = 5
  MaxMsgs = 3
SPECIFICATION Spec
INVARIANTS
  CurrentUnlessSetBack
  AnswerIsBest
  HeardInOrder
