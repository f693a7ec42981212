CONSTANTS
  NoDS = NoDS
  DataSets <- MCDataSets
  Window = 2
  Jumps <- MCBackward
  MaxTime = 6
  MaxMsgs = 3
SPECIFICATION Spec
INVARIANT
  AnswerIsCurrent
