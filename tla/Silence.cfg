CONSTANTS
  NoDS = NoDS
SPECIFICATION MCSpec
PROPERTIES
  TakesOver
  DataSetsOfParent
CHECK_DEADLOCK FALSE
