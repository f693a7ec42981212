CONSTANTS
  NoDS = NoDS
  NumPorts = 3
  Self = 3
  Messages <- MCMessages
SPECIFICATION Spec
INVARIANTS
  EbestBeatsScanned
  EbestFound
  VerdictsMirror
CHECK_DEADLOCK FALSE
