CONSTANTS
  NoDS = NoDS
  NumPorts = 2
  Self = 3
  OwnAttrs <- MCOwnAttrs
  SlaveOnly = FALSE
  Transparent = FALSE
  ActiveE2ETC = FALSE
  DelayMechanism = "E2E"
  Messages <- MCMessages
  StepsModulus = 65536
SPECIFICATION Spec
INVARIANTS
  NeverAborted
  InitPhase
  TimersMatchState
  OneSlavePort
  ServoFollowsParent
PROPERTIES
  QualifiesForRoleAtEntry
  NewParentUncalibrates
  NeverOwnSlave
