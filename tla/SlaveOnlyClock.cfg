CONSTANTS
  NoDS = NoDS
  NumPorts = 2
  Self = 3
  OwnAttrs <- MCSlaveAttrs
  SlaveOnly = TRUE
  Transparent = TRUE
  ActiveE2ETC = FALSE
  DelayMechanism = "P2P"
  Messages <- MCFewMessages
  StepsModulus = 65536
SPECIFICATION Spec
INVARIANTS
  SlaveOnlyNeverMaster
