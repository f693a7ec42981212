CONSTANTS
  NoDS = NoDS
  NumPorts = 3
  Self = 3
  OwnAttrs <- MCPrimaryAttrs
  SlaveOnly = FALSE
  Transparent = FALSE
  ActiveE2ETC = FALSE
  DelayMechanism = "E2E"
  Messages <- MCPrimaryMessages
  StepsModulus = 65536
SPECIFICATION Spec
INVARIANTS
  PrimaryNeverSlave
