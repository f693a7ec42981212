CONSTANTS
  NoDS = NoDS
  NumPorts = 1
  Self = 3
  OwnAttrs <- MCOwnAttrs
  SlaveOnly = FALSE
  Transparent = FALSE
  ActiveE2ETC = FALSE
  DelayMechanism = "E2E"
  Messages <- MCMessages
  StepsModulus = 65536
SPECIFICATION Spec
PROPERTIES
  UpdatesFromCurrentMaster
