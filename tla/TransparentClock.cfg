CONSTANTS
  NoDS = NoDS
  NumPorts = 2
  Self = 3
  OwnAttrs <- MCOwnAttrs
  SlaveOnly = FALSE
  Transparent = TRUE
  ActiveE2ETC = FALSE
  DelayMechanism = "P2P"
  Messages <- MCMessages
  StepsModulus = 65536
SPECIFICATION FaultsSpec
INVARIANTS
  TimersMatchState
PROPERTIES
  RecoversFromFaults
