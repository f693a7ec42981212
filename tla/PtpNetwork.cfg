CONSTANTS
  Ports <- MCPorts
  Peer <- MCPeer
  LinkDelay <- MCLinkDelay
  MeanDelay <- MCMeanDelay
  Down <- MCDown
  Far <- MCFar
  Asymmetry <- MCAsymmetry
  MasterPort <- M
  SlavePort <- S
  Requesters <- MCRequesters
  Start <- MCStart
  Jumps = {4}
  Garbage = {0, 9}
  Budgets <- MCBudgets
SPECIFICATION Spec
INVARIANTS TypeOK OffsetIsTrue PathDelayIsTrue NeverFails LastSyncCounts
CHECK_DEADLOCK FALSE
