----------------------------- MODULE MCPtpSetup -----------------------------
(* A clock of two ports under the default profile, configured as the default *)
(* parameters say, below masters that use other intervals.                   *)
EXTENDS PtpSetup

MCParams ==
  {[profile |-> profile, bmca |-> "1588_2008_DEFAULT", mgmt |-> "1588_2008_DEFAULT",
    domain |-> "DEFAULT", priority1 |-> 128, priority2 |-> 128, slaveOnly |-> FALSE,
    log |-> [logAnnounceInterval |-> 1, logSyncInterval |-> 0,
             logMinDelayReqInterval |-> 0, logMinPdelayReqInterval |-> 0],
    receiptTimeout |-> 3, delayMechanism |-> "E2E",
    capable |-> TRUE, preferred |-> TRUE] : profile \in {"CUSTOM", "DEFAULT_E2E"}}

MCLogs == {-1, 1}
MCMinLog == -2

=============================================================================
