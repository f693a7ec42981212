---------------------------- MODULE PtpRelayUnit ----------------------------
(***************************************************************************)
(* PTP_MACRelayUnit: where a PTP frame goes inside a network interface.    *)
(* Gate 0 leads to the stack (internalPort), gate i + 1 to MAC i.          *)
(***************************************************************************)
EXTENDS Integers

InternalPort == 0

\* PTP_EthernetMapping notes the port of the stack as TxPort, and the relay
\* unit skips its own internal port.
GateOf(txPort) == IF txPort >= InternalPort THEN txPort + 1 ELSE txPort

\* MUTANT of Dispatch: messages of the peer delay mechanism are sent on.
DispatchAll(clockType, gates, type, inputPort) ==
  IF clockType = "ORDINARY" THEN {InternalPort} ELSE gates \ {inputPort}

\* A frame that comes from a MAC: link-local frames and those of an ordinary
\* clock end here, the others go everywhere but back.
Dispatch(clockType, gates, type, inputPort) ==
  IF clockType = "ORDINARY" \/ type \in {"PDELAY_REQ", "PDELAY_RESP", "PDELAY_RESP_FU"}
  THEN {InternalPort}
  ELSE gates \ {inputPort}

=============================================================================
