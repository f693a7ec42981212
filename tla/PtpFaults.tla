------------------------------ MODULE PtpFaults ------------------------------
(***************************************************************************)
(* Faults of the network interface of a PTP clock: each PTP_MAC may be      *)
(* taken down and brought up again once, at configured times (SimulateFault,*)
(* FaultTime, FaultDuration).  It reports both to its port of the stack     *)
(* through PTP_NIC_Ctrl, as requests that the stack handles in their order. *)
(* A MAC that is down deletes every frame, so that its port hears nothing;  *)
(* everything else of the clock goes on as in PtpStack.                     *)
(***************************************************************************)
EXTENDS PtpStack, Sequences

VARIABLES
  mac,       \* "healthy", "down" or, after the fault, "recovered"
  requests   \* the port requests sent to the stack and not handled yet

faultVars == <<mac, requests>>
allVars == <<vars, faultVars>>

PortRequ == [what : {"FAULT", "RECOVERY"}, port : Port]

FaultsTypeOK ==
  /\ TypeOK
  /\ mac \in [Port -> {"healthy", "down", "recovered"}]
  /\ requests \in Seq(PortRequ)

FaultsInit ==
  /\ Init
  /\ mac = [p \in Port |-> "healthy"]
  /\ requests = <<>>

-----------------------------------------------------------------------------

\* The FaultMsg of a MAC.  It may be due before the end of the initialisation.
MacFault(p) ==
  /\ Running
  /\ mac[p] = "healthy"
  /\ mac' = [mac EXCEPT ![p] = "down"]
  /\ requests' = Append(requests, [what |-> "FAULT", port |-> p])
  /\ UNCHANGED vars

\* MUTANT of MacRecovery: the recovery is reported as another fault.
MacRecoveryAsFault(p) ==
  /\ Running
  /\ mac[p] = "down"
  /\ mac' = [mac EXCEPT ![p] = "recovered"]
  /\ requests' = Append(requests, [what |-> "FAULT", port |-> p])
  /\ UNCHANGED vars

\* The RecoveryMsg, which a MAC handles only while it is down.
MacRecovery(p) ==
  /\ Running
  /\ mac[p] = "down"
  /\ mac' = [mac EXCEPT ![p] = "recovered"]
  /\ requests' = Append(requests, [what |-> "RECOVERY", port |-> p])
  /\ UNCHANGED vars

\* The stack handles the request of one port.  A recovery that finds the port
\* in any other state than FAULTY is without effect.
HandlePortRequ ==
  /\ requests # <<>>
  /\ LET r == Head(requests) IN
     \/ r.what = "FAULT" /\ FaultDetected({r.port})
     \/ r.what = "RECOVERY" /\ FaultCleared({r.port})
     \/ /\ r.what = "RECOVERY" /\ portState[r.port] # "FAULTY"
        /\ Running
        /\ UNCHANGED vars
  /\ requests' = Tail(requests)
  /\ UNCHANGED mac

\* What the stack does by itself: initialisation, timers, state decisions.
StackStep ==
  /\ \/ EndInit
     \/ \E p \in Port : AnnounceTimeout(p) \/ QualificationTimeout(p)
     \/ \E heard \in ErbestMessages : DecideStates(heard)
  /\ UNCHANGED faultVars

\* A frame that a MAC takes from the medium.
HandleFrame(p) ==
  /\ mac[p] # "down"
  /\ \/ \E m \in Messages : HandleAnnounce(p, m)
     \/ \E source \in Neighbours, kind \in SyncKinds, within \in BOOLEAN :
          HandleSync(p, source, kind, within)
  /\ UNCHANGED faultVars

FaultsNext ==
  \/ \E p \in Port : MacFault(p) \/ MacRecovery(p) \/ HandleFrame(p)
  \/ HandlePortRequ
  \/ StackStep

\* Messages between modules and self messages that are scheduled arrive.
FaultsFairness ==
  /\ WF_allVars(\E p \in Port : MacRecovery(p))
  /\ WF_allVars(HandlePortRequ)
  /\ WF_allVars(EndInit /\ UNCHANGED faultVars)

FaultsSpec == FaultsInit /\ [][FaultsNext]_allVars /\ FaultsFairness

-----------------------------------------------------------------------------
(* Properties. *)

Pending(what, p) ==
  \E i \in DOMAIN requests : requests[i] = [what |-> what, port |-> p]

\* A port is FAULTY only as long as its MAC is down or has a recovery on the
\* way to the stack: no order of the faults and recoveries of the other ports
\* leaves a port of a working MAC in FAULTY (PTP_Stack::HandlePortRequ and
\* PTP_MAC::handleMessageWhenDown).
FaultyUntilRecovery ==
  \A p \in Port :
    portState[p] = "FAULTY" => mac[p] = "down" \/ Pending("RECOVERY", p)

\* A port whose MAC is down stays FAULTY until the recovery of another port
\* initialises the whole clock (PORT_EVENT_FAULT_CLEARED).
FaultyWhileDown ==
  [][\A p \in Port :
       /\ portState[p] = "FAULTY" /\ portState'[p] # "FAULTY"
       /\ mac[p] = "down"
       => /\ \E q \in Port : mac[q] = "recovered"
          /\ \A q \in Port : portState'[q] = "INITIALIZING"]_allVars

\* However the faults and recoveries of the ports interleave, a FAULTY port
\* listens again some time later, and until then it is FAULTY for a reason.
RecoversFromFaults ==
  /\ [](FaultsTypeOK /\ FaultyUntilRecovery)
  /\ FaultyWhileDown
  /\ \A p \in Port : portState[p] = "FAULTY" ~> portState[p] = "LISTENING"

=============================================================================
