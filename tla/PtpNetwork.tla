----------------------------- MODULE PtpNetwork -----------------------------
(***************************************************************************)
(* A master, transparent clocks and a slave, connected port to port: the   *)
(* Sync, delay and peer delay messages on their way through the stacks,    *)
(* relay units, delayers, MACs and wires, while clocks jump and frames are *)
(* lost.  The ports have their roles, so this is the network between two   *)
(* state decisions.  All clocks run at the same rate.                      *)
(*                                                                         *)
(* A frame that arrives at a MAC is time stamped and waits in the ingress  *)
(* delayer; one that leaves waits in the egress delayer and the queue of   *)
(* the MAC and is time stamped when its transmission starts.  What passes  *)
(* between relay unit, encapsulation and stack without delay is one step.  *)
(***************************************************************************)
EXTENDS SyncService, DelayService, PDelayService, PtpRelayUnit, FiniteSets

CONSTANTS
  Ports,        \* pairs <<node, index of the MAC>>
  Peer,         \* Peer[p]: the port at the other end of the link
  LinkDelay,    \* LinkDelay[p]: how long a frame from p takes
  MeanDelay,    \* MeanDelay[p]: the mean delay of the link of p
  Down,         \* the ports that lead away from the master
  Far,          \* Far[n]: the mean delay of the path from master to n
  Asymmetry,    \* Asymmetry[p]: delay to p minus the mean delay, as configured
  MasterPort, SlavePort,
  Requesters,   \* bound: the ports that measure their link
  Start,        \* Start[n]: the offset of the clock of n
  Jumps,        \* the jumps of a transparent clock
  Garbage,      \* sequence numbers that uninitialised memory may hold
  Budgets       \* set of bounds [syncs, requests, jumps, losses, waits]

Nodes == {p[1] : p \in Ports}
PortsOf(n) == {p \in Ports : p[1] = n}
ClockType(n) ==
  IF n \in {MasterPort[1], SlavePort[1]} THEN "ORDINARY" ELSE "TRANSPARENT"
Gates(n) == {InternalPort} \cup {GateOf(p[2]) : p \in PortsOf(n)}
PathDelay == Far[SlavePort[1]]

\* The nodes are a chain with the master at one end and the slave at the other; the
\* asymmetries that are configured are the true ones.
ASSUME NetworkAssumption ==
  /\ IsFiniteSet(Ports)
  /\ \A p \in Ports : p = <<p[1], p[2]>> /\ p[2] \in Nat
  /\ Down \subseteq Ports /\ MasterPort \in Down /\ SlavePort \in Ports \ Down
  /\ MasterPort[1] # SlavePort[1]
  /\ PortsOf(MasterPort[1]) = {MasterPort} /\ PortsOf(SlavePort[1]) = {SlavePort}
  /\ \A n \in Nodes \ {MasterPort[1], SlavePort[1]} :
       \E up \in Ports \ Down, down \in Down : PortsOf(n) = {up, down}
  /\ Peer \in [Ports -> Ports]
  /\ \A p \in Ports : /\ Peer[Peer[p]] = p /\ Peer[p][1] # p[1]
                      /\ p \in Down <=> Peer[p] \notin Down
                      /\ MeanDelay[Peer[p]] = MeanDelay[p]
                      /\ LinkDelay[p] = MeanDelay[Peer[p]] + Asymmetry[Peer[p]]
  /\ LinkDelay \in [Ports -> Nat] /\ MeanDelay \in [Ports -> Nat]
  /\ Asymmetry \in [Ports -> Int] /\ Far \in [Nodes -> Nat] /\ Start \in [Nodes -> Int]
  /\ Far[MasterPort[1]] = 0
  /\ \A p \in Down : Far[Peer[p][1]] = Far[p[1]] + MeanDelay[p]
  /\ Requesters \subseteq Ports /\ Jumps \subseteq Int /\ Garbage \subseteq Int
  /\ Budgets \subseteq [syncs : Nat, requests : Nat, jumps : Nat, losses : Nat, waits : Nat]

\* The mean delay of a link is half of what both directions take together.
ASSUME MeanAssumption ==
  \A p \in Ports : MeanDelay[p] = (LinkDelay[p] + LinkDelay[Peer[p]]) \div 2

VARIABLES
  config,     \* mechanism, and the twoStepFlag of each node
  now,        \* real time
  clock,      \* the offset and the epoch of the clock of each node
  nic,        \* the NIC control of each node
  ingress,    \* frames between MAC and relay unit, per port
  egress,     \* frames between relay unit and wire, per port
  wire,       \* frames sent by a port, with what is left of their journey
  control,    \* messages between NIC control and stack, per node
  sync,       \* cAppSync of the master and of the slave port
  delay,      \* cAppDelay of the slave port
  pdelay,     \* cAppPDelay of each port
  estimate,   \* meanPathDelay of currentDS of the slave
  portEstimate, \* peerMeanPathDelay of portDS
  failed,     \* whether the simulation has stopped with an error
  sample,     \* history: the error of the last offset from master
  measure,    \* history: the error of the last path delay
  used,       \* history: sequence number of the last Sync the slave has used
  trusted,    \* history: whether every peer delay came from a clean measurement
  lost,       \* history: whether a frame was lost
  left        \* what is left of the bounds

vars == <<config, now, clock, nic, ingress, egress, wire, control, sync, delay,
          pdelay, estimate, portEstimate, failed, sample, measure, used, trusted, lost, left>>

E2E == config.mechanism = "E2E"
Mac(p) == [id |-> p, clockType |-> ClockType(p[1]), mechanism |-> config.mechanism,
           twoStep |-> config.twoStep[p[1]]]
Reading(n) == [time |-> now + clock[n].offset, epoch |-> clock[n].epoch]

Judged(error, clean) == [error |-> error, clean |-> clean]

Init ==
  /\ config \in [mechanism : {"E2E", "P2P"}, twoStep : [Nodes -> BOOLEAN]]
  /\ config.twoStep[SlavePort[1]] = config.twoStep[MasterPort[1]]
  /\ now = 0
  /\ clock = [n \in Nodes |-> [offset |-> Start[n], epoch |-> 0]]
  /\ nic = [n \in Nodes |-> NicCtrl([p \in PortsOf(n) |-> Asymmetry[p]])]
  /\ ingress = [p \in Ports |-> <<>>]
  /\ egress = [p \in Ports |-> <<>>]
  /\ wire = [p \in Ports |-> <<>>]
  /\ control = [n \in Nodes |-> <<>>]
  /\ \E g \in Garbage :
       /\ sync = [p \in {MasterPort, SlavePort} |-> AppSync(g)]
       /\ delay = AppDelay(g)
       /\ pdelay = [p \in Ports |-> AppPDelay(g)]
  /\ estimate = 0
  /\ portEstimate = [p \in Ports |-> 0]
  /\ failed = FALSE
  /\ sample = Judged(0, TRUE)
  /\ measure = Judged(0, TRUE)
  /\ used = -1
  /\ trusted = [p \in Ports |-> TRUE]
  /\ lost = FALSE
  /\ left \in Budgets

Spend(what) == left[what] > 0 /\ left' = [left EXCEPT ![what] = @ - 1]

Issue(p, frames) == egress' = [egress EXCEPT ![p] = @ \o frames]

-----------------------------------------------------------------------------
(* Timers of the services *)

SendSync ==
  /\ Spend("syncs")
  /\ Issue(MasterPort,
           SyncFrames(sync[MasterPort], MasterPort, config.twoStep[MasterPort[1]]))
  /\ sync' = [sync EXCEPT ![MasterPort].sequId = @ + 1]
  /\ UNCHANGED <<config, now, clock, nic, ingress, wire, control, delay, pdelay,
                 estimate, portEstimate, failed, sample, measure, used, trusted, lost>>

SendDelayReq ==
  /\ E2E /\ delay.started
  /\ Spend("requests")
  /\ Issue(SlavePort, <<CreateDelayReqFrame(delay, SlavePort)>>)
  /\ delay' = DelayRequested(delay, clock[SlavePort[1]].epoch)
  /\ UNCHANGED <<config, now, clock, nic, ingress, wire, control, sync, pdelay,
                 estimate, portEstimate, failed, sample, measure, used, trusted, lost>>

SendPDelayReq(p) ==
  /\ ~E2E
  /\ Spend("requests")
  /\ Issue(p, <<CreatePDelayReqFrame(pdelay[p], p)>>)
  /\ pdelay' = [pdelay EXCEPT ![p] = PDelayRequested(@)]
  /\ UNCHANGED <<config, now, clock, nic, ingress, wire, control, sync, delay,
                 estimate, portEstimate, failed, sample, measure, used, trusted, lost>>

-----------------------------------------------------------------------------
(* MACs and wires *)

\* History: a jump spoils what a clock measures of the frames it holds, and a
\* transparent clock that does not know its link spoils a Sync.
StaysClean(p, f, foreign) ==
  /\ f.clean
  /\ foreign \/ f.type = "PDELAY_RESP" => f.epoch = clock[p[1]].epoch
  /\ foreign /\ f.type = "SYNC" /\ ~E2E =>
       nic[p[1]].peerMeanPathDelay[f.rx] = MeanDelay[f.rx]

Transmit(p) ==
  /\ egress[p] # <<>>
  /\ LET f   == Head(egress[p])
         out == HandleEgress(Mac(p), nic[p[1]], f, Reading(p[1]))
     IN  /\ failed' = out.failed
         /\ nic' = [nic EXCEPT ![p[1]] = out.nic]
         /\ wire' = [wire EXCEPT ![p] = Append(@,
              [frame |-> [out.frame EXCEPT !.clean = StaysClean(p, f, f.source # p)],
               left  |-> LinkDelay[p]])]
         /\ control' = IF out.requ = "NONE" THEN control
                       ELSE [control EXCEPT ![p[1]] =
                              Append(@, [what |-> out.requ, port |-> p, frame |-> out.frame])]
  /\ egress' = [egress EXCEPT ![p] = Tail(@)]
  /\ UNCHANGED <<config, now, clock, ingress, sync, delay, pdelay, estimate,
                 portEstimate, sample, measure, used, trusted, lost, left>>

Arrives(p) == wire[Peer[p]] # <<>> /\ Head(wire[Peer[p]]).left = 0

Receive(p) ==
  /\ Arrives(p)
  /\ LET f   == [Head(wire[Peer[p]]).frame EXCEPT !.epoch = clock[p[1]].epoch]
         out == HandleIngress(Mac(p), nic[p[1]], f, Reading(p[1]))
     IN  IF DropFrame(Mac(p), f) THEN UNCHANGED <<nic, ingress>>
         ELSE /\ nic' = [nic EXCEPT ![p[1]] = out.nic]
              /\ ingress' = [ingress EXCEPT ![p] = Append(@, out.frame)]
  /\ wire' = [wire EXCEPT ![Peer[p]] = Tail(@)]
  /\ UNCHANGED <<config, now, clock, egress, control, sync, delay, pdelay, estimate,
                 portEstimate, failed, sample, measure, used, trusted, lost, left>>

\* A MAC that is down for a moment.
Lose(p) ==
  /\ Arrives(p)
  /\ Spend("losses")
  /\ wire' = [wire EXCEPT ![Peer[p]] = Tail(@)]
  /\ lost' = TRUE
  /\ UNCHANGED <<config, now, clock, nic, ingress, egress, control, sync, delay, pdelay,
                 estimate, portEstimate, failed, sample, measure, used, trusted>>

-----------------------------------------------------------------------------
(* The stack *)

\* HandleTimejump of the stack of n, with every port and service of it.
Jump(n, delta) ==
  /\ clock' = [clock EXCEPT ![n] = [offset |-> @.offset + delta, epoch |-> @.epoch + 1]]
  /\ pdelay' = [p \in Ports |-> IF p[1] = n THEN PDelayTimeJump(pdelay[p]) ELSE pdelay[p]]

\* SynchronizeClock.  The servo lets the clock jump by the offset or only
\* changes its rate.  The services learn of a jump before they get the message.
\* DelayHandle is what cAppDelay then does with the message.
Synchronize(raw, clean, DelayHandle(_)) ==
  LET me    == SlavePort[1]
      truth == clock[me].offset - clock[MasterPort[1]].offset
      bias  == IF E2E THEN PathDelay - estimate
                      ELSE MeanDelay[SlavePort] - portEstimate[SlavePort]
  IN  /\ sample' = Judged(raw - truth - bias, clean)
      /\ \/ /\ delay' = DelayHandle(delay)
            /\ UNCHANGED <<clock, pdelay, left>>
         \/ /\ Spend("jumps")
            /\ Jump(me, -raw)
            /\ delay' = DelayHandle(DelayTimeJump(delay))

HandleSync(f) ==
  LET DelayHandle(d) == IF E2E THEN DelayHandleSync(d, f) ELSE d
      slaveEpoch     == clock[SlavePort[1]].epoch
  IN  /\ sync' = [sync EXCEPT ![SlavePort] = SyncStored(@, f)]
      /\ IF Associated(sync[SlavePort], f)
         THEN /\ used' = f.seq
              /\ Synchronize(
                   OffsetFromMaster(f.stamp.time, f.origin,
                                    IF E2E THEN estimate ELSE portEstimate[SlavePort],
                                    f.corr, 0),
                   f.clean /\ f.stamp.epoch = slaveEpoch,
                   DelayHandle)
         ELSE /\ delay' = DelayHandle(delay)
              /\ UNCHANGED <<clock, pdelay, left, sample, used>>

HandleFollowUp(f) ==
  LET DelayHandle(d) == IF E2E THEN DelayHandleFollowUp(d, f) ELSE d
      s              == sync[SlavePort]
  IN  /\ IF Associated(s, f)
         THEN /\ used' = f.seq
              /\ Synchronize(
                   OffsetFromMaster(s.syncIngress.time, f.origin,
                                    IF E2E THEN estimate ELSE portEstimate[SlavePort],
                                    s.syncCorr, f.corr),
                   s.clean /\ s.syncIngress.epoch = clock[SlavePort[1]].epoch,
                   DelayHandle)
         ELSE /\ delay' = DelayHandle(delay)
              /\ UNCHANGED <<clock, pdelay, left, sample, used>>
      /\ UNCHANGED sync

\* HandleDelayResp: the path delay of the slave.
HandleDelayResp(f) ==
  IF DelayExpected(delay, f, SlavePort, MasterPort)
  THEN LET t == delay.syncTimes
           d == RoundTrip(t, f) \div 2
       IN  /\ estimate' = d
           /\ measure' = Judged(d - PathDelay,
                                t.known /\ t.clean /\ t.epoch = delay.requEpoch /\ f.clean)
  ELSE UNCHANGED <<estimate, measure>>

\* CalcMeanPathDelay; the NIC control gets the result by a message.
SetPeerDelay(p, roundTrip, clean) ==
  LET d == roundTrip \div 2
  IN  /\ portEstimate' = [portEstimate EXCEPT ![p] = d]
      /\ control' = [control EXCEPT ![p[1]] =
                       Append(@, [what |-> "PATH_DELAY", port |-> p, delay |-> d])]
      /\ measure' = Judged(d - MeanDelay[p], clean)
      /\ trusted' = [trusted EXCEPT ![p] = @ /\ clean]

HandlePDelayResp(p, f) ==
  /\ PDelayExpected(pdelay[p], f, p)
  /\ IF f.twoStep
     THEN /\ pdelay' = [pdelay EXCEPT ![p] = PDelayStored(@, f)]
          /\ UNCHANGED <<portEstimate, control, measure, trusted>>
     ELSE /\ SetPeerDelay(p, PeerRoundTrip(f.reqEgress, f.stamp.time, f.receipt,
                                           0, f.corr, 0), f.clean)
          /\ UNCHANGED pdelay

HandlePDelayRespFU(p, f) ==
  LET s == pdelay[p]
  IN  /\ PDelayExpected(s, f, p)
      /\ f.seq = s.respSequID
      /\ SetPeerDelay(p, PeerRoundTrip(s.reqEgress, s.respIngress, s.requestReceipt,
                                       f.origin, s.respCorr, f.corr), s.clean)
      /\ UNCHANGED pdelay

\* The frames with which the stack answers a frame.
Answer(p, f) ==
  IF f.type = "DELAY_REQ" /\ p = MasterPort THEN <<CreateDelayRespFrame(f, p)>>
  ELSE IF f.type = "PDELAY_REQ" THEN PDelayAnswer(f, p, config.twoStep[p[1]])
  ELSE <<>>

Concerns(p, f) ==
  \/ p = SlavePort /\ f.type \in {"SYNC", "FOLLOW_UP", "DELAY_RESP"}
  \/ f.type = "PDELAY_RESP" /\ PDelayExpected(pdelay[p], f, p)
  \/ f.type = "PDELAY_RESP_FU" /\ PDelayExpected(pdelay[p], f, p)
       /\ f.seq = pdelay[p].respSequID

\* HandlePtpFrame of a port; a port of a transparent clock is LISTENING.
HandlePtpFrame(p, f) ==
  \/ /\ p = SlavePort /\ f.type = "SYNC"
     /\ HandleSync(f)
     /\ UNCHANGED <<control, estimate, portEstimate, measure, trusted>>
  \/ /\ p = SlavePort /\ f.type = "FOLLOW_UP"
     /\ HandleFollowUp(f)
     /\ UNCHANGED <<control, estimate, portEstimate, measure, trusted>>
  \/ /\ p = SlavePort /\ f.type = "DELAY_RESP"
     /\ HandleDelayResp(f)
     /\ UNCHANGED <<clock, pdelay, left, sync, delay, control, portEstimate, sample,
                    used, trusted>>
  \/ /\ f.type = "PDELAY_RESP" /\ HandlePDelayResp(p, f)
     /\ UNCHANGED <<clock, left, sync, delay, estimate, sample, used>>
  \/ /\ f.type = "PDELAY_RESP_FU" /\ HandlePDelayRespFU(p, f)
     /\ UNCHANGED <<clock, left, sync, delay, estimate, sample, used>>
  \/ /\ ~Concerns(p, f)
     /\ UNCHANGED <<clock, pdelay, left, sync, delay, control, estimate, portEstimate,
                    measure, sample, used, trusted>>

\* A frame leaves the ingress delayer: to the stack, to other MACs, or both.
Deliver(p) ==
  /\ ingress[p] # <<>>
  /\ LET f     == Head(ingress[p])
         gates == Dispatch(ClockType(p[1]), Gates(p[1]), f.type, GateOf(p[2]))
         up    == InternalPort \in gates
     IN  /\ egress' = [q \in Ports |-> egress[q]
                         \o (IF q[1] = p[1] /\ GateOf(q[2]) \in gates THEN <<f>> ELSE <<>>)
                         \o (IF q = p /\ up THEN Answer(p, f) ELSE <<>>)]
         /\ IF up THEN HandlePtpFrame(p, f)
            ELSE UNCHANGED <<clock, pdelay, left, sync, delay, control, estimate,
                             portEstimate, measure, sample, used, trusted>>
  /\ ingress' = [ingress EXCEPT ![p] = Tail(@)]
  /\ UNCHANGED <<config, now, nic, wire, failed, lost>>

\* HandlePortRequ, HandlePtpConfig
Control(n) ==
  /\ control[n] # <<>>
  /\ LET m == Head(control[n])
     IN  IF m.what = "PATH_DELAY"
         THEN /\ nic' = [nic EXCEPT ![n].peerMeanPathDelay[m.port] = m.delay]
              /\ UNCHANGED egress
         ELSE /\ Issue(m.port, <<IF m.what = "TRIG_SFU" THEN CreateFollowUpFrame(m.frame)
                                 ELSE TriggeredRespFUFrame(m.frame)>>)
              /\ UNCHANGED nic
  /\ control' = [control EXCEPT ![n] = Tail(@)]
  /\ UNCHANGED <<config, now, clock, ingress, wire, sync, delay, pdelay, estimate,
                 portEstimate, failed, sample, measure, used, trusted, lost, left>>

\* The servo of a transparent clock sets its clock.
JumpTransparent(n) ==
  /\ ClockType(n) = "TRANSPARENT"
  /\ Spend("jumps")
  /\ \E delta \in Jumps : Jump(n, delta)
  /\ UNCHANGED <<config, now, nic, ingress, egress, wire, control, sync, delay, estimate,
                 portEstimate, failed, sample, measure, used, trusted, lost>>

Waiting == \E p \in Ports : ingress[p] # <<>> \/ egress[p] # <<>>
Flying == \E p \in Ports : wire[p] # <<>>

\* Frames wait in the delayers for as long as the bound allows.
Elapse ==
  /\ \A p \in Ports : ~Arrives(p)
  /\ \A n \in Nodes : control[n] = <<>>
  /\ Waiting \/ Flying
  /\ IF Waiting THEN Spend("waits") ELSE UNCHANGED left
  /\ now' = now + 1
  /\ wire' = [p \in Ports |-> [i \in DOMAIN wire[p] |-> [wire[p][i] EXCEPT !.left = @ - 1]]]
  /\ UNCHANGED <<config, clock, nic, ingress, egress, control, sync, delay, pdelay,
                 estimate, portEstimate, failed, sample, measure, used, trusted, lost>>

Next ==
  /\ ~failed
  /\ \/ SendSync
     \/ SendDelayReq
     \/ \E p \in Requesters : SendPDelayReq(p)
     \/ \E p \in Ports : Transmit(p) \/ Receive(p) \/ Lose(p) \/ Deliver(p)
     \/ \E n \in Nodes : Control(n) \/ JumpTransparent(n)
     \/ Elapse

Spec == Init /\ [][Next]_vars

-----------------------------------------------------------------------------
(* Properties *)

TypeOK ==
  /\ now \in Nat
  /\ clock \in [Nodes -> [offset : Int, epoch : Nat]]
  /\ delay.requSequId \in Nat /\ \A p \in Ports : pdelay[p].requSequId \in Nat
  /\ \A p \in Ports : \A i \in DOMAIN egress[p] : egress[p][i].type \in FrameTypes
  /\ \A p \in Ports : \A i \in DOMAIN wire[p] : wire[p][i].left \in 0 .. LinkDelay[p]

\* The offset a slave computes is the true one, but for the error of the path
\* delay it knows, whichever of the clocks works in one or two steps, however
\* long frames wait and whichever of them are lost - if no clock has jumped
\* while it held the Sync.
OffsetIsTrue == sample.clean => sample.error = 0

\* A path delay that is measured is the true one: a jump of the clock makes the
\* answer to a request that is under way unusable, and no answer is taken for
\* that of another request.
PathDelayIsTrue == measure.clean => measure.error = 0

\* No MAC ever stops the simulation because a frame leaves it that must not, or
\* because a frame left before it came - unless a peer
\* delay was measured across a jump, or with times that were never stored.
NeverFails == failed => \E p \in Ports : ~trusted[p]

Quiet == ~Waiting /\ ~Flying /\ \A n \in Nodes : control[n] = <<>>

\* When all is quiet and nothing was lost, the slave has used the last Sync,
\* whoever had to add a Follow_Up to it on the way.
LastSyncCounts ==
  Quiet /\ ~lost => used = sync[MasterPort].sequId - 1

=============================================================================
