------------------------------- MODULE PtpMac -------------------------------
(***************************************************************************)
(* What PTP_MAC does with a PTP frame when it leaves and when it arrives,  *)
(* and what PTP_NIC_Ctrl remembers in between.  A handler maps a frame and *)
(* the state nic of the NIC control to an outcome:                         *)
(*   mac    the port: id, clockType, mechanism, twoStep                    *)
(*   nic    the four matchers, and per port peerMeanPathDelay, asymmetry   *)
(*   clock  the reading [time, epoch] of the local clock; the epoch grows  *)
(*          with every jump of the clock                                   *)
(* Times are integers; ids of ports stand for port identities.             *)
(***************************************************************************)
EXTENDS FrameMatch

Delays == {"DELAY_REQ", "DELAY_RESP"}
PDelays == {"PDELAY_REQ", "PDELAY_RESP", "PDELAY_RESP_FU"}
FrameTypes == {"SYNC", "FOLLOW_UP"} \cup Delays \cup PDelays

NoTime == [time |-> 0, epoch |-> 0]

NoPort == <<"none", 0>>

\* A frame as the stack creates it.  origin is the origin, precise origin or
\* response origin time stamp, receipt the receive time stamp.
\* clean and epoch are history: whether all clocks ran through while they held
\* the frame, and the epoch of the clock that holds it.
Frame(type, source, seq, twoStep) ==
  [type |-> type, source |-> source, seq |-> seq, twoStep |-> twoStep,
   origin |-> 0, corr |-> 0, stamp |-> NoTime, requester |-> NoPort,
   reqEgress |-> 0, receipt |-> 0, rx |-> NoPort, clean |-> TRUE, epoch |-> 0]

Matchers == {"syncFu", "delayReqResp", "pdelayReqResp", "pdelayRespFu"}

\* The ports' path delays start at zero, the asymmetries are configured.
NicCtrl(asymmetry) ==
  [syncFu |-> <<>>, delayReqResp |-> <<>>, pdelayReqResp |-> <<>>,
   pdelayRespFu |-> <<>>, asymmetry |-> asymmetry,
   peerMeanPathDelay |-> [p \in DOMAIN asymmetry |-> 0]]

Push(nic, m, source, seq, time) == [nic EXCEPT ![m] = push(@, source, seq, time)]
Popped(nic, m, source, seq) == [nic EXCEPT ![m] = Rest(@, source, seq)]

\* The time that pop returns, zero if there is no match.
Found(nic, m, source, seq) == Result(nic[m], source, seq).time
HasMatch(nic, m, source, seq) == Result(nic[m], source, seq).valid

\* The outcome of a handler: requ is what it requests from the stack, failed
\* whether it stops the simulation with an error.
Out(frame, nic) == [frame |-> frame, nic |-> nic, requ |-> "NONE", failed |-> FALSE]
Expect(condition, out) == [out EXCEPT !.failed = @ \/ ~condition]

AddCorrection(f, correction) == [f EXCEPT !.corr = @ + correction]

\* The difference of two local time stamps is zero across a jump.
CalcResidenceTime(mac, nic, f, inputPort, clock) ==
  (IF f.stamp.epoch = clock.epoch THEN clock.time - f.stamp.time ELSE 0)
    + IF mac.mechanism = "P2P" THEN nic.peerMeanPathDelay[inputPort] ELSE 0

NotNegative(mac, nic, f, inputPort, clock) ==
  CalcResidenceTime(mac, nic, f, inputPort, clock) >= 0

-----------------------------------------------------------------------------
(* Egress of own frames *)

HandleEgressOwnSync(mac, nic, f, clock) ==
  Expect(mac.twoStep = f.twoStep,
    IF mac.twoStep
    THEN Out(f, Push(nic, "syncFu", f.source, f.seq, clock.time))
    ELSE Out([f EXCEPT !.origin = clock.time], nic))

HandleEgressOwnFollowUp(mac, nic, f, clock) ==
  Expect(mac.twoStep,
    Out(IF HasMatch(nic, "syncFu", f.source, f.seq)
        THEN [f EXCEPT !.origin = Found(nic, "syncFu", f.source, f.seq)] ELSE f,
        Popped(nic, "syncFu", f.source, f.seq)))

HandleEgressOwnDelayReq(mac, nic, f, clock) ==
  Expect(mac.mechanism = "E2E",
    Out(AddCorrection(f, -nic.asymmetry[mac.id]),
        Push(nic, "delayReqResp", mac.id, f.seq, clock.time)))

HandleEgressOwnDelayResp(mac, nic, f, clock) ==
  Expect(mac.mechanism = "E2E", Out(f, nic))

HandleEgressOwnPDelayReq(mac, nic, f, clock) ==
  Expect(mac.mechanism = "P2P",
    Out(AddCorrection(f, -nic.asymmetry[mac.id]),
        Push(nic, "pdelayReqResp", mac.id, f.seq, clock.time)))

\* T3 - T2 goes into the response or is kept for its follow up.
HandleEgressOwnPDelayResp(mac, nic, f, clock) ==
  LET left    == Popped(nic, "pdelayRespFu", f.requester, f.seq)
      elapsed == clock.time - Found(nic, "pdelayRespFu", f.requester, f.seq)
  IN  Expect(mac.twoStep = f.twoStep,
        IF ~HasMatch(nic, "pdelayRespFu", f.requester, f.seq) THEN Out(f, left)
        ELSE IF mac.twoStep
        THEN Out(f, Push(left, "pdelayRespFu", f.requester, f.seq, elapsed))
        ELSE Out(AddCorrection(f, elapsed), left))

HandleEgressOwnPDelayRespFU(mac, nic, f, clock) ==
  Expect(mac.twoStep,
    Out(AddCorrection([f EXCEPT !.origin = 0],
                      Found(nic, "pdelayRespFu", f.requester, f.seq)),
        Popped(nic, "pdelayRespFu", f.requester, f.seq)))

HandleEgressOwnPtp(mac, nic, f, clock) ==
  CASE f.type = "SYNC"           -> HandleEgressOwnSync(mac, nic, f, clock)
    [] f.type = "FOLLOW_UP"      -> HandleEgressOwnFollowUp(mac, nic, f, clock)
    [] f.type = "DELAY_REQ"      -> HandleEgressOwnDelayReq(mac, nic, f, clock)
    [] f.type = "DELAY_RESP"     -> HandleEgressOwnDelayResp(mac, nic, f, clock)
    [] f.type = "PDELAY_REQ"     -> HandleEgressOwnPDelayReq(mac, nic, f, clock)
    [] f.type = "PDELAY_RESP"    -> HandleEgressOwnPDelayResp(mac, nic, f, clock)
    [] f.type = "PDELAY_RESP_FU" -> HandleEgressOwnPDelayRespFU(mac, nic, f, clock)

-----------------------------------------------------------------------------
(* Egress of the frames of other clocks *)

Ordinary(mac) == mac.clockType = "ORDINARY"
Transparent(mac) == mac.clockType = "TRANSPARENT"

\* MUTANT of HandleEgressForeignSync: no Follow_Up is requested.
ForeignSyncWithoutRequest(mac, nic, f, clock) ==
  LET residence == CalcResidenceTime(mac, nic, f, f.rx, clock)
  IN  Expect(~Ordinary(mac) /\ NotNegative(mac, nic, f, f.rx, clock),
        IF mac.twoStep
        THEN Out([f EXCEPT !.twoStep = TRUE],
                 Push(nic, "syncFu", f.source, f.seq,
                      residence + IF Transparent(mac) THEN nic.asymmetry[f.rx] ELSE 0))
        ELSE Out(AddCorrection(f, residence), nic))

\* A two-step clock makes a one-step Sync a two-step Sync.
HandleEgressForeignSync(mac, nic, f, clock) ==
  LET residence == CalcResidenceTime(mac, nic, f, f.rx, clock)
      twoStep   ==
        [Out([f EXCEPT !.twoStep = TRUE],
             Push(nic, "syncFu", f.source, f.seq,
                  residence + IF Transparent(mac) THEN nic.asymmetry[f.rx] ELSE 0))
         EXCEPT !.requ = IF f.twoStep THEN "NONE" ELSE "TRIG_SFU"]
  IN  Expect(~Ordinary(mac) /\ NotNegative(mac, nic, f, f.rx, clock),
        IF mac.twoStep THEN twoStep ELSE Out(AddCorrection(f, residence), nic))

HandleEgressForeignFollowUp(mac, nic, f, clock) ==
  Expect(~Ordinary(mac),
    IF mac.twoStep
    THEN Out(AddCorrection(f, Found(nic, "syncFu", f.source, f.seq)),
             Popped(nic, "syncFu", f.source, f.seq))
    ELSE Out(f, nic))

\* Neither an ordinary clock nor a transparent clock with peer delays sends on
\* what belongs to the delay mechanisms.
MayForward(mac) == ~Ordinary(mac) /\ ~(Transparent(mac) /\ mac.mechanism = "P2P")

HandleEgressForeignDelayReq(mac, nic, f, clock) ==
  LET correction == CalcResidenceTime(mac, nic, f, f.rx, clock) - nic.asymmetry[mac.id]
  IN  Expect(MayForward(mac) /\ NotNegative(mac, nic, f, f.rx, clock),
        IF mac.twoStep
        THEN Out(f, Push(nic, "delayReqResp", f.source, f.seq, correction))
        ELSE Out(AddCorrection(f, correction), nic))

\* The response takes the correction of its request along.
HandleEgressForeignDelayResp(mac, nic, f, clock) ==
  Expect(MayForward(mac),
    IF mac.twoStep
    THEN Out(AddCorrection(f, Found(nic, "delayReqResp", f.requester, f.seq)),
             Popped(nic, "delayReqResp", f.requester, f.seq))
    ELSE Out(f, nic))

HandleEgressForeignPDelayReq(mac, nic, f, clock) ==
  LET residence == CalcResidenceTime(mac, nic, f, f.rx, clock)
      sent      == AddCorrection(f, -nic.asymmetry[mac.id])
  IN  Expect(MayForward(mac) /\ NotNegative(mac, nic, f, f.rx, clock),
        IF mac.twoStep
        THEN Out(sent, Push(nic, "pdelayRespFu", f.source, f.seq, residence))
        ELSE Out(AddCorrection(sent, residence), nic))

\* The residence time of the request is looked up by the source of the
\* response, though it was stored under that of the request.
HandleEgressForeignPDelayResp(mac, nic, f, clock) ==
  LET residence == CalcResidenceTime(mac, nic, f, f.rx, clock)
      left      == Popped(nic, "pdelayRespFu", f.source, f.seq)
      twoStep   ==
        Out([f EXCEPT !.twoStep = TRUE],
            IF ~HasMatch(nic, "pdelayRespFu", f.source, f.seq) THEN left
            ELSE Push(left, "pdelayRespFu", f.source, f.seq,
                      residence + Found(nic, "pdelayRespFu", f.source, f.seq)))
      measured  == ~mac.twoStep \/ HasMatch(nic, "pdelayRespFu", f.source, f.seq)
  IN  Expect(MayForward(mac) /\ (measured => NotNegative(mac, nic, f, f.rx, clock)),
        IF mac.twoStep
        THEN [twoStep EXCEPT !.requ = IF f.twoStep THEN "NONE" ELSE "TRIG_PDFU"]
        ELSE Out(AddCorrection(f, residence), nic))

HandleEgressForeignPDelayRespFU(mac, nic, f, clock) ==
  Expect(MayForward(mac),
    Out(AddCorrection(f, Found(nic, "pdelayRespFu", f.source, f.seq)),
        Popped(nic, "pdelayRespFu", f.source, f.seq)))

HandleEgressForeignPtp(mac, nic, f, clock) ==
  CASE f.type = "SYNC"           -> HandleEgressForeignSync(mac, nic, f, clock)
    [] f.type = "FOLLOW_UP"      -> HandleEgressForeignFollowUp(mac, nic, f, clock)
    [] f.type = "DELAY_REQ"      -> HandleEgressForeignDelayReq(mac, nic, f, clock)
    [] f.type = "DELAY_RESP"     -> HandleEgressForeignDelayResp(mac, nic, f, clock)
    [] f.type = "PDELAY_REQ"     -> HandleEgressForeignPDelayReq(mac, nic, f, clock)
    [] f.type = "PDELAY_RESP"    -> HandleEgressForeignPDelayResp(mac, nic, f, clock)
    [] f.type = "PDELAY_RESP_FU" -> HandleEgressForeignPDelayRespFU(mac, nic, f, clock)

\* startFrameTransmission
HandleEgress(mac, nic, f, clock) ==
  IF f.source = mac.id THEN HandleEgressOwnPtp(mac, nic, f, clock)
                       ELSE HandleEgressForeignPtp(mac, nic, f, clock)

-----------------------------------------------------------------------------
(* Ingress *)

TimestampOnIngress(f, clock) == [f EXCEPT !.stamp = clock]

HandleIngressSync(mac, nic, f, clock) ==
  LET corrected == Ordinary(mac) \/ (Transparent(mac) /\ ~mac.twoStep)
  IN  Out(TimestampOnIngress(
            AddCorrection(f, IF corrected THEN nic.asymmetry[mac.id] ELSE 0), clock),
          nic)

\* A response to a request of this port learns when the request left.
Answered(mac, nic, m, f) ==
  IF f.requester # mac.id THEN Out(f, nic)
  ELSE Out(IF HasMatch(nic, m, mac.id, f.seq)
           THEN [f EXCEPT !.reqEgress = Found(nic, m, mac.id, f.seq)] ELSE f,
           Popped(nic, m, mac.id, f.seq))

HandleIngressDelayResp(mac, nic, f, clock) == Answered(mac, nic, "delayReqResp", f)

HandleIngressPDelayReq(mac, nic, f, clock) ==
  Out(f, Push(nic, "pdelayRespFu", f.source, f.seq, clock.time))

HandleIngressPDelayResp(mac, nic, f, clock) ==
  Answered(mac, nic, "pdelayReqResp",
           AddCorrection(TimestampOnIngress(f, clock), nic.asymmetry[mac.id]))

\* Frames of the other delay mechanism are not let in.  Nor are a MAC's own frames,
\* which only come back in a ring: the nodes of this model form a chain.
DropFrame(mac, f) ==
  \/ mac.mechanism = "P2P" /\ f.type \in Delays
  \/ mac.mechanism = "E2E" /\ f.type \in PDelays

\* The control information names the port of arrival.
HandleIngress(mac, nic, frame, clock) ==
  LET f == [frame EXCEPT !.rx = mac.id]
  IN  CASE f.type = "SYNC"        -> HandleIngressSync(mac, nic, f, clock)
        [] f.type = "DELAY_REQ"   -> Out(TimestampOnIngress(f, clock), nic)
        [] f.type = "DELAY_RESP"  -> HandleIngressDelayResp(mac, nic, f, clock)
        [] f.type = "PDELAY_REQ"  -> HandleIngressPDelayReq(mac, nic, f, clock)
        [] f.type = "PDELAY_RESP" -> HandleIngressPDelayResp(mac, nic, f, clock)
        [] OTHER                  -> Out(f, nic)

=============================================================================
