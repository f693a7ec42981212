---------------------------- MODULE PDelayService ---------------------------
(***************************************************************************)
(* cAppPDelay: the measurement of the delay of one link.  A service is a   *)
(* record.                                                                 *)
(***************************************************************************)
EXTENDS PtpMac

\* respSequID is not initialised; clean is history, see Frame.
AppPDelay(garbage) ==
  [sequId |-> 0, requSequId |-> 0, respSequID |-> garbage, reqEgress |-> 0,
   respIngress |-> 0, requestReceipt |-> 0, respCorr |-> 0, clean |-> FALSE]

CreatePDelayReqFrame(pdelay, port) == Frame("PDELAY_REQ", port, pdelay.sequId, FALSE)

\* HandleIntervalEvent
PDelayRequested(pdelay) == [pdelay EXCEPT !.requSequId = pdelay.sequId, !.sequId = @ + 1]

\* A one-step response carries the correction of the request; a two-step
\* response leaves it to its follow up.
CreatePDelayRespFrame(pReq, port, twoStep) ==
  [Frame("PDELAY_RESP", port, pReq.seq, twoStep)
     EXCEPT !.requester = pReq.source, !.corr = IF twoStep THEN 0 ELSE pReq.corr,
            !.clean = pReq.clean, !.epoch = pReq.epoch]

CreatePDelayRespFUFrame(pReq, port) ==
  [Frame("PDELAY_RESP_FU", port, pReq.seq, TRUE)
     EXCEPT !.requester = pReq.source, !.corr = pReq.corr]

\* TriggerFollowUp: the requesting port is taken from the source of the response.
TriggeredRespFUFrame(pResp) ==
  [Frame("PDELAY_RESP_FU", pResp.source, pResp.seq, pResp.twoStep)
     EXCEPT !.requester = pResp.source]

\* HandlePDelayReq
PDelayAnswer(pReq, port, twoStep) ==
  IF twoStep THEN <<CreatePDelayRespFrame(pReq, port, TRUE),
                    CreatePDelayRespFUFrame(pReq, port)>>
             ELSE <<CreatePDelayRespFrame(pReq, port, FALSE)>>

\* HandlePDelayResp, HandlePDelayRespFU
PDelayExpected(pdelay, f, port) == f.seq = pdelay.requSequId /\ f.requester = port

PDelayStored(pdelay, f) ==
  [pdelay EXCEPT !.reqEgress = f.reqEgress, !.respIngress = f.stamp.time,
                 !.requestReceipt = f.receipt, !.respCorr = f.corr,
                 !.respSequID = f.seq, !.clean = f.clean]

\* CalcMeanPathDelay, before it is halved
PeerRoundTrip(t1, t4, requestReceipt, responseOrigin, corrPDelResp, corrPDelRespFU) ==
  (t4 - t1) - (responseOrigin - requestReceipt) - corrPDelResp - corrPDelRespFU

\* MUTANT of PDelayTimeJump: requests that are under way stay valid.
PRequestStays(pdelay) == pdelay

\* HandleTimeJump
PDelayTimeJump(pdelay) == [pdelay EXCEPT !.requSequId = pdelay.sequId, !.sequId = @ + 1]

=============================================================================
