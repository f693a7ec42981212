---------------------------- MODULE DelayService ----------------------------
(***************************************************************************)
(* cAppDelay and cTimestampMatcher: the end-to-end delay request.  A       *)
(* service is a record.                                                    *)
(***************************************************************************)
EXTENDS PtpMac

\* The times of a Sync.  History: whether time1 was ever stored (known), whether
\* every clock ran through while it held the Sync (clean), the epoch of time2.
NoTimes ==
  [time1 |-> 0, corr1 |-> 0, time2 |-> 0, corr2 |-> 0, known |-> FALSE,
   clean |-> FALSE, epoch |-> 0]

\* Sequence numbers are not initialised, times are zero.
TimestampMatcher(garbage) ==
  [sequ1 |-> garbage, sequ2 |-> garbage, times |-> NoTimes, mostRecent |-> NoTimes]

AppDelay(garbage) ==
  [sequId |-> 0, requSequId |-> 0, syncTimes |-> NoTimes, requEpoch |-> 0,
   twoStep |-> FALSE, triggerStart |-> TRUE, started |-> FALSE,
   matcher |-> TimestampMatcher(garbage)]

\* New match: both times of one Sync are there.
Matched(m) == IF m.sequ1 = m.sequ2 THEN [m EXCEPT !.mostRecent = m.times] ELSE m

PushFirst(m, time, corr, seq) ==
  Matched([m EXCEPT !.sequ1 = seq, !.times.time1 = time, !.times.corr1 = corr,
                    !.times.known = TRUE])

PushSecond(m, f) ==
  Matched([m EXCEPT !.sequ2 = f.seq, !.times.time2 = f.stamp.time, !.times.corr2 = f.corr,
                    !.times.clean = f.clean, !.times.epoch = f.stamp.epoch])

\* The first Sync starts the requests.
DelayHandleSync(delay, f) ==
  LET first  == IF f.twoStep THEN delay.matcher
                ELSE PushFirst(delay.matcher, f.origin, 0, f.seq)
  IN  [delay EXCEPT !.twoStep = f.twoStep, !.matcher = PushSecond(first, f),
                    !.started = @ \/ delay.triggerStart, !.triggerStart = FALSE]

DelayHandleFollowUp(delay, f) ==
  IF delay.twoStep
  THEN [delay EXCEPT !.matcher = PushFirst(@, f.origin, f.corr, f.seq)] ELSE delay

CreateDelayReqFrame(delay, port) == Frame("DELAY_REQ", port, delay.sequId, FALSE)

\* HandleIntervalEvent; requEpoch is history, the epoch of the clock.
DelayRequested(delay, epoch) ==
  [delay EXCEPT !.requSequId = delay.sequId, !.sequId = @ + 1,
                !.syncTimes = delay.matcher.mostRecent, !.requEpoch = epoch]

\* CreateDelayRespFrame
CreateDelayRespFrame(pReq, port) ==
  [Frame("DELAY_RESP", port, pReq.seq, FALSE)
     EXCEPT !.receipt = pReq.stamp.time, !.requester = pReq.source,
            !.corr = pReq.corr, !.clean = pReq.clean]

\* MUTANT of DelayTimeJump: the bogus number is no sequence number.
BogusNumber(delay) == [delay EXCEPT !.requSequId = -1]

\* HandleTimeJump: a request under way will find no response.
DelayTimeJump(delay) == [delay EXCEPT !.requSequId = delay.sequId, !.sequId = @ + 1]

\* HandleDelayResp of a slave port
DelayExpected(delay, f, port, parent) ==
  /\ f.seq = delay.requSequId
  /\ f.source = parent
  /\ f.requester = port

\* Twice the mean path delay: the sum of both directions.
RoundTrip(t, f) ==
  (t.time2 - f.reqEgress) + (f.receipt - t.time1) - (t.corr1 + t.corr2 + f.corr)

=============================================================================
