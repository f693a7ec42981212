------------------------------ MODULE PtpTime ------------------------------
(***************************************************************************)
(* What is lost of the times on their way from a master to the offset that *)
(* a slave computes: time stamps in messages and correction fields hold    *)
(* whole nanoseconds, clocks count in smaller units.  The clocks run at    *)
(* one rate, the path is symmetric and its transparent clocks are exact,   *)
(* so that the loss is all there is; PtpNetwork has the rest.              *)
(***************************************************************************)
EXTENDS Integers

CONSTANTS
  Sub,       \* units of a clock per nanosecond
  NsPerS,    \* nanoseconds per second
  NsWord,    \* the nanoseconds field wraps around at this value
  Offsets,   \* what the slave's clock is ahead of the master's
  Delays,    \* the time that frames spend on the wires
  Times,     \* times of the master's clock at which messages are sent
  Residences,\* how long a transparent clock keeps a frame
  MaxHops    \* the transparent clocks between master and slave

\* Messages are sent at times a time stamp can hold, and a second has no more
\* nanoseconds than their field.
TimeAssumption ==
  /\ Sub \in Nat \ {0} /\ NsPerS \in Nat \ {0} /\ NsWord \in Nat /\ NsWord >= NsPerS
  /\ Offsets \subseteq Int /\ Delays \subseteq Nat /\ Times \subseteq Nat
  /\ Residences \subseteq Nat /\ MaxHops \in Nat

VARIABLES
  clock,          \* the true offset and delay
  phase,          \* what happens next
  msg,            \* the Sync or Delay_Req on its way
  synced,         \* t1, t2 and the correction of the last Sync
  meanPathDelay,  \* currentDS.meanPathDelay, in nanoseconds
  offset          \* offsetFromMaster_raw, in units of the clock

pvars == <<clock, phase, msg, synced, meanPathDelay, offset>>

NoMsg == [sent |-> 0, stamp |-> 0, held |-> 0, corr |-> 0, hops |-> 0]

-----------------------------------------------------------------------------
(* cTimeStamp and cTimeInterval *)

\* Integer division of C++.
Quotient(a, b) == IF a >= 0 THEN a \div b ELSE -((-a) \div b)
Remainder(a, b) == a - b * Quotient(a, b)

\* cTimeStamp::operator=(simtime_t): seconds, and the rest in nanoseconds; both
\* fields are unsigned.
TimeStamp(t) ==
  [s  |-> Quotient(t, NsPerS * Sub),
   ns |-> Quotient(Remainder(t, NsPerS * Sub), Sub) % NsWord]

\* cTimeStamp::GetSimTime, in nanoseconds
Nanoseconds(stamp) == stamp.s * NsPerS + stamp.ns

\* cTimeInterval(simtime_t), in nanoseconds
TimeInterval(t) == Quotient(t, Sub)

-----------------------------------------------------------------------------

Init ==
  /\ clock \in [offset : Offsets, delay : Delays]
  /\ phase = "send"
  /\ msg = NoMsg
  /\ synced = [t1 |-> 0, t2 |-> 0, corr |-> 0]
  /\ meanPathDelay = 0 /\ offset = 0

\* A Sync leaves the MAC of the master at time t of the master's clock.
SendSync(t) ==
  /\ phase \in {"send", "again"}
  /\ phase' = IF phase = "send" THEN "sync" ELSE "sync again"
  /\ msg' = [NoMsg EXCEPT !.sent = t, !.stamp = Nanoseconds(TimeStamp(t))]
  /\ UNCHANGED <<clock, synced, meanPathDelay, offset>>

\* A Delay_Req leaves the MAC of the slave; the slave keeps its time.
SendDelayReq(t) ==
  /\ phase = "request"
  /\ msg' = [NoMsg EXCEPT !.sent = t]
  /\ phase' = "delay"
  /\ UNCHANGED <<clock, synced, meanPathDelay, offset>>

\* MUTANT of AddCorrection: the field holds the last correction only.
SetCorrection(corr, correction) == TimeInterval(correction)

\* PTP_MAC::AddCorrection
AddCorrection(corr, correction) == TimeInterval(corr * Sub + correction)

\* A transparent clock adds what it kept the frame for (or does so in the
\* Follow_Up).
Forward(residence) ==
  /\ phase \in {"sync", "sync again", "delay"} /\ msg.hops < MaxHops
  /\ msg' = [msg EXCEPT !.held = @ + residence, !.hops = @ + 1,
                        !.corr = AddCorrection(@, residence)]
  /\ UNCHANGED <<clock, phase, synced, meanPathDelay, offset>>

\* The time at the master's clock when the message arrives.
Arrival == msg.sent + clock.delay + msg.held

\* cAppSync::SynchronizeClock, once the path delay is known.
ReceiveSync ==
  LET ingress == Arrival + clock.offset
  IN  /\ phase \in {"sync", "sync again"}
      /\ synced' = [t1 |-> msg.stamp, t2 |-> ingress, corr |-> msg.corr]
      /\ IF phase = "sync"
         THEN phase' = "request" /\ UNCHANGED offset
         ELSE /\ phase' = "done"
              /\ offset' = ingress - Sub * (msg.stamp + meanPathDelay + msg.corr)
      /\ UNCHANGED <<clock, msg, meanPathDelay>>

\* The master answers with the time of arrival; cAppDelay::HandleDelayResp
\* computes the delay, cCurrentDS::SetMeanPathDelay stores it.  Half of twice
\* the unit is divided at once.
ReceiveDelay ==
  LET t3 == msg.sent + clock.offset
      t4 == Nanoseconds(TimeStamp(Arrival))
      both == (synced.t2 - t3) + Sub * (t4 - synced.t1 - synced.corr - msg.corr)
  IN  /\ phase = "delay" /\ phase' = "again"
      /\ meanPathDelay' = Quotient(both, 2 * Sub)
      /\ UNCHANGED <<clock, msg, synced, offset>>

Next ==
  \/ \E t \in Times : SendSync(t) \/ SendDelayReq(t)
  \/ \E residence \in Residences : Forward(residence)
  \/ ReceiveSync \/ ReceiveDelay

Spec == Init /\ [][Next]_pvars

-----------------------------------------------------------------------------
(* Properties *)

\* Fields hold whole nanoseconds.
TypeOK ==
  /\ phase \in {"send", "sync", "request", "delay", "again", "sync again", "done"}
  /\ msg.hops \in 0 .. MaxHops /\ msg.stamp >= 0 /\ msg.corr >= 0
  /\ meanPathDelay \in Int /\ offset \in Int

\* The offset that a slave computes is early by less than half a nanosecond and
\* late by less than two and a half, and either by one more for each transparent
\* clock on the path; the losses do not add up over the seconds of a time stamp
\* nor over time (cTimeStamp, cTimeInterval, AddCorrection, SetMeanPathDelay).
OffsetWithinResolution ==
  phase = "done" =>
    LET twice == 2 * (offset - clock.offset)
    IN  /\ twice > -(2 * MaxHops + 1) * Sub
        /\ twice < (2 * MaxHops + 5) * Sub

=============================================================================
