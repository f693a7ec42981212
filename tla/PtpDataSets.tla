----------------------------- MODULE PtpDataSets -----------------------------
(***************************************************************************)
(* The values in the data sets of a clock with end-to-end path delay, and  *)
(* which clocks they come from while its master changes: currentDS,        *)
(* timePropertiesDS, the filters of the services, the Sync that cAppSync   *)
(* keeps for the Follow_Up and the times that cAppDelay keeps for the next *)
(* Delay_Resp.  A measured value is the set of master ports whose messages *)
(* it was computed from; a value that was set to zero has none.            *)
(*                                                                         *)
(* Sequence numbers start anywhere, so that those of two masters may agree:*)
(* whether a Follow_Up has the number of a stored Sync is an input.        *)
(***************************************************************************)
EXTENDS PtpStack, Sequences

CONSTANTS
  TwoStep,         \* the master ports that send Follow_Up messages
  OffsetFilterLen, \* offsetFromMasterFilter_Len, 1 also for NO_FILTER
  DelayFilterLen,  \* meanPathDelayFilter_Len
  MaxJumps         \* bound: jumps of the local clock

ValuesAssumption ==
  OffsetFilterLen \in Nat \ {0} /\ DelayFilterLen \in Nat \ {0} /\ MaxJumps \in Nat

VARIABLES
  currentDS,         \* offsetFromMaster and meanPathDelay
  timePropertiesDS,  \* the clock whose time properties these are
  moduleID,          \* parentDS.grandMasterModuleID, as that clock
  sync,              \* cAppSync of each port
  delay,             \* cAppDelay of each port
  talking,           \* the masters that still send Sync messages
  jumps

valueVars == <<currentDS, timePropertiesDS, moduleID>>
serviceVars == <<sync, delay>>
dataSetVars == <<vars, valueVars, serviceVars, talking, jumps>>

Origin == SUBSET Neighbours
Zero == {}

DataSetsTypeOK ==
  /\ TypeOK
  /\ currentDS \in [offset : Origin, delay : Origin]
  /\ timePropertiesDS \in Nat /\ moduleID \in Nat
  /\ \A p \in Port :
       /\ sync[p].ingress \in Origin
       /\ sync[p].filter \in Seq(Origin) /\ Len(sync[p].filter) <= OffsetFilterLen
       /\ delay[p].first \in Origin /\ delay[p].second \in Origin
       /\ delay[p].mostRecent \in Origin /\ delay[p].syncTimes \in Origin
       /\ delay[p].twoStep \in BOOLEAN /\ delay[p].requested \in BOOLEAN
       /\ delay[p].filter \in Seq(Origin) /\ Len(delay[p].filter) <= DelayFilterLen
  /\ talking \subseteq Neighbours /\ jumps \in 0 .. MaxJumps

NewCurrentDS == [offset |-> Zero, delay |-> Zero]

\* ingress is the stored two-step Sync.
NewSync == [ingress |-> Zero, filter |-> <<>>]

\* first and second are the times of the matcher, syncTimes those remembered at
\* the request, requested tells whether a response may have its number.
NewDelay == [first |-> Zero, second |-> Zero, mostRecent |-> Zero, syncTimes |-> Zero,
             twoStep |-> FALSE, requested |-> FALSE, filter |-> <<>>]

DataSetsInit ==
  /\ Init
  /\ currentDS = NewCurrentDS
  /\ timePropertiesDS = Self /\ moduleID = Self
  /\ sync = [p \in Port |-> NewSync]
  /\ delay = [p \in Port |-> NewDelay]
  /\ talking = Neighbours /\ jumps = 0

-----------------------------------------------------------------------------
(* The filters *)

Push(filter, len, value) ==
  Append(IF Len(filter) = len THEN Tail(filter) ELSE filter, value)

\* The average comes from all values in the filter.
Pop(filter) == UNION {filter[i] : i \in DOMAIN filter}

\* A filtered service resets its filter when its interval starts and its timer
\* was STOPPED (StartInterval); s and d are the services after their handlers.
ServicesBecome(s, d) ==
  LET starts(p, service) == service \in active'[p] \ active[p]
  IN  /\ sync' = [p \in Port |->
           IF starts(p, "SyncInterval") THEN [s[p] EXCEPT !.filter = <<>>] ELSE s[p]]
      /\ delay' = [p \in Port |->
           IF starts(p, "DelayInterval") THEN [d[p] EXCEPT !.filter = <<>>] ELSE d[p]]

-----------------------------------------------------------------------------
(* The data sets of the clock: decisions and Announce messages *)

\* What HandlePortStateDec did last in a round, "none" if nothing.
LastUpdate(heard) ==
  LET erb == Erbests(heard)
      b   == EbestPort(erb)
      dec == [p \in Port |-> StateDecision(p, erb, b)]
      deciders == {p \in Port : dec[p] \in {"M1", "M2", "S1"}}
  IN  IF deciders = {} \/ AssertionFails(erb, b) THEN "none"
      ELSE IF dec[CHOOSE p \in deciders : \A q \in deciders : q <= p] = "S1"
           THEN "BecomeSlave" ELSE "BecomeGrandMaster"

\* MUTANT of GrandMasterValues: the measured values are left alone.
GrandMasterKeepsValues ==
  /\ timePropertiesDS' = Self /\ moduleID' = Self /\ UNCHANGED currentDS

\* BecomeGrandMaster also resets the measured values; BecomeSlave does not.
GrandMasterValues ==
  /\ currentDS' = NewCurrentDS /\ timePropertiesDS' = Self /\ moduleID' = Self

SlaveValues ==
  /\ timePropertiesDS' = parentDS'.gm /\ moduleID' = parentDS'.gm
  /\ UNCHANGED currentDS

Decide(heard) ==
  /\ DecideStates(heard)
  /\ CASE LastUpdate(heard) = "BecomeSlave"       -> SlaveValues
       [] LastUpdate(heard) = "BecomeGrandMaster" -> GrandMasterValues
       [] LastUpdate(heard) = "none"              -> UNCHANGED valueVars
  /\ ServicesBecome(sync, delay)
  /\ UNCHANGED <<talking, jumps>>

\* Table 16, which does not have the module of the grandmaster.
Announced(p, m) ==
  /\ HandleAnnounce(p, m)
  /\ timePropertiesDS' = m.gm
  /\ UNCHANGED <<currentDS, moduleID, serviceVars, talking, jumps>>

-----------------------------------------------------------------------------
(* Sync, Follow_Up and the delay request *)

\* SynchronizeClock of cAppSync with times from the masters in `times'; the
\* offset subtracts the mean path delay.  A jump resets every filter and
\* makes the responses under way useless.
SynchronizeClock(p, times, jump) ==
  LET window == Push(sync[p].filter, OffsetFilterLen, times \cup currentDS.delay)
  IN  /\ currentDS' = [currentDS EXCEPT !.offset = Pop(window)]
      /\ jumps' = jumps + (IF jump THEN 1 ELSE 0)
      /\ sync' = [q \in Port |->
           [sync[q] EXCEPT !.filter = IF jump THEN <<>> ELSE IF q = p THEN window ELSE @]]

FromMaster(p, source) ==
  portState[p] \in {"UNCALIBRATED", "SLAVE"} /\ source = parentDS.parentPort

\* The matcher of cAppDelay, which takes the Sync messages of every master.
MatchSync(d, source, matches) ==
  IF source \in TwoStep
  THEN [d EXCEPT !.twoStep = TRUE, !.second = {source},
                 !.mostRecent = IF matches THEN d.first \cup {source} ELSE @]
  ELSE [d EXCEPT !.twoStep = FALSE, !.first = {source}, !.second = {source},
                 !.mostRecent = {source}]

MatchFollowUp(d, source, matches) ==
  IF d.twoStep
  THEN [d EXCEPT !.first = {source},
                 !.mostRecent = IF matches THEN d.second \cup {source} ELSE @]
  ELSE d

\* cAppDelay after a message; its interval may have been started by a Sync.
DelayBecomes(p, d, jump) ==
  delay' = [q \in Port |->
    LET new == IF q = p THEN d ELSE delay[q]
    IN  IF jump \/ (q = p /\ "DelayInterval" \in active'[p] \ active[p])
        THEN [new EXCEPT !.filter = <<>>, !.requested = @ /\ ~jump] ELSE new]

\* A Sync; within and jump tell whether the offset is within the limit and
\* whether the servo asks for a jump of the clock, if it synchronises.
TakeSync(p, source, within, jump, matches) ==
  LET kind == IF source \in TwoStep THEN "TWO_STEP" ELSE "ONE_STEP"
  IN  /\ HandleSync(p, source, kind, within)
      /\ IF kind = "ONE_STEP" /\ FromMaster(p, source)
         THEN SynchronizeClock(p, {source}, jump)
         ELSE /\ within /\ ~jump
              /\ sync' = [sync EXCEPT ![p].ingress =
                   IF FromMaster(p, source) THEN {source} ELSE @]
              /\ UNCHANGED <<currentDS, jumps>>
      /\ DelayBecomes(p, MatchSync(delay[p], source, matches), jump)
      /\ UNCHANGED <<timePropertiesDS, moduleID, talking>>

\* A Follow_Up: own tells whether it has the number of the Sync that cAppSync has
\* stored, matches whether it has the one cAppDelay saw last.
TakeFollowUp(p, source, within, jump, own, matches) ==
  /\ source \in TwoStep
  /\ IF own /\ FromMaster(p, source)
     THEN /\ HandleSync(p, source, "FOLLOW_UP", within)
          /\ SynchronizeClock(p, sync[p].ingress \cup {source}, jump)
     ELSE /\ Running /\ within /\ ~jump
          /\ UNCHANGED <<vars, sync, currentDS, jumps>>
  /\ DelayBecomes(p, MatchFollowUp(delay[p], source, matches), jump)
  /\ UNCHANGED <<timePropertiesDS, moduleID, talking>>

\* HandleIntervalEvent of cAppDelay
DelayRequest(p) ==
  /\ Running
  /\ "DelayInterval" \in active[p]
  /\ delay' = [delay EXCEPT ![p].requested = TRUE, ![p].syncTimes = delay[p].mostRecent]
  /\ UNCHANGED <<vars, valueVars, sync, talking, jumps>>

\* HandleDelayResp: every master answers a request, the parent's answer is taken.
DelayResp(p, source) ==
  /\ Running
  /\ FromMaster(p, source) /\ delay[p].requested
  /\ LET window == Push(delay[p].filter, DelayFilterLen, delay[p].syncTimes \cup {source})
     IN  /\ currentDS' = [currentDS EXCEPT !.delay = Pop(window)]
         /\ delay' = [delay EXCEPT ![p].filter = window]
  /\ UNCHANGED <<vars, timePropertiesDS, moduleID, sync, talking, jumps>>

-----------------------------------------------------------------------------

\* Initialisation and timers
OwnStep ==
  /\ EndInit \/ \E p \in Port : AnnounceTimeout(p) \/ QualificationTimeout(p)
  /\ ServicesBecome(sync, delay)
  /\ UNCHANGED <<valueVars, talking, jumps>>

Only(source) == talking = {source}

\* A master sends no more Sync messages; one of them goes on.
Silence(source) ==
  /\ ~Only(source)
  /\ talking' = talking \ {source}
  /\ UNCHANGED <<vars, valueVars, serviceVars, jumps>>

\* A one-step Sync is matched by itself.
Matches(source) == IF source \in TwoStep THEN BOOLEAN ELSE {TRUE}

Jump == IF jumps < MaxJumps THEN BOOLEAN ELSE {FALSE}

DataSetsNext ==
  \/ OwnStep
  \/ \E heard \in ErbestMessages : Decide(heard)
  \/ \E source \in talking : Silence(source)
  \/ \E p \in Port :
       \/ DelayRequest(p)
       \/ \E m \in Messages : Announced(p, m)
       \/ \E source \in talking, within \in BOOLEAN, jump \in Jump :
            \/ \E matches \in Matches(source) : TakeSync(p, source, within, jump, matches)
            \/ \E own, matches \in BOOLEAN :
                 TakeFollowUp(p, source, within, jump, own, matches)
       \/ \E source \in talking : DelayResp(p, source)

\* The last master that is not silent goes on sending Sync messages, and its
\* Follow_Up belongs to its last Sync unless that was lost; an interval that is
\* ACTIVE is executed and the request answered.
DataSetsFairness ==
  \A p \in Port :
    /\ WF_dataSetVars(\E source \in talking, within, matches \in BOOLEAN :
                        Only(source) /\ TakeSync(p, source, within, FALSE, matches))
    /\ WF_dataSetVars(\E source \in talking, within \in BOOLEAN :
                        Only(source) /\ TakeFollowUp(p, source, within, FALSE, TRUE, TRUE))
    /\ WF_dataSetVars(DelayRequest(p))
    /\ WF_dataSetVars(\E source \in talking : Only(source) /\ DelayResp(p, source))

DataSetsSpec == DataSetsInit /\ [][DataSetsNext]_dataSetVars /\ DataSetsFairness

-----------------------------------------------------------------------------
(* Properties *)

\* The time properties a clock announces are those of its grandmaster, and a
\* clock that is its own grandmaster has no offset and no path delay, however
\* the decisions and Announce messages alternate (BecomeSlave,
\* BecomeGrandMaster, Table 16 in cAppAnnounce::HandleAnnounce).
DataSetsAgree ==
  /\ timePropertiesDS = parentDS.gm
  /\ ~servo => currentDS = NewCurrentDS

\* Offset and path delay are measured with the masters given alone.
MeasuredWith(masters) == currentDS.offset \cup currentDS.delay \subseteq masters

\* Neither the stored Sync, nor the times of the delay request, nor the filters
\* keep values of a former master for ever: once the other masters are silent
\* and the parent stays, offset and path delay come from its messages alone.
ForgetsFormerMasters ==
  \A p \in Port :
    <>[](\E source \in talking : Only(source) /\ FromMaster(p, source))
      => <>[]MeasuredWith(talking)

\* The data sets are those of the parent.
DataSetsOfParent == [](DataSetsTypeOK /\ DataSetsAgree) /\ ForgetsFormerMasters

=============================================================================
