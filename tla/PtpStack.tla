------------------------------ MODULE PtpStack ------------------------------
(***************************************************************************)
(* A PTP clock with NumPorts ports: class PTP_Stack and its cPTP_Port      *)
(* objects.  The module has the port state machine, the services each      *)
(* state starts and stops, the periodic state decision over all ports, the *)
(* clock's data sets (parentDS, currentDS.stepsRemoved), the clock servo's *)
(* enable flag and the initialisation / fault / recovery cycle.            *)
(*                                                                         *)
(* Every action is one call from the simulation kernel: a message, a timer *)
(* event or a self message, handled to its end before the next.  Time is   *)
(* abstracted: an armed timer may expire at any moment.  What each port's  *)
(* foreign master data set answers to GetErbest() is an input of the       *)
(* state decision.                                                         *)
(***************************************************************************)
EXTENDS ClockDataSet, FiniteSets

CONSTANTS
  NumPorts,        \* PtpGateSize
  Self,            \* defaultDS.clockIdentity
  OwnAttrs,        \* priority1 .. priority2 of defaultDS
  SlaveOnly,       \* defaultDS.slaveOnly
  Transparent,     \* PTP_ClockType is TRANSPARENT, else ORDINARY
  ActiveE2ETC,     \* parameter Active_E2E_TC
  DelayMechanism,  \* "E2E", "P2P" or "DISABLED"
  Messages,        \* the Announce messages neighbours can send
  StepsModulus     \* stepsRemoved is an unsigned integer modulo this (2^16)

Port == 1 .. NumPorts

OwnPort(p) == [clock |-> Self, port |-> p]

ASSUME StackAssumption ==
  /\ NumPorts \in Nat \ {0}
  /\ Self \in Nat
  /\ OwnAttrs \in Attributes
  /\ SlaveOnly \in BOOLEAN /\ Transparent \in BOOLEAN /\ ActiveE2ETC \in BOOLEAN
  /\ DelayMechanism \in {"E2E", "P2P", "DISABLED"}
  /\ StepsModulus \in Nat \ {0}
  /\ Messages \subseteq Message

\* Every port of a clock is numbered from 1.  A ClockId always comes with the
\* same attributes, and a message that names this clock as grandmaster has
\* left one of its ports, or has been forwarded by another boundary clock.
ASSUME MessagesAssumption ==
  \A m \in Messages :
    /\ m.steps < StepsModulus
    /\ m.sender.port > 0
    /\ \A n \in Messages : m.gm = n.gm => m.attrs = n.attrs
    /\ m.gm = Self => /\ m.attrs = OwnAttrs
                      /\ m.sender.clock = Self \/ m.steps > 0

-----------------------------------------------------------------------------

States == {"INITIALIZING", "FAULTY", "DISABLED", "LISTENING", "PRE_MASTER",
           "MASTER", "PASSIVE", "UNCALIBRATED", "SLAVE"}

Inactive == {"INITIALIZING", "FAULTY", "DISABLED"}

\* The timers of a port's services.  DelayTrigger is cAppDelay::TriggerStart:
\* the delay request interval itself starts with the next Sync message.
Services == {"AnnounceTimeout", "AnnounceInterval", "SyncInterval",
             "QualificationTimeout", "DelayTrigger", "DelayInterval",
             "PDelayInterval"}

Decisions == {"LIST", "M1", "M2", "M3", "P1", "P2", "S1"}

VARIABLES
  portState,   \* portDS.portState
  active,      \* the services of each port whose timer is ACTIVE
  qualN,       \* qualification timeout configured, in announce intervals
  qualSpan,    \* the one for which the scheduled event was started, 0 without one
  parentDS,    \* parent port and grandmaster
  steps,       \* currentDS.stepsRemoved
  servo,       \* the clock servo is enabled
  deciding,    \* AppStateDecision's interval is ACTIVE
  endInit,     \* EndInit events scheduled
  aborted      \* the errors and assertions that have ended the simulation

portVars  == <<portState, active, qualN, qualSpan>>
clockVars == <<parentDS, steps, servo>>
initVars  == <<deciding, endInit>>
vars == <<portVars, clockVars, initVars, aborted>>

Errors == {"INITIALIZE_DONE in a non-initializing state",
           "Ebest is worse than an Erbest"}

TypeOK ==
  /\ portState \in [Port -> States]
  /\ active \in [Port -> SUBSET Services]
  /\ qualN \in [Port -> Nat]
  /\ qualSpan \in [Port -> Nat]
  /\ parentDS \in [parentPort : PortId, gm : Nat, attrs : Attributes]
  /\ steps \in 0 .. (StepsModulus - 1)
  /\ servo \in BOOLEAN
  /\ deciding \in BOOLEAN
  /\ endInit \in Nat
  /\ aborted \in SUBSET Errors

-----------------------------------------------------------------------------
(* ChangeState: the services a state stops and those it starts. *)

PDelay == IF DelayMechanism = "P2P" THEN {"PDelayInterval"} ELSE {}

SendsDelayRequests ==
  DelayMechanism = "E2E" /\ (~Transparent \/ ActiveE2ETC)

Started(s) ==
  CASE s \in Inactive                  -> {}
    [] s \in {"LISTENING", "PASSIVE"}  -> {"AnnounceTimeout"} \cup PDelay
    [] s = "PRE_MASTER"                -> {"QualificationTimeout"} \cup PDelay
    [] s = "MASTER"    -> {"SyncInterval", "AnnounceInterval"} \cup PDelay
    [] s \in {"UNCALIBRATED", "SLAVE"} ->
         {"AnnounceTimeout"} \cup PDelay
           \cup (IF SendsDelayRequests THEN {"DelayTrigger"} ELSE {})

DelayServices == {"DelayTrigger", "DelayInterval"}

Stopped(s) ==
  CASE s \in Inactive -> Services
    [] s \in {"LISTENING", "PASSIVE"} ->
         {"SyncInterval", "QualificationTimeout", "AnnounceInterval"}
           \cup DelayServices \cup ({"PDelayInterval"} \ PDelay)
    [] s = "PRE_MASTER" ->
         {"SyncInterval", "AnnounceTimeout", "AnnounceInterval"}
           \cup DelayServices \cup ({"PDelayInterval"} \ PDelay)
    [] s = "MASTER" ->
         {"QualificationTimeout", "AnnounceTimeout"}
           \cup DelayServices \cup ({"PDelayInterval"} \ PDelay)
    [] s \in {"UNCALIBRATED", "SLAVE"} ->
         {"SyncInterval", "QualificationTimeout", "AnnounceInterval"}
           \cup (IF SendsDelayRequests THEN {} ELSE DelayServices)
           \cup ({"PDelayInterval"} \ PDelay)

\* MUTANT of Switch: the services of the old state go on.
SwitchWithoutStop(services, old, new) ==
  IF old = new THEN services ELSE services \cup Started(new)

\* The services after ChangeState(new) in state old: entering the state the
\* port is already in changes nothing.
Switch(services, old, new) ==
  IF old = new THEN services ELSE (services \ Stopped(new)) \cup Started(new)

\* StartTimeout schedules the event for the timeout that is configured then.  The
\* event goes on as it is, whatever SetTimeout says later, until StopTimeout.
ScheduleQualification(timeout) ==
  qualSpan' = [p \in Port |->
    CASE "QualificationTimeout" \notin active'[p] -> 0
      [] "QualificationTimeout" \in active[p] \cap active'[p] -> qualSpan[p]
      [] OTHER -> timeout[p]]

\* ChangeState(next[p]) on every port p, whose qualification timeout is timeout[p].
ChangeStates(next, timeout) ==
  /\ portState' = next
  /\ active' = [p \in Port |-> Switch(active[p], portState[p], next[p])]
  /\ ScheduleQualification(timeout)

\* MUTANT of ChangeState: the state is set, the services are left alone.
ChangeStateOnly(p, services, new) ==
  /\ portState' = [portState EXCEPT ![p] = new]
  /\ active' = [active EXCEPT ![p] = services]
  /\ ScheduleQualification(qualN)

\* ChangeState(new) on port p, called from a handler that has left the
\* port's services as `services'.
ChangeState(p, services, new) ==
  /\ portState' = [portState EXCEPT ![p] = new]
  /\ active' = [active EXCEPT ![p] = Switch(services, portState[p], new)]
  /\ ScheduleQualification(qualN)

-----------------------------------------------------------------------------
(* Initialisation, faults and recovery. *)

OwnParent == [parentPort |-> OwnPort(0), gm |-> Self, attrs |-> OwnAttrs]

\* After InitInternalState and FinishInit.
Init ==
  /\ portState = [p \in Port |-> "INITIALIZING"]
  /\ active = [p \in Port |-> {}]
  /\ qualN = [p \in Port |-> 0]
  /\ qualSpan = [p \in Port |-> 0]
  /\ parentDS = OwnParent
  /\ steps = 0
  /\ servo = FALSE
  /\ deciding = FALSE
  /\ endInit = 1
  /\ aborted = {}

\* An error ends the simulation.
Running == aborted = {}

\* StartInitialize: the EndInit event of an earlier call stays scheduled.
StartInitialize ==
  /\ ChangeStates([p \in Port |-> "INITIALIZING"], qualN)
  /\ deciding' = FALSE
  /\ endInit' = endInit + 1
  /\ UNCHANGED <<qualN, clockVars, aborted>>

\* The EndInit self message: StopInitialize.
EndInit ==
  /\ Running
  /\ endInit > 0
  /\ endInit' = endInit - 1
  /\ IF \A p \in Port : portState[p] = "INITIALIZING"
     THEN /\ ChangeStates([p \in Port |-> "LISTENING"], qualN)
          /\ deciding' = TRUE
          /\ UNCHANGED aborted
     ELSE /\ aborted' = aborted
                        \cup {"INITIALIZE_DONE in a non-initializing state"}
          /\ UNCHANGED <<portState, active, qualSpan, deciding>>
  /\ UNCHANGED <<qualN, clockVars>>

\* Faults and recoveries concern one port or, with PortID 0, every port.
FaultScope == {{p} : p \in Port} \cup {Port}

\* MUTANT of StateAfterFault: a fault is also noticed while initialising.
StateAfterAnyFault(s) == "FAULTY"

\* FAULT_DETECTED: ignored while initialising or disabled.
StateAfterFault(s) ==
  IF s \in {"INITIALIZING", "DISABLED"} THEN s ELSE "FAULTY"

FaultDetected(ports) ==
  /\ Running
  /\ ChangeStates([p \in Port |->
       IF p \in ports THEN StateAfterFault(portState[p]) ELSE portState[p]], qualN)
  /\ UNCHANGED <<qualN, clockVars, initVars, aborted>>

\* FAULT_CLEARED: the first faulty port initialises the whole clock, after
\* which no further port is faulty.
FaultCleared(ports) ==
  /\ Running
  /\ \E p \in ports : portState[p] = "FAULTY"
  /\ StartInitialize

-----------------------------------------------------------------------------
(* Timer events. *)

\* MUTANT of StateAfterAnnounceTimeout: a LISTENING port goes on listening.
StateAfterTimeoutListening(s) ==
  IF s \in {"UNCALIBRATED", "SLAVE", "PASSIVE"} THEN "MASTER" ELSE s

\* The announce receipt timeout: cAppAnnounce::HandleTimeoutEvent.
StateAfterAnnounceTimeout(s) ==
  CASE s \in {"LISTENING", "UNCALIBRATED", "SLAVE"} ->
         IF SlaveOnly \/ (Transparent /\ parentDS.gm # Self)
         THEN "LISTENING" ELSE "MASTER"
    [] s = "PASSIVE" -> "MASTER"
    [] OTHER         -> s

AnnounceTimeout(p) ==
  /\ Running
  /\ "AnnounceTimeout" \in active[p]
  /\ ChangeState(p, active[p] \ {"AnnounceTimeout"},
                 StateAfterAnnounceTimeout(portState[p]))
  /\ UNCHANGED <<qualN, clockVars, initVars, aborted>>

\* The qualification timeout: cAppSync::HandleTimeoutEvent.  The event falls
\* through into MASTER_CLOCK_SELECTED.
StateAfterQualificationTimeout(s) ==
  CASE s = "PRE_MASTER"   -> "MASTER"
    [] s = "UNCALIBRATED" -> "SLAVE"
    [] OTHER              -> s

QualificationTimeout(p) ==
  /\ Running
  /\ "QualificationTimeout" \in active[p]
  /\ ChangeState(p, active[p] \ {"QualificationTimeout"},
                 StateAfterQualificationTimeout(portState[p]))
  /\ UNCHANGED <<qualN, clockVars, initVars, aborted>>

-----------------------------------------------------------------------------
(* Messages. *)

\* stepsRemoved of a clock below one that announces d.
StepsFrom(d) == (d.steps + 1) % StepsModulus

\* An Announce message received on port p.  (The foreign master data set,
\* which takes every message of an active port, is not part of this module.)
\* A SLAVE port updates the clock's data sets (Table 16) when the message
\* comes from the clock that is the grandmaster.
HandleAnnounce(p, m) ==
  /\ Running
  /\ portState[p] = "SLAVE"
  /\ parentDS.gm = m.sender.clock
  /\ steps' = StepsFrom(m)
  /\ parentDS' = [parentPort |-> m.sender, gm |-> m.gm, attrs |-> m.attrs]
  /\ UNCHANGED <<portVars, servo, initVars, aborted>>

SyncKinds == {"ONE_STEP", "TWO_STEP", "FOLLOW_UP"}

\* A Sync or Follow_Up message from `source' received on port p.  First
\* cAppSync: a one-step Sync or a Follow_Up from the parent synchronises the
\* clock, and `within' tells whether the offset was within the limit.  Then
\* cAppDelay: any Sync starts the delay request interval if it is due.
HandleSync(p, source, kind, within) ==
  LET s == portState[p]
      synchronizes == /\ kind # "TWO_STEP"
                      /\ s \in {"UNCALIBRATED", "SLAVE"}
                      /\ source = parentDS.parentPort
      new == CASE synchronizes /\ within  -> "SLAVE"
               [] synchronizes /\ ~within -> "UNCALIBRATED"
               [] ~synchronizes           -> s
      services == Switch(active[p], s, new)
      startsDelay == /\ kind # "FOLLOW_UP"
                     /\ DelayMechanism = "E2E"
                     /\ "DelayTrigger" \in services
  IN /\ Running
     /\ portState' = [portState EXCEPT ![p] = new]
     /\ active' = [active EXCEPT ![p] =
          IF startsDelay
          THEN (services \ {"DelayTrigger"}) \cup {"DelayInterval"}
          ELSE services]
     /\ ScheduleQualification(qualN)
     /\ UNCHANGED <<qualN, clockVars, initVars, aborted>>

-----------------------------------------------------------------------------
(* The state decision: cAppStateDecision::HandleIntervalEvent. *)

D0 == [gm |-> Self, attrs |-> OwnAttrs, steps |-> 0,
       sender |-> OwnPort(0), receiver |-> OwnPort(0)]

\* MUTANT of GrandmasterOnly: the bounds of the other clock classes.
NotGrandmasterOnly == OwnAttrs[2] \in 128 .. 255

\* Clock classes 1 to 127: the clock never becomes slave.
GrandmasterOnly == OwnAttrs[2] \in 1 .. 127

\* EbestPortID after the loop over all ports.
EbestPort(erb) ==
  LET scan[p \in 0 .. NumPorts] ==
        IF p = 0 THEN 0 ELSE ScanPort(erb, scan[p-1], p)
  IN scan[NumPorts]

\* cPTP_Port::GetStateDecision, b being the port of Ebest.
StateDecision(p, erb, b) ==
  CASE erb[p] = NoDS /\ portState[p] = "LISTENING" -> "LIST"
    [] OTHER ->
       IF GrandmasterOnly THEN IF BetterThan(D0, erb[p]) THEN "M1" ELSE "P1"
       ELSE IF BetterThan(D0, EbestOf(erb, b)) THEN "M2"
       ELSE IF p = b THEN "S1"
       ELSE IF CompareClockDS(EbestOf(erb, b), erb[p]) = "A_BETTER_B_BY_TOPO"
            THEN "P2" ELSE "M3"

\* The assertion of GetStateDecision on the comparison of Ebest and Erbest.
AssertionFails(erb, b) ==
  /\ ~GrandmasterOnly
  /\ ~BetterThan(D0, EbestOf(erb, b))
  /\ \E p \in Port \ {b} : erb[p] # NoDS /\ WorseThan(EbestOf(erb, b), erb[p])

BecomeSlave(ebest) ==
  /\ steps' = StepsFrom(ebest)
  /\ parentDS' = [parentPort |-> ebest.sender, gm |-> ebest.gm,
                  attrs |-> ebest.attrs]
  /\ servo' = TRUE

\* MUTANT of BecomeGrandMaster: the servo is not stopped.
BecomeGrandMasterServoOn ==
  steps' = 0 /\ parentDS' = OwnParent /\ UNCHANGED servo

BecomeGrandMaster == steps' = 0 /\ parentDS' = OwnParent /\ servo' = FALSE

\* HandlePortStateDec for every port in turn: each M1, M2 or S1 overwrites the
\* data sets, so that the last port with one of them counts.
UpdateDataSets(dec, ebest) ==
  LET deciders == {p \in Port : dec[p] \in {"M1", "M2", "S1"}}
      last == CHOOSE p \in deciders : \A q \in deciders : q <= p
  IN IF deciders = {} THEN UNCHANGED clockVars
     ELSE IF dec[last] = "S1" THEN BecomeSlave(ebest) ELSE BecomeGrandMaster

\* MUTANT of StateAfterPassive: the cases of a slave port are forgotten.
StateAfterPassiveForgets(s) ==
  IF s \in {"UNCALIBRATED", "SLAVE"} THEN s ELSE "PASSIVE"

StateAfterPassive(s) == "PASSIVE"

\* MUTANT of StateAfterSlave: a new master is not noticed.
StateAfterSlaveForgets(s, newMaster) ==
  IF s = "SLAVE" THEN "SLAVE" ELSE "UNCALIBRATED"

StateAfterSlave(s, newMaster) ==
  IF s = "SLAVE" /\ ~newMaster THEN "SLAVE" ELSE "UNCALIBRATED"

\* cPTP_Port::HandleStateDecision: the state decided for a port in state s.
StateAfterDecision(s, dec, newMaster) ==
  LET refused == SlaveOnly \/ (Transparent /\ dec = "M3")
  IN CASE s \in Inactive -> s
       [] s \notin Inactive /\ dec = "LIST" -> s
       [] s \notin Inactive /\ dec \in {"M1", "M2", "M3"} ->
            IF s = "MASTER" THEN IF refused THEN "PASSIVE" ELSE "MASTER"
                            ELSE IF refused THEN "LISTENING" ELSE "PRE_MASTER"
       [] s \notin Inactive /\ dec \in {"P1", "P2"} -> StateAfterPassive(s)
       [] s \notin Inactive /\ dec = "S1" -> StateAfterSlave(s, newMaster)

\* MUTANT of QualificationN: M1 and M2 leave the timeout of an earlier M3.
StaleQualificationN(p, dec) ==
  IF portState[p] \notin Inactive /\ dec = "M3" THEN steps' + 1 ELSE qualN[p]

\* The qualification timeout the decision configures: SetTimeout.  It reads
\* stepsRemoved after UpdateDataSets.
QualificationN(p, dec) ==
  CASE portState[p] \in Inactive -> qualN[p]
    [] portState[p] \notin Inactive /\ dec \in {"M1", "M2"} -> 0
    [] portState[p] \notin Inactive /\ dec = "M3"           -> steps' + 1
    [] OTHER -> qualN[p]

\* heard[p] is the message behind the Erbest of port p, NoDS if there is none.
\* A port does not hear itself.
ErbestMessages ==
  {heard \in [Port -> Messages \cup {NoDS}] :
     \A p \in Port : heard[p] # NoDS => heard[p].sender # OwnPort(p)}

Erbests(heard) == [p \in Port |-> Received(heard[p], OwnPort(p))]

\* One round: Ebest, the decisions of all ports, the data sets, the ports.
DecideStates(heard) ==
  LET erb   == Erbests(heard)
      b     == EbestPort(erb)
      ebest == EbestOf(erb, b)
      dec   == [p \in Port |-> StateDecision(p, erb, b)]
      newMaster == ebest # NoDS /\ ebest.sender # parentDS.parentPort
  IN /\ Running
     /\ deciding
     /\ IF AssertionFails(erb, b)
        THEN /\ aborted' = aborted \cup {"Ebest is worse than an Erbest"}
             /\ UNCHANGED <<portVars, clockVars>>
        ELSE /\ UpdateDataSets(dec, ebest)
             /\ qualN' = [p \in Port |-> QualificationN(p, dec[p])]
             /\ ChangeStates([p \in Port |->
                  StateAfterDecision(portState[p], dec[p], newMaster)], qualN')
             /\ UNCHANGED aborted
     /\ UNCHANGED initVars

-----------------------------------------------------------------------------

\* Ports of neighbours, which Sync and Follow_Up messages come from.
Neighbours == {m.sender : m \in Messages}

PortNext(p) ==
  \/ AnnounceTimeout(p)
  \/ QualificationTimeout(p)
  \/ \E m \in Messages : HandleAnnounce(p, m)
  \/ \E source \in Neighbours, kind \in SyncKinds, within \in BOOLEAN :
       HandleSync(p, source, kind, within)

Next ==
  \/ EndInit
  \/ \E ports \in FaultScope : FaultDetected(ports)
  \/ \E ports \in FaultScope : FaultCleared(ports)
  \/ \E p \in Port : PortNext(p)
  \/ \E heard \in ErbestMessages : DecideStates(heard)

Spec == Init /\ [][Next]_vars

-----------------------------------------------------------------------------
(* Properties. *)

SlavePorts == {p \in Port : portState[p] \in {"UNCALIBRATED", "SLAVE"}}

\* No sequence of faults, recoveries, timers and messages makes the stack
\* throw or fail an assertion: EndInit always finds every port INITIALIZING,
\* and Ebest is never worse than the Erbest of another port.
NeverAborted == aborted = {}

\* The ports initialise together: while the EndInit event is scheduled, and
\* only then, all ports are INITIALIZING and no state decision is scheduled.
\* In particular a recovery never schedules a second EndInit event.
InitPhase ==
  /\ endInit = IF deciding THEN 0 ELSE 1
  /\ \A p \in Port : portState[p] = "INITIALIZING" <=> ~deciding

\* Ports that have let the announce receipt timeout expire and stayed in
\* LISTENING listen without a timer.
ListensWithoutTimer(p) ==
  /\ SlaveOnly \/ Transparent
  /\ portState[p] = "LISTENING"
  /\ "AnnounceTimeout" \notin active[p]

\* The timers that run are those of the port's state, whatever path led to
\* it: Announce and Sync messages are sent by a MASTER only, the qualification
\* timeout runs in PRE_MASTER only, a port that expects Announce messages
\* notices when they cease, and a port below a master that measures the path
\* delay never loses its delay request service.
TimersMatchState ==
  \A p \in Port :
    LET s == portState[p] IN
    /\ {"AnnounceInterval", "SyncInterval"} \cap active[p]
         = IF s = "MASTER" THEN {"AnnounceInterval", "SyncInterval"} ELSE {}
    /\ "QualificationTimeout" \in active[p] <=> s = "PRE_MASTER"
    /\ "AnnounceTimeout" \in active[p]
         <=> /\ s \in {"LISTENING", "PASSIVE", "UNCALIBRATED", "SLAVE"}
             /\ ~ListensWithoutTimer(p)
    /\ DelayServices \cap active[p] # {}
         <=> p \in SlavePorts /\ SendsDelayRequests
    /\ "PDelayInterval" \in active[p]
         <=> s \notin Inactive /\ DelayMechanism = "P2P"

\* At most one port is synchronised to a master, and it never is while the
\* clock's data sets name the clock itself as parent or the servo is off.
OneSlavePort ==
  /\ Cardinality(SlavePorts) <= 1
  /\ SlavePorts # {} => servo

\* The servo is enabled exactly while the parent is another clock's port.
ServoFollowsParent == servo <=> parentDS # OwnParent

\* The scheduled event of a port that becomes PRE_MASTER waits for no announce
\* interval if the clock is the grandmaster, and for one more than its distance
\* to it otherwise, as the data sets say after the whole round: never for a
\* timeout that an earlier round has left.  The rounds that find the port in
\* PRE_MASTER do not prolong its wait, nor do they shorten it if they change the
\* role of the clock (SetTimeout, ChangeState of PTP_Port.cc).
QualifiesForRoleAtEntry ==
  [][\A p \in Port :
       portState'[p] = "PRE_MASTER" =>
         qualSpan'[p] = IF portState[p] = "PRE_MASTER" THEN qualSpan[p]
                        ELSE IF servo' THEN steps' + 1 ELSE 0]_vars

\* The parent of a port that is and stays SLAVE changes only by an Announce
\* message of the grandmaster itself; a state decision for the port of any
\* other clock always leaves the port UNCALIBRATED first.
NewParentUncalibrates ==
  [][\A p \in Port :
       /\ portState[p] = "SLAVE" /\ portState'[p] = "SLAVE"
       /\ parentDS'.parentPort # parentDS.parentPort
       => parentDS'.parentPort.clock = parentDS.gm]_vars

\* A state decision never makes a port follow a master whose grandmaster is
\* this clock, however its own announcements come back to it.
NeverOwnSlave ==
  [][\A p \in Port :
       /\ portState[p] \notin {"UNCALIBRATED", "SLAVE"}
       /\ portState'[p] \in {"UNCALIBRATED", "SLAVE"}
       => parentDS'.gm # Self]_vars

\* A clock of class 1 to 127 is never synchronised by another one.
PrimaryNeverSlave ==
  OwnAttrs[2] \in 1 .. 127 => SlavePorts = {} /\ ~servo /\ parentDS = OwnParent

\* Readme.md describes clocks that are slave only: no port of such a clock
\* ever acts as a master.
SlaveOnlyNeverMaster ==
  SlaveOnly => \A p \in Port : portState[p] # "MASTER"

\* "if in SLAVE-state && sender is current master" (AppAnnounce.cc): a SLAVE
\* port updates the data sets only from the messages of its current parent.
UpdatesFromCurrentMaster ==
  [][\A p \in Port :
       portState[p] = "SLAVE" /\ portState'[p] = "SLAVE" /\ parentDS' # parentDS
       => parentDS'.parentPort = parentDS.parentPort]_vars

=============================================================================
