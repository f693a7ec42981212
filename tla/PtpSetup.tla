------------------------------ MODULE PtpSetup ------------------------------
(***************************************************************************)
(* How a clock gets its configuration: the parameters are parsed, the data *)
(* sets take them, the ports take the intervals of their services from the *)
(* data sets, and the profile is checked before the ports are started.     *)
(* Afterwards a slave port adopts the intervals its master announces.      *)
(***************************************************************************)
EXTENDS Integers

CONSTANTS
  Ports,    \* the ports of the clock
  Params,   \* the parameters it may be configured with
  Logs,     \* the intervals that messages of other clocks carry, log2 of seconds
  MinLog    \* intervals are counted in units of 2^MinLog seconds

VARIABLES
  param,      \* the parameters
  stage,      \* the stage of initialisation that comes next, "running" or "error"
  checker,    \* GrandmasterCapable and PreferredGrandmaster of the power profile
  defaultDS,  \* domainNumber, priority1, priority2 and slaveOnly
  portDS,     \* the intervals, the timeout and the delay mechanism of each port
  service,    \* the Interval of each port's services, and the announce Timeout
  servo,      \* the SyncInterval of the servo, 0 until it is told
  role        \* what each port is: the part of its state that decides what it adopts

vars == <<param, stage, checker, defaultDS, portDS, service, servo, role>>

Profiles == {"CUSTOM", "DEFAULT_E2E", "DEFAULT_P2P", "POWER"}
Algorithms == {"1588_2008_DEFAULT"}
MgmtProtocols == {"1588_2008_DEFAULT", "SNMP"}
DelayMechanisms == {"E2E", "P2P", "DISABLED"}
DomainNumbers ==
  {"DEFAULT", "ALTERNATE_1", "ALTERNATE_2", "ALTERNATE_3",
   "USER_1", "USER_2", "USER_3", "USER_4", "RESERVED"}
Roles == {"LISTENING", "MASTER", "SLAVE"}
Logged == {"logAnnounceInterval", "logSyncInterval", "logMinDelayReqInterval",
           "logMinPdelayReqInterval"}

Int8 == -128 .. 127
UInt8 == 0 .. 255
Interval(log) == 2 ^ (log - MinLog)

\* The numbers among the parameters are integers, and no interval is shorter than the
\* unit; a message carries the logarithm of an interval in a byte.
SetupAssumption ==
  /\ MinLog \in Int
  /\ \A r \in Params :
       /\ r.log \in [Logged -> Int] /\ \A l \in Logged : r.log[l] >= MinLog
       /\ r.receiptTimeout \in Int /\ r.priority1 \in Int /\ r.priority2 \in Int
  /\ Logs \subseteq {n \in Int8 : n >= MinLog}

\* The state of the data sets and services as their constructors leave it.
NewDefaultDS == [domainNumber |-> "DEFAULT", priority1 |-> 0, priority2 |-> 0,
                 slaveOnly |-> FALSE]
NewPortDS == [log |-> [l \in Logged |-> 0], announceReceiptTimeout |-> 0,
              delayMechanism |-> "DISABLED"]
NewService == [interval |-> [l \in Logged |-> 0], timeout |-> 0]

Init ==
  /\ param \in Params /\ stage = "ParseResources"
  /\ checker = [capable |-> FALSE, preferred |-> FALSE]
  /\ defaultDS = NewDefaultDS
  /\ portDS = [p \in Ports |-> NewPortDS]
  /\ service = [p \in Ports |-> NewService]
  /\ servo = 0
  /\ role = [p \in Ports |-> "LISTENING"]

-----------------------------------------------------------------------------
(* The stages of initialisation *)

\* A stage that throws ends the simulation.
Stage(name, ok, next) ==
  /\ stage = name
  /\ stage' = IF ok THEN next ELSE "error"

\* The names of algorithm, protocol and profile are looked up in tables.
ParseResourceParameters ==
  /\ Stage("ParseResources",
           param.bmca \in Algorithms /\ param.mgmt \in MgmtProtocols
             /\ param.profile \in Profiles,
           "ParseParameters")
  /\ UNCHANGED <<param, checker, defaultDS, portDS, service, servo, role>>

\* The numbers of the ports are checked to fit their types; the priorities of
\* the clock are not.
ParseParameters ==
  /\ Stage("ParseParameters",
           /\ param.domain \in DomainNumbers
           /\ \A l \in Logged : param.log[l] \in Int8
           /\ param.receiptTimeout \in UInt8,
           "InitInternalState")
  /\ IF param.profile = "POWER" /\ stage' # "error"
     THEN checker' = [capable |-> param.capable, preferred |-> param.preferred]
     ELSE UNCHANGED checker
  /\ UNCHANGED <<param, defaultDS, portDS, service, servo, role>>

\* The power profile reads its parameters from a parent module that the stack
\* never tells it; what the library leaves in that pointer decides.
ParseParametersFails ==
  /\ param.profile = "POWER" /\ Stage("ParseParameters", FALSE, "error")
  /\ UNCHANGED <<param, checker, defaultDS, portDS, service, servo, role>>

\* PTP_Stack::InitInternalState for one port.
ConfiguredPortDS ==
  [log |-> param.log, announceReceiptTimeout |-> param.receiptTimeout,
   delayMechanism |-> param.delayMechanism]

\* cPTP_Port::InitInternalState.
ConfiguredService(ds) ==
  [interval |-> [l \in Logged |-> Interval(ds.log[l])],
   timeout |-> ds.announceReceiptTimeout * Interval(ds.log["logAnnounceInterval"])]

\* The stack fills the data sets; its ports, whose turn comes after it, take
\* their services' intervals from them.
InitInternalState ==
  /\ Stage("InitInternalState", param.delayMechanism \in DelayMechanisms, "FinishInit")
  /\ defaultDS' = [domainNumber |-> param.domain, priority1 |-> param.priority1 % 256,
                   priority2 |-> param.priority2 % 256, slaveOnly |-> param.slaveOnly]
  /\ IF param.delayMechanism \in DelayMechanisms
     THEN /\ portDS' = [p \in Ports |-> ConfiguredPortDS]
          /\ service' = [p \in Ports |-> ConfiguredService(portDS'[p])]
     ELSE UNCHANGED <<portDS, service>>
  /\ UNCHANGED <<param, checker, servo, role>>

-----------------------------------------------------------------------------
(* The profile checkers *)

EachPort(Check(_)) == \A p \in Ports : Check(portDS[p])

DefaultFixed == param.bmca = "1588_2008_DEFAULT" /\ param.mgmt = "1588_2008_DEFAULT"

DefaultInit ==
  /\ defaultDS.domainNumber = "DEFAULT"
  /\ defaultDS.priority1 = 128 /\ defaultDS.priority2 = 128
  /\ EachPort(LAMBDA ds : /\ ds.log["logAnnounceInterval"] = 1
                          /\ ds.log["logSyncInterval"] = 0
                          /\ ds.announceReceiptTimeout = 3)

DefaultRange ==
  EachPort(LAMBDA ds : /\ ds.log["logAnnounceInterval"] \in 0 .. 4
                       /\ ds.log["logSyncInterval"] \in -1 .. 1
                       /\ ds.announceReceiptTimeout \in 2 .. 10)

DefaultE2EInit ==
  DefaultInit /\ EachPort(LAMBDA ds : /\ ds.delayMechanism = "E2E"
                                      /\ ds.log["logMinDelayReqInterval"] = 0)

DefaultE2ERange ==
  DefaultRange /\ EachPort(LAMBDA ds : ds.log["logMinDelayReqInterval"] \in 0 .. 5)

\* The delay mechanism is compared with the one of the other profile.
DefaultP2PInit ==
  DefaultInit /\ EachPort(LAMBDA ds : /\ ds.delayMechanism = "E2E"
                                      /\ ds.log["logMinPdelayReqInterval"] = 0)

DefaultP2PRange ==
  DefaultRange /\ EachPort(LAMBDA ds : ds.log["logMinPdelayReqInterval"] \in 0 .. 5)

\* A clock that may be grandmaster has to be slave-only.
PowerFixed ==
  /\ defaultDS.domainNumber = "DEFAULT"
  /\ defaultDS.priority1 = IF checker.capable THEN 128 ELSE 255
  /\ defaultDS.priority2 = IF checker.capable THEN 128 ELSE 255
  /\ defaultDS.slaveOnly = checker.capable
  /\ EachPort(LAMBDA ds : /\ ds.delayMechanism = "P2P"
                          /\ \A l \in Logged \ {"logMinDelayReqInterval"} : ds.log[l] = 0
                          /\ ds.announceReceiptTimeout = IF checker.preferred THEN 3 ELSE 2)

CheckParametersFixed ==
  /\ param.profile \in {"DEFAULT_E2E", "DEFAULT_P2P"} => DefaultFixed
  /\ param.profile = "POWER" => PowerFixed

CheckParametersInit ==
  /\ param.profile = "DEFAULT_E2E" => DefaultE2EInit
  /\ param.profile = "DEFAULT_P2P" => DefaultP2PInit

\* Nothing in the program calls this one.
CheckParametersRange ==
  /\ param.profile = "DEFAULT_E2E" => DefaultE2ERange
  /\ param.profile = "DEFAULT_P2P" => DefaultP2PRange

\* The configuration is checked and the ports are started.
FinishInit ==
  /\ Stage("FinishInit", CheckParametersFixed /\ CheckParametersInit, "running")
  /\ UNCHANGED <<param, checker, defaultDS, portDS, service, servo, role>>

-----------------------------------------------------------------------------
(* Intervals that change while the clock runs *)

\* The state machines of the ports; at most one port is a slave.
ChangeRole(p, r) ==
  /\ stage = "running" /\ role[p] # r
  /\ \A q \in Ports \ {p} : r = "SLAVE" => role[q] # "SLAVE"
  /\ role' = [role EXCEPT ![p] = r]
  /\ UNCHANGED <<param, stage, checker, defaultDS, portDS, service, servo>>

\* A slave notes the interval of the Sync messages and tells it to the servo;
\* the interval at which it would send its own stays what it was.
HandleSync(p, log) ==
  /\ stage = "running" /\ role[p] = "SLAVE"
  /\ portDS' = [portDS EXCEPT ![p].log["logSyncInterval"] = log]
  /\ servo' = Interval(log)
  /\ UNCHANGED <<param, stage, checker, defaultDS, service, role>>

\* MUTANT of HandleDelayResp: the interval is noted only.
HandleDelayRespNotes(p, log) ==
  /\ stage = "running" /\ role[p] = "SLAVE"
  /\ portDS' = [portDS EXCEPT ![p].log["logMinDelayReqInterval"] = log]
  /\ UNCHANGED <<param, stage, checker, defaultDS, service, servo, role>>

\* A slave sends its delay requests at the interval its master asks for.
HandleDelayResp(p, log) ==
  /\ stage = "running" /\ role[p] = "SLAVE"
  /\ portDS' = [portDS EXCEPT ![p].log["logMinDelayReqInterval"] = log]
  /\ service' = [service EXCEPT ![p].interval["logMinDelayReqInterval"] = Interval(log)]
  /\ UNCHANGED <<param, stage, checker, defaultDS, servo, role>>

Next ==
  \/ ParseResourceParameters \/ ParseParameters \/ ParseParametersFails
  \/ InitInternalState \/ FinishInit
  \/ \E p \in Ports, r \in Roles : ChangeRole(p, r)
  \/ \E p \in Ports, log \in Logs : HandleSync(p, log) \/ HandleDelayResp(p, log)

Spec == Init /\ [][Next]_vars

-----------------------------------------------------------------------------
(* Properties *)

\* The data sets and services have their types; the priorities fit a byte.
TypeOK ==
  /\ stage \in {"ParseResources", "ParseParameters", "InitInternalState", "FinishInit",
                "running", "error"}
  /\ defaultDS.priority1 \in UInt8 /\ defaultDS.priority2 \in UInt8
  /\ \A p \in Ports :
       /\ \A l \in Logged :
            /\ portDS[p].log[l] \in Int8
            /\ \/ service[p].interval[l] = 0
               \/ \E n \in MinLog .. 127 : service[p].interval[l] = Interval(n)
       /\ portDS[p].announceReceiptTimeout \in UInt8
       /\ portDS[p].delayMechanism \in DelayMechanisms
       /\ role[p] \in Roles

\* While the clock runs, its delay requests, peer delay requests and Announce
\* messages go at the intervals its data sets state, and the announce receipt
\* timeout is counted in the intervals that are announced, whichever port has
\* been slave of which master (InitInternalState, HandleDelayResp).
ServicesFollowDataSets ==
  stage = "running" =>
    \A p \in Ports :
      /\ \A l \in Logged \ {"logSyncInterval"} :
           service[p].interval[l] = Interval(portDS[p].log[l])
      /\ service[p].timeout =
           portDS[p].announceReceiptTimeout * Interval(portDS[p].log["logAnnounceInterval"])

\* The configuration is in effect while the clock runs, and a clock whose initial
\* values a profile accepts starts inside the ranges of the same profile: the
\* functions of the checker that run agree with the one that never runs
\* (CheckParametersInit, CheckParametersRange).
ConfigurationTakesEffect ==
  [][/\ ServicesFollowDataSets'
     /\ stage = "FinishInit" /\ stage' = "running" => CheckParametersRange']_vars

\* A master sends its Sync messages at the interval that they announce
\* ("logMessageInterval", AppSync.cc:104).
SyncIntervalAsClaimed ==
  stage = "running" =>
    \A p \in Ports : role[p] = "MASTER" =>
      service[p].interval["logSyncInterval"] = Interval(portDS[p].log["logSyncInterval"])

=============================================================================
