--------------------------- MODULE PtpStackProofs ---------------------------
(***************************************************************************)
(* Proofs about PtpStack and the modules that extend it, for every number  *)
(* of ports, every configuration and every set of messages that satisfies  *)
(* the assumptions of PtpStack.                                            *)
(*                                                                         *)
(* PtpStack: the invariants and action properties of the clock.            *)
(*                                                                         *)
(* PtpFaults: the faults and recoveries that the MACs of a clock report,   *)
(* in any order, are ones that PtpStack takes into account, and none       *)
(* leaves a port FAULTY for good.                                          *)
(*                                                                         *)
(* PtpDataSets: the values in the data sets follow the parent, whatever    *)
(* the masters send and however they take turns.                           *)
(***************************************************************************)
EXTENDS PtpFaults, PtpDataSets, ClockDataSetProofs

-----------------------------------------------------------------------------
(* Timers. *)

Expecting == {"LISTENING", "PASSIVE", "UNCALIBRATED", "SLAVE"}

\* What TimersMatchState says of a port in state s with the services a.
TimersOf(s, a) ==
  /\ {"AnnounceInterval", "SyncInterval"} \cap a
       = IF s = "MASTER" THEN {"AnnounceInterval", "SyncInterval"} ELSE {}
  /\ "QualificationTimeout" \in a <=> s = "PRE_MASTER"
  /\ "AnnounceTimeout" \in a => s \in Expecting
  /\ "AnnounceTimeout" \notin a /\ s \in Expecting
       => (SlaveOnly \/ Transparent) /\ s = "LISTENING"
  /\ DelayServices \cap a # {}
       <=> s \in {"UNCALIBRATED", "SLAVE"} /\ SendsDelayRequests
  /\ "PDelayInterval" \in a <=> s \notin Inactive /\ DelayMechanism = "P2P"

\* TimersMatchState, port by port.
LEMMA TimersOfPorts ==
  TimersMatchState <=> \A p \in Port : TimersOf(portState[p], active[p])
BY DEF TimersMatchState, TimersOf, ListensWithoutTimer, SlavePorts, Expecting

\* Entering another state leaves exactly its services, whatever ran before.
LEMMA SwitchTimers ==
  ASSUME NEW services \in SUBSET Services, NEW old \in States,
         NEW new \in States, old # new
  PROVE  TimersOf(new, Switch(services, old, new))
<1>1. CASE new \in Inactive
  BY <1>1 DEF TimersOf, Switch, Started, Stopped, Services, Inactive, Expecting,
              DelayServices
<1>2. CASE new \in {"LISTENING", "PASSIVE"}
  BY <1>2 DEF TimersOf, Switch, Started, Stopped, Services, Inactive, Expecting,
              DelayServices, PDelay
<1>3. CASE new = "PRE_MASTER"
  BY <1>3 DEF TimersOf, Switch, Started, Stopped, Services, Inactive, Expecting,
              DelayServices, PDelay
<1>4. CASE new = "MASTER"
  BY <1>4 DEF TimersOf, Switch, Started, Stopped, Services, Inactive, Expecting,
              DelayServices, PDelay
<1>5. CASE new \in {"UNCALIBRATED", "SLAVE"}
  BY <1>5 DEF TimersOf, Switch, Started, Stopped, Services, Inactive, Expecting,
              DelayServices, PDelay
<1> QED BY <1>1, <1>2, <1>3, <1>4, <1>5 DEF States, Inactive

\* ChangeState only starts and stops services that a port has.
LEMMA SwitchType ==
  ASSUME NEW services \in SUBSET Services, NEW old, NEW new \in States
  PROVE  Switch(services, old, new) \in SUBSET Services
BY DEF Switch, Started, PDelay, Services, States, Inactive

\* ChangeState keeps the timers with the state, also if it is entered again.
LEMMA SwitchKeepsTimers ==
  ASSUME NEW services \in SUBSET Services, NEW old \in States,
         NEW new \in States, TimersOf(old, services)
  PROVE  TimersOf(new, Switch(services, old, new))
<1>1. CASE old = new
  BY <1>1 DEF Switch
<1>2. CASE old # new
  BY <1>2, SwitchTimers
<1> QED BY <1>1, <1>2

-----------------------------------------------------------------------------
(* The loop over all ports. *)

\* The function that EbestPort defines exists.
LEMMA ScanExists ==
  ASSUME NEW erb, NEW N \in Nat
  PROVE  \E f : f = [p \in 0 .. N |->
                       IF p = 0 THEN 0 ELSE ScanPort(erb, f[p-1], p)]
<1> DEFINE Is(f, n) == f = [p \in 0 .. n |->
                              IF p = 0 THEN 0 ELSE ScanPort(erb, f[p-1], p)]
           Missing == {n \in Nat : ~ \E f : Is(f, n)}
<1>1. SUFFICES ASSUME Missing # {} PROVE FALSE
  OBVIOUS
<1>2. PICK n \in Missing : \A m \in Missing : n <= m
  BY <1>1, LeastElement
<1>3. CASE n = 0
  <2> DEFINE f == [p \in 0 .. 0 |-> 0]
  <2>1. f = [p \in 0 .. 0 |-> IF p = 0 THEN 0 ELSE ScanPort(erb, f[p-1], p)]
    OBVIOUS
  <2> QED BY <2>1, <1>3
<1>4. CASE n # 0
  <2>1. n - 1 \in Nat /\ n - 1 \notin Missing /\ n \in Nat
    BY <1>2, <1>4
  <2>2. PICK g : g = [p \in 0 .. n-1 |->
                        IF p = 0 THEN 0 ELSE ScanPort(erb, g[p-1], p)]
    BY <2>1
  <2> DEFINE f == [p \in 0 .. n |-> IF p = n THEN ScanPort(erb, g[n-1], n)
                                             ELSE g[p]]
             h == [p \in 0 .. n |->
                     IF p = 0 THEN 0 ELSE ScanPort(erb, f[p-1], p)]
  <2>3. \A p \in 0 .. n : f[p] = h[p]
    <3>1. TAKE p \in 0 .. n
    <3>2. CASE p = n
      <4>1. f[n-1] = g[n-1]
        BY <2>1
      <4> QED BY <3>2, <4>1, <1>4
    <3>3. CASE p # n
      <4>1. p \in 0 .. n-1 /\ f[p] = g[p]
        BY <3>3, <2>1
      <4>2. CASE p = 0
        BY <4>1, <4>2, <2>2
      <4>3. CASE p # 0
        <5>1. p - 1 \in 0 .. n-1 /\ p - 1 # n /\ p - 1 \in 0 .. n
          BY <4>1, <4>3, <2>1
        <5>2. f[p-1] = g[p-1]
          BY <5>1
        <5> QED BY <4>1, <4>3, <5>2, <2>2
      <4> QED BY <4>2, <4>3
    <3> QED BY <3>2, <3>3
  <2>4. f = h
    BY <2>3
  <2>5. Is(f, n)
    BY <2>4
  <2> QED BY <2>5, <1>2
<1> QED BY <1>3, <1>4

\* EbestPort is the port of the best Erbest of all ports.
THEOREM EbestPortIsBest ==
  ASSUME NEW erb, Round(erb, NumPorts)
  PROVE  BestOf(erb, NumPorts, EbestPort(erb))
<1> DEFINE scan[p \in 0 .. NumPorts] ==
             IF p = 0 THEN 0 ELSE ScanPort(erb, scan[p-1], p)
<1>1. NumPorts \in Nat
  BY StackAssumption
<1>2. scan = [p \in 0 .. NumPorts |->
                IF p = 0 THEN 0 ELSE ScanPort(erb, scan[p-1], p)]
  BY <1>1, ScanExists
<1> DEFINE Wrong == {n \in 0 .. NumPorts : ~BestOf(erb, n, scan[n])}
<1>3. Wrong = {}
  <2>1. SUFFICES ASSUME Wrong # {} PROVE FALSE
    OBVIOUS
  <2>2. Wrong \subseteq Nat
    BY <1>1
  <2>3. PICK n \in Wrong : \A m \in Wrong : n <= m
    BY <2>1, <2>2, LeastElement
  <2> HIDE DEF scan
  <2>4. CASE n = 0
    <3>1. scan[0] = 0
      BY <1>1, <1>2
    <3> QED BY <3>1, <2>3, <2>4, ScanStart
  <2>5. CASE n # 0
    <3>1. n - 1 \in 0 .. (NumPorts - 1) /\ n - 1 \notin Wrong /\ (n - 1) + 1 = n
      BY <2>3, <2>5, <1>1
    <3>2. BestOf(erb, n - 1, scan[n-1])
      BY <3>1, <1>1
    <3>3. scan[n] = ScanPort(erb, scan[n-1], n)
      BY <1>1, <1>2, <2>3, <2>5
    <3>4. BestOf(erb, (n - 1) + 1, ScanPort(erb, scan[n-1], (n - 1) + 1))
      BY <3>1, <3>2, <1>1, ScanStep
    <3> QED BY <3>4, <3>3, <3>1, <2>3
  <2> QED BY <2>4, <2>5
<1>4. BestOf(erb, NumPorts, scan[NumPorts])
  BY <1>3, <1>1
<1> QED BY <1>4 DEF EbestPort

-----------------------------------------------------------------------------
(* What a round of the state decision works on. *)

\* An Erbest that names this clock as grandmaster is worse than D0.
LEMMA OwnDataSetWins ==
  ASSUME NEW d \in DataSet, d.gm = Self, d.attrs = OwnAttrs,
         d.sender # d.receiver, d.sender.port > 0,
         d.sender.clock = Self \/ d.steps > 0
  PROVE  BetterThan(D0, d)
<1>1. /\ Self \in Nat /\ OwnAttrs \in Attributes
      /\ d.steps \in Nat /\ d.sender \in PortId /\ d.receiver \in PortId
      /\ d.sender.clock \in Nat /\ d.sender.port \in Nat
  BY StackAssumption DEF DataSet, PortId
<1>2. D0 \in DataSet /\ D0.gm = Self /\ D0.steps = 0
      /\ D0.sender = [clock |-> Self, port |-> 0] /\ D0.receiver.port = 0
  BY <1>1 DEF D0, DataSet, PortId, OwnPort
<1>3. CompareClockDS(D0, d) = CompareTopology(D0, d)
  BY <1>2, NoDSAssumption DEF CompareClockDS
<1>4. CASE d.steps > 1
  BY <1>1, <1>2, <1>3, <1>4 DEF CompareTopology, BetterThan
<1>5. CASE d.steps = 1
  <2>1. OneStepCloser(D0, d) \in Better
    BY <1>2, OneStepCloserVerdict
  <2>2. CompareTopology(D0, d) = OneStepCloser(D0, d)
    BY <1>1, <1>2, <1>5 DEF CompareTopology
  <2> QED BY <2>1, <2>2, <1>3 DEF BetterThan, Better
<1>6. CASE d.steps = 0
  <2>1. /\ Path(D0) = <<Self, 0, 0>>
        /\ Path(d) = <<Self, d.sender.port, d.receiver.port>>
    BY <1>2, <1>6 DEF Path
  <2>2. LexLess(Path(D0), Path(d)) /\ ~LexLess(Path(d), Path(D0))
    BY <1>1, <2>1 DEF LexLess
  <2>3. CompareTopology(D0, d) = "A_BETTER_B_BY_TOPO"
    BY <1>2, <1>6, <2>2 DEF CompareTopology
  <2> QED BY <2>3, <1>3 DEF BetterThan
<1> QED BY <1>1, <1>4, <1>5, <1>6

\* The Erbests of a round, and what else is known of them.
Foreign(erb) ==
  /\ Round(erb, NumPorts)
  /\ \A p \in Port : erb[p] # NoDS =>
       /\ erb[p] \in DataSet
       /\ erb[p].sender.port > 0
       /\ erb[p].gm = Self => BetterThan(D0, erb[p])

\* What the foreign master data sets of a round answer satisfies Foreign.
LEMMA ErbestsForeign ==
  ASSUME NEW heard \in ErbestMessages
  PROVE  Foreign(Erbests(heard))
<1> DEFINE erb == Erbests(heard)
<1>1. \A p \in Port : /\ p \in Nat \ {0}
                      /\ OwnPort(p) \in PortId /\ OwnPort(p).port = p
  BY StackAssumption DEF Port, OwnPort, PortId
<1>2. ASSUME NEW p \in Port, erb[p] # NoDS
      PROVE  /\ heard[p] \in Messages /\ heard[p] \in Message
             /\ heard[p].sender # OwnPort(p)
             /\ erb[p] = Received(heard[p], OwnPort(p))
             /\ heard[p] # NoDS
  BY <1>2, StackAssumption, NoDSAssumption DEF Erbests, Received, ErbestMessages
<1>3. ASSUME NEW p \in Port, erb[p] # NoDS
      PROVE  /\ erb[p] \in DataSet
             /\ erb[p].gm = heard[p].gm /\ erb[p].attrs = heard[p].attrs
             /\ erb[p].sender # erb[p].receiver
             /\ erb[p].receiver.port = p
             /\ erb[p].sender.port > 0
             /\ erb[p].gm = Self => /\ erb[p].attrs = OwnAttrs
                                    /\ \/ erb[p].sender.clock = Self
                                       \/ erb[p].steps > 0
  <2>1. /\ heard[p] \in Messages /\ heard[p] \in Message
        /\ heard[p].sender # OwnPort(p) /\ heard[p] # NoDS
        /\ OwnPort(p) \in PortId /\ OwnPort(p).port = p
    BY <1>1, <1>2, <1>3
  <2> DEFINE d == Received(heard[p], OwnPort(p))
  <2>2. /\ d.gm = heard[p].gm /\ d.attrs = heard[p].attrs
        /\ d.steps = heard[p].steps /\ d.sender = heard[p].sender
        /\ d.receiver = OwnPort(p)
    BY <2>1 DEF Received
  <2>3. d \in DataSet
    BY <2>1 DEF DataSet, Message, Received
  <2>4. /\ d.sender.port > 0
        /\ d.gm = Self => /\ d.attrs = OwnAttrs
                          /\ d.sender.clock = Self \/ d.steps > 0
    BY <2>1, <2>2, MessagesAssumption
  <2>5. erb[p] = d
    BY <1>2, <1>3
  <2> HIDE DEF d, erb
  <2> QED BY <2>1, <2>2, <2>3, <2>4, <2>5
<1>4. ASSUME NEW p \in Port, NEW q \in Port,
             p # q, erb[p] # NoDS, erb[q] # NoDS
      PROVE  Alike(erb[p], erb[q])
  <2>1. erb[p].gm = erb[q].gm => erb[p].attrs = erb[q].attrs
    <3>1. /\ heard[p] \in Messages /\ heard[q] \in Messages
          /\ erb[p].gm = heard[p].gm /\ erb[p].attrs = heard[p].attrs
          /\ erb[q].gm = heard[q].gm /\ erb[q].attrs = heard[q].attrs
      BY <1>2, <1>3, <1>4
    <3> QED BY <3>1, MessagesAssumption
  <2> QED BY <2>1, <1>3, <1>4 DEF Alike
<1>5. Round(erb, NumPorts)
  BY <1>3, <1>4 DEF Round, Port
<1>6. \A p \in Port : erb[p] # NoDS /\ erb[p].gm = Self => BetterThan(D0, erb[p])
  BY <1>3, OwnDataSetWins
<1> QED BY <1>3, <1>5, <1>6 DEF Foreign

-----------------------------------------------------------------------------
(* The decisions of a round. *)

\* The clock is or stays its own grandmaster.
Leads(ebest) == GrandmasterOnly \/ BetterThan(D0, ebest)

\* Without any Erbest, D0 is better than Ebest.
LEMMA NothingHeard == BetterThan(D0, NoDS)
BY DEF BetterThan, CompareClockDS

\* A clock that does not lead has heard another clock's grandmaster.
LEMMA EbestHeard ==
  ASSUME NEW erb, Foreign(erb), ~Leads(EbestOf(erb, EbestPort(erb)))
  PROVE  /\ EbestPort(erb) \in Port
         /\ EbestOf(erb, EbestPort(erb)) = erb[EbestPort(erb)]
         /\ erb[EbestPort(erb)] # NoDS
         /\ erb[EbestPort(erb)] \in DataSet
         /\ erb[EbestPort(erb)].sender.port > 0
         /\ erb[EbestPort(erb)].gm # Self
<1> DEFINE b == EbestPort(erb)
<1>1. BestOf(erb, NumPorts, b)
  BY EbestPortIsBest DEF Foreign
<1>2. b # 0
  BY NothingHeard DEF Leads, EbestOf
<1>3. b \in Port /\ erb[b] # NoDS /\ EbestOf(erb, b) = erb[b]
  BY <1>1, <1>2, StackAssumption DEF BestOf, Port, EbestOf
<1> QED BY <1>3 DEF Foreign, Leads

\* The comparisons of Ebest with the other Erbests never fail the assertion.
LEMMA NoAssertionFails ==
  ASSUME NEW erb, Foreign(erb)
  PROVE  ~AssertionFails(erb, EbestPort(erb))
<1>1. BestOf(erb, NumPorts, EbestPort(erb))
  BY EbestPortIsBest DEF Foreign
<1>2. ASSUME NEW p \in Port \ {EbestPort(erb)}, erb[p] # NoDS
      PROVE  ~WorseThan(EbestOf(erb, EbestPort(erb)), erb[p])
  <2>1. BetterThan(EbestOf(erb, EbestPort(erb)), erb[p])
    BY <1>1, <1>2 DEF BestOf, Port
  <2> QED BY <2>1 DEF BetterThan, WorseThan
<1> QED BY <1>2 DEF AssertionFails

\* A clock that leads has no slave port, another one exactly that of Ebest.
LEMMA DecisionsOfRound ==
  ASSUME NEW erb, Foreign(erb), NEW b, b = EbestPort(erb), NEW p \in Port
  PROVE  /\ StateDecision(p, erb, b) \in Decisions
         /\ StateDecision(p, erb, b) = "LIST" => portState[p] = "LISTENING"
         /\ Leads(EbestOf(erb, b))
              => StateDecision(p, erb, b) \in {"LIST", "M1", "M2", "P1"}
         /\ ~Leads(EbestOf(erb, b)) /\ p = b
              => StateDecision(p, erb, b) = "S1"
         /\ ~Leads(EbestOf(erb, b)) /\ p # b
              => StateDecision(p, erb, b) \in {"LIST", "P2", "M3"}
<1>1. ~Leads(EbestOf(erb, b)) => erb[b] # NoDS
  BY EbestHeard
<1> QED BY <1>1 DEF StateDecision, Leads, Decisions

-----------------------------------------------------------------------------
(* The inductive invariant. *)

\* OneSlavePort, said of pairs of ports.
SlavesAgree ==
  /\ \A p \in SlavePorts, q \in SlavePorts : p = q
  /\ SlavePorts # {} => servo

\* PrimaryNeverSlave without the constant's definition.
LeaderNeverSlave ==
  GrandmasterOnly => SlavePorts = {} /\ ~servo /\ parentDS = OwnParent

Timed == \A p \in Port : TimersOf(portState[p], active[p])

IInv ==
  /\ TypeOK
  /\ NeverAborted
  /\ InitPhase
  /\ Timed
  /\ SlavesAgree
  /\ ServoFollowsParent
  /\ LeaderNeverSlave

\* The invariant holds once the stack has been initialised.
LEMMA InitIInv == Init => IInv
<1> SUFFICES ASSUME Init PROVE IInv
  OBVIOUS
<1> USE DEF Init
<1>1. OwnParent \in [parentPort : PortId, gm : Nat, attrs : Attributes]
  BY StackAssumption DEF OwnParent, OwnPort, PortId
<1>2. TypeOK
  <2>1. 0 \in 0 .. (StepsModulus - 1)
    BY StackAssumption
  <2> QED BY <1>1, <2>1 DEF TypeOK, States
<1>3. NeverAborted /\ InitPhase /\ ServoFollowsParent
  BY DEF NeverAborted, InitPhase, ServoFollowsParent
<1>4. Timed
  BY DEF Timed, TimersOf, Expecting, Inactive
<1>5. SlavePorts = {}
  BY DEF SlavePorts
<1> QED BY <1>2, <1>3, <1>4, <1>5 DEF IInv, SlavesAgree, LeaderNeverSlave

-----------------------------------------------------------------------------
(* Steps that change port states. *)

\* A started event has the span of a timeout, one that goes on its own.
LEMMA ScheduleType ==
  ASSUME TypeOK, NEW timeout \in [Port -> Nat], ScheduleQualification(timeout)
  PROVE  qualSpan' \in [Port -> Nat]
BY DEF ScheduleQualification, TypeOK

\* ChangeStates keeps the types, and the timers with the states.
LEMMA ChangeStatesTimed ==
  ASSUME TypeOK, Timed, NEW next \in [Port -> States],
         NEW timeout \in [Port -> Nat], ChangeStates(next, timeout)
  PROVE  /\ portState' = next
         /\ portState' \in [Port -> States]
         /\ active' \in [Port -> SUBSET Services]
         /\ qualSpan' \in [Port -> Nat]
         /\ Timed'
<1>1. portState' = next
      /\ active' = [p \in Port |-> Switch(active[p], portState[p], next[p])]
  BY DEF ChangeStates
<1>2. active' \in [Port -> SUBSET Services]
  <2>1. \A p \in Port : Switch(active[p], portState[p], next[p])
                          \in SUBSET Services
    BY SwitchType DEF TypeOK
  <2> QED BY <1>1, <2>1
<1>3. ASSUME NEW p \in Port
      PROVE  TimersOf(portState'[p], active'[p])
  <2>1. TimersOf(next[p], Switch(active[p], portState[p], next[p]))
    BY SwitchKeepsTimers DEF TypeOK, Timed
  <2> QED BY <1>1, <2>1
<1>4. Timed'
  BY <1>3 DEF Timed
<1>5. qualSpan' \in [Port -> Nat]
  BY ScheduleType DEF ChangeStates
<1> QED BY <1>1, <1>2, <1>4, <1>5

\* The same for a step of one port.
LEMMA ChangePortTimed ==
  ASSUME TypeOK, Timed, NEW p \in Port, NEW new \in States,
         NEW services \in SUBSET Services, TimersOf(new, services),
         portState' = [portState EXCEPT ![p] = new],
         active' = [active EXCEPT ![p] = services]
  PROVE  /\ portState' \in [Port -> States]
         /\ active' \in [Port -> SUBSET Services]
         /\ Timed'
<1>1. portState' \in [Port -> States] /\ active' \in [Port -> SUBSET Services]
  BY DEF TypeOK
<1>2. ASSUME NEW q \in Port
      PROVE  TimersOf(portState'[q], active'[q])
  <2>1. CASE q = p
    BY <2>1 DEF TypeOK
  <2>2. CASE q # p
    BY <2>2 DEF TypeOK, Timed
  <2> QED BY <2>1, <2>2
<1> QED BY <1>1, <1>2 DEF Timed

\* StopInitialize keeps the invariant; its error is never thrown, since all
\* ports are INITIALIZING while an EndInit event is scheduled.
LEMMA EndInitStep ==
  ASSUME IInv, EndInit
  PROVE  IInv'
<1>1. endInit = 1 /\ ~deciding
  <2>1. endInit > 0 /\ endInit = IF deciding THEN 0 ELSE 1
    BY DEF IInv, InitPhase, EndInit
  <2>2. CASE deciding
    BY <2>1, <2>2
  <2>3. CASE ~deciding
    BY <2>1, <2>3
  <2> QED BY <2>2, <2>3
<1>2. \A p \in Port : portState[p] = "INITIALIZING"
  BY <1>1 DEF IInv, InitPhase
<1> DEFINE next == [p \in Port |-> "LISTENING"]
<1>3. /\ ChangeStates(next, qualN) /\ deciding' = TRUE /\ endInit' = 0
      /\ UNCHANGED <<qualN, clockVars, aborted>>
  <2>1. endInit' = endInit - 1
    BY DEF EndInit
  <2>2. endInit' = 0
    BY <1>1, <2>1
  <2> QED BY <1>2, <2>2 DEF EndInit
<1>4. next \in [Port -> States] /\ qualN \in [Port -> Nat]
  BY DEF States, IInv, TypeOK
<1>5. /\ portState' = next /\ portState' \in [Port -> States]
      /\ active' \in [Port -> SUBSET Services] /\ Timed'
      /\ qualSpan' \in [Port -> Nat]
  BY <1>3, <1>4, ChangeStatesTimed DEF IInv
<1>6. TypeOK'
  BY <1>3, <1>5 DEF IInv, TypeOK, clockVars
<1>7. SlavePorts' = {}
  BY <1>5 DEF SlavePorts
<1>8. SlavesAgree' /\ ServoFollowsParent' /\ LeaderNeverSlave'
  <2>1. SlavePorts = {}
    BY <1>2 DEF SlavePorts
  <2> QED BY <1>3, <1>7
          DEF IInv, SlavesAgree, ServoFollowsParent, LeaderNeverSlave, clockVars,
              GrandmasterOnly
<1>9. NeverAborted' /\ InitPhase'
  BY <1>3, <1>5 DEF IInv, NeverAborted, InitPhase
<1> QED BY <1>5, <1>6, <1>8, <1>9 DEF IInv

\* FAULT_DETECTED keeps the invariant.
LEMMA FaultDetectedStep ==
  ASSUME IInv, NEW ports \in FaultScope, FaultDetected(ports)
  PROVE  IInv'
<1> DEFINE next == [p \in Port |-> IF p \in ports THEN StateAfterFault(portState[p])
                                                   ELSE portState[p]]
<1>1. /\ ChangeStates(next, qualN)
      /\ UNCHANGED <<qualN, clockVars, initVars, aborted>>
  BY DEF FaultDetected
<1>2. next \in [Port -> States] /\ qualN \in [Port -> Nat]
  BY DEF StateAfterFault, States, IInv, TypeOK
<1>3. /\ portState' = next /\ portState' \in [Port -> States]
      /\ active' \in [Port -> SUBSET Services] /\ Timed'
      /\ qualSpan' \in [Port -> Nat]
  BY <1>1, <1>2, ChangeStatesTimed DEF IInv
<1>4. TypeOK'
  BY <1>1, <1>3 DEF IInv, TypeOK, clockVars, initVars
<1>5. \A p \in Port : \/ portState'[p] = portState[p]
                      \/ portState'[p] = "FAULTY" /\ portState[p] # "INITIALIZING"
  BY <1>3 DEF StateAfterFault
<1>6. SlavePorts' \subseteq SlavePorts
  BY <1>5 DEF SlavePorts
<1>7. SlavesAgree' /\ ServoFollowsParent' /\ LeaderNeverSlave'
  BY <1>1, <1>6 DEF IInv, SlavesAgree, ServoFollowsParent, LeaderNeverSlave,
                    clockVars, GrandmasterOnly
<1>8. NeverAborted' /\ InitPhase'
  BY <1>1, <1>5 DEF IInv, NeverAborted, InitPhase, initVars
<1> QED BY <1>3, <1>4, <1>7, <1>8 DEF IInv

\* FAULT_CLEARED keeps the invariant: a port is only FAULTY when no EndInit
\* event is scheduled, so that StartInitialize schedules the only one.
LEMMA FaultClearedStep ==
  ASSUME IInv, NEW ports \in FaultScope, FaultCleared(ports)
  PROVE  IInv'
<1> DEFINE next == [p \in Port |-> "INITIALIZING"]
<1>1. /\ ChangeStates(next, qualN) /\ deciding' = FALSE /\ endInit' = endInit + 1
      /\ UNCHANGED <<qualN, clockVars, aborted>>
  BY DEF FaultCleared, StartInitialize
<1>2. endInit = 0
  <2>1. PICK p \in Port : portState[p] = "FAULTY"
    BY DEF FaultCleared, FaultScope
  <2>2. deciding
    BY <2>1 DEF IInv, InitPhase
  <2> QED BY <2>2 DEF IInv, InitPhase
<1>3. next \in [Port -> States] /\ qualN \in [Port -> Nat]
  BY DEF States, IInv, TypeOK
<1>4. /\ portState' = next /\ portState' \in [Port -> States]
      /\ active' \in [Port -> SUBSET Services] /\ Timed'
      /\ qualSpan' \in [Port -> Nat]
  BY <1>1, <1>3, ChangeStatesTimed DEF IInv
<1>5. TypeOK'
  <2>1. endInit' = endInit + 1 /\ deciding' = FALSE
    BY <1>1
  <2>2. endInit' \in Nat
    BY <1>2, <2>1
  <2> QED BY <1>1, <1>4, <2>1, <2>2 DEF IInv, TypeOK, clockVars
<1>6. SlavePorts' = {}
  BY <1>4 DEF SlavePorts
<1>7. SlavesAgree' /\ ServoFollowsParent' /\ LeaderNeverSlave'
  BY <1>1, <1>6 DEF IInv, SlavesAgree, ServoFollowsParent, LeaderNeverSlave,
                    clockVars, GrandmasterOnly
<1>8. NeverAborted' /\ InitPhase'
  BY <1>1, <1>2, <1>4 DEF IInv, NeverAborted, InitPhase
<1> QED BY <1>4, <1>5, <1>7, <1>8 DEF IInv

\* A step of one port that leaves the clock's data sets alone, and after which
\* the port is a slave or INITIALIZING only if it was one before.
LEMMA PortStep ==
  ASSUME IInv, NEW p \in Port, NEW new \in States,
         NEW services \in SUBSET Services, TimersOf(new, services),
         portState' = [portState EXCEPT ![p] = new],
         active' = [active EXCEPT ![p] = services],
         ScheduleQualification(qualN),
         UNCHANGED <<qualN, clockVars, initVars, aborted>>,
         new = "INITIALIZING" <=> portState[p] = "INITIALIZING",
         new \in {"UNCALIBRATED", "SLAVE"}
           => portState[p] \in {"UNCALIBRATED", "SLAVE"}
  PROVE  IInv'
<1>1. /\ portState' \in [Port -> States]
      /\ active' \in [Port -> SUBSET Services] /\ Timed'
  BY ChangePortTimed DEF IInv
<1>2. \A q \in Port : portState'[q] = IF q = p THEN new ELSE portState[q]
  BY DEF IInv, TypeOK
<1>3. TypeOK'
  <2>1. qualN \in [Port -> Nat] /\ TypeOK
    BY DEF IInv, TypeOK
  <2>2. qualSpan' \in [Port -> Nat]
    BY <2>1, ScheduleType
  <2> QED BY <1>1, <2>2 DEF IInv, TypeOK, clockVars, initVars
<1>4. SlavePorts' \subseteq SlavePorts
  BY <1>2 DEF SlavePorts
<1>5. SlavesAgree' /\ ServoFollowsParent' /\ LeaderNeverSlave'
  BY <1>4 DEF IInv, SlavesAgree, ServoFollowsParent, LeaderNeverSlave,
              clockVars, GrandmasterOnly
<1>6. NeverAborted' /\ InitPhase'
  BY <1>2 DEF IInv, NeverAborted, InitPhase, initVars
<1> QED BY <1>1, <1>3, <1>5, <1>6 DEF IInv

\* The announce receipt timeout keeps the invariant.
LEMMA AnnounceTimeoutStep ==
  ASSUME IInv, NEW p \in Port, AnnounceTimeout(p)
  PROVE  IInv'
<1> DEFINE s == portState[p]
           left == active[p] \ {"AnnounceTimeout"}
           new == StateAfterAnnounceTimeout(s)
           services == Switch(left, s, new)
<1>1. /\ "AnnounceTimeout" \in active[p] /\ TimersOf(s, active[p])
      /\ s \in States /\ active[p] \in SUBSET Services
  BY DEF AnnounceTimeout, IInv, Timed, TypeOK
<1>2. s \in Expecting
  BY <1>1 DEF TimersOf
<1>3. /\ new \in {"LISTENING", "MASTER"}
      /\ new = s => s = "LISTENING" /\ (SlaveOnly \/ Transparent)
  BY <1>2 DEF StateAfterAnnounceTimeout, Expecting
<1>4. new \in States /\ left \in SUBSET Services
  BY <1>1, <1>3 DEF States
<1>5. TimersOf(new, services)
  <2>1. CASE new = s
    <3>1. TimersOf(s, left)
      BY <1>1, <1>3, <2>1 DEF TimersOf, Expecting, DelayServices, Inactive
    <3> QED BY <3>1, <2>1 DEF Switch
  <2>2. CASE new # s
    BY <1>1, <1>4, <2>2, SwitchTimers
  <2> QED BY <2>1, <2>2
<1>6. services \in SUBSET Services
  BY <1>4, SwitchType
<1>7. /\ portState' = [portState EXCEPT ![p] = new]
      /\ active' = [active EXCEPT ![p] = services]
      /\ ScheduleQualification(qualN)
      /\ UNCHANGED <<qualN, clockVars, initVars, aborted>>
  BY DEF AnnounceTimeout, ChangeState
<1>8. s # "INITIALIZING"
  BY <1>2 DEF Expecting
<1> HIDE DEF new, services
<1> QED BY <1>3, <1>4, <1>5, <1>6, <1>7, <1>8, PortStep

\* The qualification timeout keeps the invariant; it finds the port in
\* PRE_MASTER, never in UNCALIBRATED.
LEMMA QualificationTimeoutStep ==
  ASSUME IInv, NEW p \in Port, QualificationTimeout(p)
  PROVE  IInv'
<1> DEFINE s == portState[p]
           left == active[p] \ {"QualificationTimeout"}
           services == Switch(left, s, "MASTER")
<1>1. /\ "QualificationTimeout" \in active[p] /\ TimersOf(s, active[p])
      /\ s \in States /\ active[p] \in SUBSET Services
  BY DEF QualificationTimeout, IInv, Timed, TypeOK
<1>2. s = "PRE_MASTER"
  BY <1>1 DEF TimersOf
<1>3. StateAfterQualificationTimeout(s) = "MASTER" /\ "MASTER" \in States
  BY <1>2 DEF StateAfterQualificationTimeout, States
<1>4. TimersOf("MASTER", services)
  BY <1>1, <1>2, <1>3, SwitchTimers
<1>5. services \in SUBSET Services
  BY <1>1, <1>3, SwitchType
<1>6. /\ portState' = [portState EXCEPT ![p] = "MASTER"]
      /\ active' = [active EXCEPT ![p] = services]
      /\ ScheduleQualification(qualN)
      /\ UNCHANGED <<qualN, clockVars, initVars, aborted>>
  BY <1>3 DEF QualificationTimeout, ChangeState
<1> HIDE DEF services
<1> QED BY <1>2, <1>3, <1>4, <1>5, <1>6, PortStep

\* A Sync or Follow_Up message keeps the invariant.
LEMMA HandleSyncStep ==
  ASSUME IInv, NEW p \in Port, NEW source \in Neighbours,
         NEW kind \in SyncKinds, NEW within \in BOOLEAN,
         HandleSync(p, source, kind, within)
  PROVE  IInv'
<1> DEFINE s == portState[p]
           synchronizes == /\ kind # "TWO_STEP"
                           /\ s \in {"UNCALIBRATED", "SLAVE"}
                           /\ source = parentDS.parentPort
           new == CASE synchronizes /\ within  -> "SLAVE"
                    [] synchronizes /\ ~within -> "UNCALIBRATED"
                    [] ~synchronizes           -> s
           kept == Switch(active[p], s, new)
           startsDelay == /\ kind # "FOLLOW_UP"
                          /\ DelayMechanism = "E2E"
                          /\ "DelayTrigger" \in kept
           services == IF startsDelay
                       THEN (kept \ {"DelayTrigger"}) \cup {"DelayInterval"}
                       ELSE kept
<1>1. TimersOf(s, active[p]) /\ s \in States /\ active[p] \in SUBSET Services
  BY DEF IInv, Timed, TypeOK
<1>2. /\ new \in States
      /\ new # s => /\ s \in {"UNCALIBRATED", "SLAVE"}
                    /\ new \in {"UNCALIBRATED", "SLAVE"}
  <2>1. CASE synchronizes /\ within
    <3>1. new = "SLAVE"
      BY <2>1
    <3> QED BY <2>1, <3>1 DEF States
  <2>2. CASE synchronizes /\ ~within
    <3>1. new = "UNCALIBRATED"
      BY <2>2
    <3> QED BY <2>2, <3>1 DEF States
  <2>3. CASE ~synchronizes
    <3>1. new = s
      BY <2>3
    <3> QED BY <1>1, <3>1
  <2> QED BY <2>1, <2>2, <2>3
<1>3. /\ portState' = [portState EXCEPT ![p] = new]
      /\ active' = [active EXCEPT ![p] = services]
      /\ ScheduleQualification(qualN)
      /\ UNCHANGED <<qualN, clockVars, initVars, aborted>>
  BY DEF HandleSync
<1> HIDE DEF new
<1>4. kept \in SUBSET Services /\ TimersOf(new, kept)
  BY <1>1, <1>2, SwitchType, SwitchKeepsTimers
<1> HIDE DEF kept
<1>5. services \in SUBSET Services /\ TimersOf(new, services)
  <2>1. CASE startsDelay
    BY <1>4, <2>1 DEF Services, TimersOf, DelayServices
  <2>2. CASE ~startsDelay
    BY <1>4, <2>2
  <2> QED BY <2>1, <2>2
<1> HIDE DEF services
<1> QED BY <1>2, <1>3, <1>5, PortStep

\* An Announce message keeps the invariant.
LEMMA HandleAnnounceStep ==
  ASSUME IInv, NEW p \in Port, NEW m \in Messages, HandleAnnounce(p, m)
  PROVE  IInv'
<1>1. /\ portState[p] = "SLAVE" /\ steps' = StepsFrom(m)
      /\ parentDS' = [parentPort |-> m.sender, gm |-> m.gm, attrs |-> m.attrs]
      /\ UNCHANGED <<portVars, servo, initVars, aborted>>
  BY DEF HandleAnnounce
<1>2. m \in Message /\ m.sender.port > 0
  BY StackAssumption, MessagesAssumption
<1>3. servo
  BY <1>1 DEF IInv, SlavesAgree, SlavePorts
<1>4. parentDS'.parentPort.port # OwnParent.parentPort.port
  BY <1>1, <1>2 DEF OwnParent, OwnPort
<1>5. steps' \in 0 .. (StepsModulus - 1)
  <2>1. m.steps \in Nat /\ StepsModulus \in Nat \ {0}
    BY <1>2, StackAssumption DEF Message
  <2> QED BY <1>1, <2>1 DEF StepsFrom
<1>6. TypeOK'
  BY <1>1, <1>2, <1>5 DEF IInv, TypeOK, portVars, initVars, Message
<1>7. ServoFollowsParent'
  BY <1>1, <1>3, <1>4 DEF ServoFollowsParent
<1>8. SlavesAgree' /\ LeaderNeverSlave'
  <2>1. SlavePorts' = SlavePorts
    BY <1>1 DEF SlavePorts, portVars
  <2>2. p \in SlavePorts
    BY <1>1 DEF SlavePorts
  <2> QED BY <1>1, <2>1, <2>2
          DEF IInv, SlavesAgree, LeaderNeverSlave, GrandmasterOnly
<1>9. NeverAborted' /\ InitPhase' /\ Timed'
  BY <1>1 DEF IInv, NeverAborted, InitPhase, Timed, portVars, initVars
<1> QED BY <1>6, <1>7, <1>8, <1>9 DEF IInv

-----------------------------------------------------------------------------
(* The state decision. *)

\* Among some ports there is a last one, which HandlePortStateDec sees last.
LEMMA LastPort ==
  ASSUME NEW S \in SUBSET Port, S # {}
  PROVE  \E p \in S : \A q \in S : q <= p
<1> DEFINE D == {NumPorts - p : p \in S}
<1>1. NumPorts \in Nat /\ \A p \in S : p \in Nat /\ NumPorts - p \in Nat
  BY StackAssumption DEF Port
<1>2. D \in SUBSET Nat /\ D # {}
  BY <1>1
<1>3. PICK n \in D : \A m \in D : n <= m
  BY <1>2, LeastElement
<1>4. PICK p \in S : n = NumPorts - p
  OBVIOUS
<1>5. \A q \in S : NumPorts - p <= NumPorts - q
  BY <1>3, <1>4
<1> QED BY <1>1, <1>5

\* A clock that leads keeps its data sets or becomes its own parent; another
\* one gets the data sets of Ebest.
LEMMA DataSetsOfRound ==
  ASSUME NEW erb, Foreign(erb), NEW b, b = EbestPort(erb), NEW dec,
         dec = [p \in Port |-> StateDecision(p, erb, b)],
         UpdateDataSets(dec, EbestOf(erb, b))
  PROVE  /\ Leads(EbestOf(erb, b)) =>
              \/ BecomeGrandMaster
              \/ UNCHANGED clockVars /\ \A p \in Port : dec[p] \notin {"M1", "M2"}
         /\ ~Leads(EbestOf(erb, b)) => BecomeSlave(EbestOf(erb, b))
<1> DEFINE deciders == {p \in Port : dec[p] \in {"M1", "M2", "S1"}}
           last == CHOOSE p \in deciders : \A q \in deciders : q <= p
           ebest == EbestOf(erb, b)
<1>1. \A p \in Port : /\ Leads(ebest) => dec[p] \in {"LIST", "M1", "M2", "P1"}
                      /\ ~Leads(ebest) /\ p = b => dec[p] = "S1"
                      /\ ~Leads(ebest) /\ p # b => dec[p] \in {"LIST", "P2", "M3"}
  BY DecisionsOfRound
<1>2. deciders # {} => last \in deciders
  <2>1. ASSUME deciders # {} PROVE \E p \in deciders : \A q \in deciders : q <= p
    BY <2>1, LastPort, Zenon
  <2> QED BY <2>1
<1>3. IF deciders = {} THEN UNCHANGED clockVars
      ELSE IF dec[last] = "S1" THEN BecomeSlave(ebest) ELSE BecomeGrandMaster
  BY DEF UpdateDataSets
<1>4. CASE Leads(ebest)
  <2>1. CASE deciders = {}
    BY <1>3, <1>4, <2>1
  <2>2. CASE deciders # {}
    <3>1. dec[last] # "S1"
      BY <1>1, <1>2, <1>4, <2>2
    <3> HIDE DEF last
    <3> QED BY <1>3, <1>4, <2>2, <3>1
  <2> QED BY <2>1, <2>2
<1>5. CASE ~Leads(ebest)
  <2>1. b \in Port
    BY <1>5, EbestHeard
  <2>2. deciders # {} /\ \A p \in deciders : dec[p] = "S1"
    BY <1>1, <1>5, <2>1
  <2>3. dec[last] = "S1"
    BY <1>2, <2>2
  <2> HIDE DEF last, deciders
  <2> QED BY <1>3, <1>5, <2>2, <2>3
<1> QED BY <1>4, <1>5

\* The states of all ports after a round.
LEMMA StatesOfRound ==
  ASSUME NEW s \in States, NEW d \in Decisions, NEW newMaster \in BOOLEAN,
         d = "LIST" => s = "LISTENING",
         NEW new, new = StateAfterDecision(s, d, newMaster)
  PROVE  /\ new \in States
         /\ s \in Inactive => new = s
         /\ s \notin Inactive => new \notin Inactive
         /\ new \in {"UNCALIBRATED", "SLAVE"} => d = "S1"
         /\ new = "SLAVE" => s = "SLAVE" /\ ~newMaster
         /\ new = "PRE_MASTER" => s \notin Inactive /\ d \in {"M1", "M2", "M3"}
<1>1. CASE s \in Inactive
  <2>1. new = s
    BY <1>1 DEF StateAfterDecision
  <2> QED BY <1>1, <2>1 DEF Inactive
<1>2. CASE s \notin Inactive /\ d = "LIST"
  <2>1. new = s
    BY <1>2 DEF StateAfterDecision
  <2> QED BY <1>2, <2>1 DEF Inactive
<1>3. CASE s \notin Inactive /\ d \in {"M1", "M2", "M3"}
  <2>1. new \in {"PASSIVE", "MASTER", "LISTENING", "PRE_MASTER"}
    BY <1>3 DEF StateAfterDecision
  <2> QED BY <1>3, <2>1 DEF Inactive, States
<1>4. CASE s \notin Inactive /\ d \in {"P1", "P2"}
  <2>1. new = "PASSIVE"
    BY <1>4 DEF StateAfterDecision, StateAfterPassive
  <2> QED BY <1>4, <2>1 DEF Inactive, States
<1>5. CASE s \notin Inactive /\ d = "S1"
  <2>1. new = StateAfterSlave(s, newMaster)
    BY <1>5 DEF StateAfterDecision
  <2>2. /\ new \in {"UNCALIBRATED", "SLAVE"}
        /\ new = "SLAVE" => s = "SLAVE" /\ ~newMaster
    BY <2>1 DEF StateAfterSlave
  <2> QED BY <1>5, <2>2 DEF Inactive, States
<1> QED BY <1>1, <1>2, <1>3, <1>4, <1>5 DEF Decisions

\* One interval more than some number is not zero.
LEMMA Successor == \A n \in Nat : n + 1 \in Nat /\ n + 1 # 0
OBVIOUS

\* A round of the state decision keeps the invariant.
LEMMA DecideStatesStep ==
  ASSUME IInv, NEW heard \in ErbestMessages, DecideStates(heard)
  PROVE  IInv'
<1> DEFINE erb == Erbests(heard)
           b == EbestPort(erb)
           ebest == EbestOf(erb, b)
           dec == [p \in Port |-> StateDecision(p, erb, b)]
           newMaster == ebest # NoDS /\ ebest.sender # parentDS.parentPort
           next == [p \in Port |->
                      StateAfterDecision(portState[p], dec[p], newMaster)]
<1>1. Foreign(erb) /\ ~AssertionFails(erb, b)
  BY ErbestsForeign, NoAssertionFails
<1>2. /\ deciding
      /\ UpdateDataSets(dec, ebest)
      /\ qualN' = [p \in Port |-> QualificationN(p, dec[p])]
      /\ ChangeStates(next, qualN')
      /\ UNCHANGED <<aborted, initVars>>
  BY <1>1 DEF DecideStates
<1>3. \A p \in Port :
        /\ dec[p] \in Decisions
        /\ dec[p] = "LIST" => portState[p] = "LISTENING"
        /\ Leads(ebest) => dec[p] \in {"LIST", "M1", "M2", "P1"}
        /\ ~Leads(ebest) /\ p = b => dec[p] = "S1"
        /\ ~Leads(ebest) /\ p # b => dec[p] \in {"LIST", "P2", "M3"}
  BY <1>1, DecisionsOfRound
<1>4. /\ Leads(ebest) =>
           \/ BecomeGrandMaster
           \/ UNCHANGED clockVars /\ \A p \in Port : dec[p] \notin {"M1", "M2"}
      /\ ~Leads(ebest) => BecomeSlave(ebest)
  BY <1>1, <1>2, DataSetsOfRound, Zenon
<1>5. ~Leads(ebest) => /\ ebest \in DataSet
                       /\ ebest.sender.port > 0
  BY <1>1, EbestHeard
<1> HIDE DEF erb, b, ebest, dec
<1>6. \A p \in Port :
        /\ next[p] \in States
        /\ portState[p] \in Inactive => next[p] = portState[p]
        /\ portState[p] \notin Inactive => next[p] \notin Inactive
        /\ next[p] \in {"UNCALIBRATED", "SLAVE"} => dec[p] = "S1"
        /\ next[p] = "PRE_MASTER" => /\ portState[p] \notin Inactive
                                     /\ dec[p] \in {"M1", "M2", "M3"}
  <2>1. newMaster \in BOOLEAN
    OBVIOUS
  <2> HIDE DEF newMaster
  <2>2. TAKE p \in Port
  <2>3. /\ portState[p] \in States /\ dec[p] \in Decisions
        /\ dec[p] = "LIST" => portState[p] = "LISTENING"
        /\ next[p] = StateAfterDecision(portState[p], dec[p], newMaster)
    BY <1>3 DEF IInv, TypeOK
  <2> HIDE DEF next
  <2> QED BY <2>1, <2>3, StatesOfRound
<1>7. next \in [Port -> States]
  BY <1>6
<1> HIDE DEF next
<1>8. /\ parentDS' \in [parentPort : PortId, gm : Nat, attrs : Attributes]
      /\ steps' \in 0 .. (StepsModulus - 1)
      /\ servo' \in BOOLEAN
      /\ ServoFollowsParent'
  <2>1. CASE BecomeSlave(ebest) /\ ~Leads(ebest)
    <3>1. /\ parentDS' = [parentPort |-> ebest.sender, gm |-> ebest.gm,
                          attrs |-> ebest.attrs]
          /\ servo' = TRUE /\ steps' = (ebest.steps + 1) % StepsModulus
      BY <2>1 DEF BecomeSlave, StepsFrom
    <3>2. /\ ebest.sender \in PortId /\ ebest.gm \in Nat
          /\ ebest.attrs \in Attributes /\ ebest.steps \in Nat
      BY <1>5, <2>1 DEF DataSet
    <3>3. StepsModulus \in Nat \ {0}
      BY StackAssumption
    <3>4. steps' \in 0 .. (StepsModulus - 1)
      BY <3>1, <3>2, <3>3
    <3>5. parentDS'.parentPort.port # OwnParent.parentPort.port
      BY <1>5, <2>1, <3>1 DEF OwnParent, OwnPort
    <3> QED BY <3>1, <3>2, <3>4, <3>5 DEF ServoFollowsParent
  <2>2. CASE BecomeGrandMaster
    <3>1. /\ OwnParent \in [parentPort : PortId, gm : Nat, attrs : Attributes]
          /\ 0 \in 0 .. (StepsModulus - 1)
      BY StackAssumption DEF OwnParent, OwnPort, PortId
    <3> QED BY <2>2, <3>1 DEF BecomeGrandMaster, ServoFollowsParent
  <2>3. CASE UNCHANGED clockVars
    BY <2>3 DEF clockVars, IInv, TypeOK, ServoFollowsParent
  <2> QED BY <1>4, <2>1, <2>2, <2>3
<1>9. qualN' \in [Port -> Nat]
  <2>1. \A p \in Port : QualificationN(p, dec[p]) \in Nat
    <3>1. steps' \in Nat
      BY <1>8, StackAssumption
    <3>2. steps' + 1 \in Nat
      BY <3>1, Successor
    <3> QED BY <3>2 DEF QualificationN, IInv, TypeOK
  <2> QED BY <1>2, <2>1
<1>10. /\ portState' = next /\ portState' \in [Port -> States]
       /\ active' \in [Port -> SUBSET Services] /\ Timed'
       /\ qualSpan' \in [Port -> Nat]
  BY <1>2, <1>7, <1>9, ChangeStatesTimed DEF IInv
<1>11. TypeOK'
  BY <1>2, <1>8, <1>9, <1>10 DEF IInv, TypeOK, initVars
<1>12. NeverAborted' /\ InitPhase'
  <2>1. \A p \in Port : portState[p] # "INITIALIZING"
    BY <1>2 DEF IInv, InitPhase
  <2>2. \A p \in Port : next[p] # "INITIALIZING"
    BY <1>6, <2>1 DEF Inactive
  <2> QED BY <1>2, <1>10, <2>1, <2>2 DEF IInv, NeverAborted, InitPhase, initVars
<1>13. Leads(ebest) => SlavePorts' = {}
  BY <1>3, <1>6, <1>10 DEF SlavePorts
<1>14. ~Leads(ebest) => SlavePorts' \subseteq {b} /\ servo' = TRUE
  BY <1>3, <1>4, <1>6, <1>10 DEF SlavePorts, BecomeSlave
<1>15. SlavesAgree'
  BY <1>13, <1>14 DEF SlavesAgree
<1>16. LeaderNeverSlave'
  <2>1. SUFFICES ASSUME GrandmasterOnly
                 PROVE  SlavePorts' = {} /\ ~servo' /\ parentDS' = OwnParent
    BY DEF LeaderNeverSlave, GrandmasterOnly, OwnParent
  <2>2. Leads(ebest)
    BY <2>1 DEF Leads
  <2>3. CASE BecomeGrandMaster
    BY <1>13, <2>2, <2>3 DEF BecomeGrandMaster
  <2>4. CASE UNCHANGED clockVars
    BY <1>13, <2>1, <2>2, <2>4 DEF clockVars, IInv, LeaderNeverSlave
  <2> QED BY <1>4, <2>2, <2>3, <2>4
<1> QED BY <1>8, <1>10, <1>11, <1>12, <1>15, <1>16 DEF IInv

-----------------------------------------------------------------------------
(* Theorems. *)

\* The strengthened invariant of the clock holds after every event.
THEOREM StackInvariance == Spec => []IInv
<1>1. IInv /\ [Next]_vars => IInv'
  <2> SUFFICES ASSUME IInv, [Next]_vars PROVE IInv'
    OBVIOUS
  <2>1. CASE EndInit
    BY <2>1, EndInitStep
  <2>2. CASE \E ports \in FaultScope : FaultDetected(ports)
    BY <2>2, FaultDetectedStep
  <2>3. CASE \E ports \in FaultScope : FaultCleared(ports)
    BY <2>3, FaultClearedStep
  <2>4. ASSUME NEW p \in Port, PortNext(p) PROVE IInv'
    <3>1. CASE AnnounceTimeout(p)
      BY <3>1, AnnounceTimeoutStep
    <3>2. CASE QualificationTimeout(p)
      BY <3>2, QualificationTimeoutStep
    <3>3. CASE \E m \in Messages : HandleAnnounce(p, m)
      BY <3>3, HandleAnnounceStep
    <3>4. CASE \E source \in Neighbours, kind \in SyncKinds, within \in BOOLEAN :
                 HandleSync(p, source, kind, within)
      BY <3>4, HandleSyncStep
    <3> QED BY <2>4, <3>1, <3>2, <3>3, <3>4 DEF PortNext
  <2>5. CASE \E heard \in ErbestMessages : DecideStates(heard)
    BY <2>5, DecideStatesStep
  <2>6. CASE UNCHANGED vars
    BY <2>6 DEF vars, portVars, clockVars, initVars, IInv, TypeOK, NeverAborted,
       InitPhase, Timed, SlavesAgree, SlavePorts, ServoFollowsParent,
       LeaderNeverSlave, GrandmasterOnly
  <2> QED BY <2>1, <2>2, <2>3, <2>4, <2>5, <2>6 DEF Next
<1> QED BY <1>1, InitIInv, PTL DEF Spec

\* Every variable keeps its type, in particular stepsRemoved its 16 bits when
\* the announced distances wrap (cPTP_Stack::UpdateDataSets).
THEOREM StackTypeCorrect == Spec => []TypeOK
<1>1. IInv => TypeOK
  BY DEF IInv
<1> QED BY <1>1, StackInvariance, PTL

\* No sequence of events makes StopInitialize throw or fails the assertion on
\* Ebest in cPTP_Port::GetStateDecision.
THEOREM StackNeverAborted == Spec => []NeverAborted
<1>1. IInv => NeverAborted
  BY DEF IInv
<1> QED BY <1>1, StackInvariance, PTL

\* The ports initialise together, and StartInitialize never schedules a second
\* EndInit event.
THEOREM StackInitPhase == Spec => []InitPhase
<1>1. IInv => InitPhase
  BY DEF IInv
<1> QED BY <1>1, StackInvariance, PTL

\* ChangeState leaves every port with exactly the timers of its state, whatever
\* sequence of states led there.
THEOREM StackTimersMatchState == Spec => []TimersMatchState
<1>1. IInv => TimersMatchState
  BY TimersOfPorts DEF IInv, Timed
<1> QED BY <1>1, StackInvariance, PTL

\* The decisions of a round and everything that follows leave at most one port
\* UNCALIBRATED or SLAVE, and then the clock servo is enabled.
THEOREM StackOneSlavePort == Spec => []OneSlavePort
<1>1. IInv => OneSlavePort
  <2> SUFFICES ASSUME IInv PROVE OneSlavePort
    OBVIOUS
  <2>1. Cardinality(SlavePorts) <= 1
    <3>1. CASE SlavePorts = {}
      BY <3>1, FS_EmptySet
    <3>2. CASE SlavePorts # {}
      <4>1. PICK p \in SlavePorts : SlavePorts = {p}
        BY <3>2 DEF IInv, SlavesAgree
      <4> QED BY <4>1, FS_Singleton
    <3> QED BY <3>1, <3>2
  <2> QED BY <2>1 DEF OneSlavePort, IInv, SlavesAgree
<1> QED BY <1>1, StackInvariance, PTL

\* The servo is enabled exactly while the parent is another clock's port.
THEOREM StackServoFollowsParent == Spec => []ServoFollowsParent
<1>1. IInv => ServoFollowsParent
  BY DEF IInv
<1> QED BY <1>1, StackInvariance, PTL

\* GetStateDecision never makes a clock of class 1 to 127 a slave.
THEOREM StackPrimaryNeverSlave == Spec => []PrimaryNeverSlave
<1>1. IInv => PrimaryNeverSlave
  BY DEF IInv, LeaderNeverSlave, PrimaryNeverSlave, GrandmasterOnly
<1> QED BY <1>1, StackInvariance, PTL

-----------------------------------------------------------------------------
(* Action properties. *)

\* After a round every slave port follows Ebest, another clock's data set, and
\* one that is still SLAVE follows the parent it had.
LEMMA SlaveAfterRound ==
  ASSUME IInv, NEW heard \in ErbestMessages, DecideStates(heard),
         NEW p \in Port, portState'[p] \in {"UNCALIBRATED", "SLAVE"}
  PROVE  /\ parentDS'.gm # Self
         /\ portState'[p] = "SLAVE" => parentDS'.parentPort = parentDS.parentPort
<1> DEFINE erb == Erbests(heard)
           b == EbestPort(erb)
           ebest == EbestOf(erb, b)
           dec == [q \in Port |-> StateDecision(q, erb, b)]
           newMaster == ebest # NoDS /\ ebest.sender # parentDS.parentPort
           next == [q \in Port |->
                      StateAfterDecision(portState[q], dec[q], newMaster)]
<1>1. Foreign(erb) /\ ~AssertionFails(erb, b)
  BY ErbestsForeign, NoAssertionFails
<1>2. UpdateDataSets(dec, ebest) /\ ChangeStates(next, qualN')
  BY <1>1 DEF DecideStates
<1>3. portState' = next
  BY <1>2 DEF ChangeStates
<1>4. /\ dec[p] \in Decisions
      /\ dec[p] = "LIST" => portState[p] = "LISTENING"
      /\ Leads(ebest) => dec[p] \in {"LIST", "M1", "M2", "P1"}
  BY <1>1, DecisionsOfRound
<1>5. ~Leads(ebest) => BecomeSlave(ebest)
  BY <1>1, <1>2, DataSetsOfRound, Zenon
<1>6. ~Leads(ebest) => ebest # NoDS /\ ebest.gm # Self
  BY <1>1, EbestHeard
<1>7. portState'[p] = StateAfterDecision(portState[p], dec[p], newMaster)
  BY <1>3
<1>8. newMaster \in BOOLEAN
  OBVIOUS
<1> HIDE DEF erb, b, ebest, dec, next
<1>9. dec[p] = "S1" /\ (portState'[p] = "SLAVE" => ~newMaster)
  <2> HIDE DEF newMaster
  <2>1. portState[p] \in States
    BY DEF IInv, TypeOK
  <2> QED BY <1>4, <1>7, <1>8, <2>1, StatesOfRound
<1>10. ~Leads(ebest)
  BY <1>4, <1>9
<1> QED BY <1>5, <1>6, <1>9, <1>10 DEF BecomeSlave

\* What the other actions do to ports and data sets.
LEMMA OtherSteps ==
  ASSUME IInv, [Next]_vars, ~ \E heard \in ErbestMessages : DecideStates(heard),
         NEW p \in Port
  PROVE  /\ portState'[p] \in {"UNCALIBRATED", "SLAVE"}
              => portState[p] \in {"UNCALIBRATED", "SLAVE"}
         /\ portState'[p] = "PRE_MASTER" => portState[p] = "PRE_MASTER"
         /\ parentDS' # parentDS
              => parentDS'.parentPort.clock = parentDS.gm
<1> DEFINE Goal == /\ portState'[p] \in {"UNCALIBRATED", "SLAVE"}
                        => portState[p] \in {"UNCALIBRATED", "SLAVE"}
                   /\ portState'[p] = "PRE_MASTER" => portState[p] = "PRE_MASTER"
                   /\ parentDS' # parentDS
                        => parentDS'.parentPort.clock = parentDS.gm
<1>1. CASE EndInit
  BY <1>1 DEF EndInit, ChangeStates, clockVars
<1>2. CASE \E ports \in FaultScope : FaultDetected(ports)
  BY <1>2 DEF FaultDetected, ChangeStates, clockVars, StateAfterFault
<1>3. CASE \E ports \in FaultScope : FaultCleared(ports)
  BY <1>3 DEF FaultCleared, StartInitialize, ChangeStates, clockVars
<1>4. ASSUME NEW q \in Port, PortNext(q) PROVE Goal
  <2>1. CASE AnnounceTimeout(q)
    <3>1. StateAfterAnnounceTimeout(portState[q]) \in {"LISTENING", "MASTER"}
      <4>1. portState[q] \in Expecting
        BY <2>1 DEF AnnounceTimeout, IInv, Timed, TimersOf
      <4> QED BY <4>1 DEF StateAfterAnnounceTimeout, Expecting
    <3> QED BY <2>1, <3>1 DEF AnnounceTimeout, ChangeState, clockVars, IInv, TypeOK
  <2>2. CASE QualificationTimeout(q)
    <3>1. portState[q] = "PRE_MASTER"
      BY <2>2 DEF QualificationTimeout, IInv, Timed, TimersOf
    <3>2. StateAfterQualificationTimeout(portState[q]) = "MASTER"
      BY <3>1 DEF StateAfterQualificationTimeout
    <3> QED BY <2>2, <3>2 DEF QualificationTimeout, ChangeState, clockVars, IInv,
                              TypeOK
  <2>3. CASE \E m \in Messages : HandleAnnounce(q, m)
    BY <2>3 DEF HandleAnnounce, portVars
  <2>4. ASSUME NEW source \in Neighbours, NEW kind \in SyncKinds,
               NEW within \in BOOLEAN, HandleSync(q, source, kind, within)
        PROVE  Goal
    <3> DEFINE synchronizes == /\ kind # "TWO_STEP"
                               /\ portState[q] \in {"UNCALIBRATED", "SLAVE"}
                               /\ source = parentDS.parentPort
               new == CASE synchronizes /\ within  -> "SLAVE"
                        [] synchronizes /\ ~within -> "UNCALIBRATED"
                        [] ~synchronizes           -> portState[q]
    <3>1. portState' = [portState EXCEPT ![q] = new] /\ UNCHANGED clockVars
      BY <2>4 DEF HandleSync
    <3>2. new # portState[q] => /\ portState[q] \in {"UNCALIBRATED", "SLAVE"}
                                /\ new \in {"UNCALIBRATED", "SLAVE"}
      <4>1. CASE synchronizes
        BY <4>1
      <4>2. CASE ~synchronizes
        BY <4>2
      <4> QED BY <4>1, <4>2
    <3> HIDE DEF new
    <3> QED BY <3>1, <3>2 DEF clockVars, IInv, TypeOK
  <2> QED BY <1>4, <2>1, <2>2, <2>3, <2>4 DEF PortNext
<1>5. CASE UNCHANGED vars
  BY <1>5 DEF vars, portVars, clockVars
<1> QED BY <1>1, <1>2, <1>3, <1>4, <1>5 DEF Next

\* Every other action calls StartTimeout with the timeout configured before, or
\* leaves the ports alone.
LEMMA OtherSchedules ==
  ASSUME [Next]_vars, ~ \E heard \in ErbestMessages : DecideStates(heard)
  PROVE  ScheduleQualification(qualN) \/ UNCHANGED portVars
<1>1. CASE EndInit
  BY <1>1 DEF EndInit, ChangeStates, portVars
<1>2. CASE \E ports \in FaultScope : FaultDetected(ports)
  BY <1>2 DEF FaultDetected, ChangeStates
<1>3. CASE \E ports \in FaultScope : FaultCleared(ports)
  BY <1>3 DEF FaultCleared, StartInitialize, ChangeStates
<1>4. CASE \E p \in Port : PortNext(p)
  BY <1>4 DEF PortNext, AnnounceTimeout, QualificationTimeout, ChangeState, HandleAnnounce,
              HandleSync
<1>5. CASE UNCHANGED vars
  BY <1>5 DEF vars
<1> QED BY <1>1, <1>2, <1>3, <1>4, <1>5 DEF Next

\* The event of a PRE_MASTER port goes on with its span; that of a port that
\* becomes PRE_MASTER starts with the timeout configured.
LEMMA ScheduledSpan ==
  ASSUME IInv, IInv', NEW timeout, ScheduleQualification(timeout),
         NEW p \in Port, portState'[p] = "PRE_MASTER"
  PROVE  qualSpan'[p] = IF portState[p] = "PRE_MASTER" THEN qualSpan[p] ELSE timeout[p]
<1>1. "QualificationTimeout" \in active'[p]
  BY DEF IInv, Timed, TimersOf
<1>2. "QualificationTimeout" \in active[p] <=> portState[p] = "PRE_MASTER"
  BY DEF IInv, Timed, TimersOf
<1> QED BY <1>1, <1>2 DEF ScheduleQualification

\* A round that makes a port PRE_MASTER has configured the timeout of the role it
\* leaves the clock in, whichever port has decided on the data sets.
LEMMA RoundQualifies ==
  ASSUME IInv, IInv', NEW heard \in ErbestMessages, DecideStates(heard),
         NEW p \in Port, portState'[p] = "PRE_MASTER"
  PROVE  /\ ScheduleQualification(qualN')
         /\ qualN'[p] = IF servo' THEN steps' + 1 ELSE 0
<1> DEFINE erb == Erbests(heard)
           b == EbestPort(erb)
           ebest == EbestOf(erb, b)
           dec == [q \in Port |-> StateDecision(q, erb, b)]
           newMaster == ebest # NoDS /\ ebest.sender # parentDS.parentPort
           next == [q \in Port |->
                      StateAfterDecision(portState[q], dec[q], newMaster)]
<1>1. Foreign(erb) /\ ~AssertionFails(erb, b)
  BY ErbestsForeign, NoAssertionFails
<1>2. /\ UpdateDataSets(dec, ebest)
      /\ qualN' = [q \in Port |-> QualificationN(q, dec[q])]
      /\ ChangeStates(next, qualN')
  BY <1>1 DEF DecideStates
<1>3. ScheduleQualification(qualN') /\ portState' = next
  BY <1>2 DEF ChangeStates
<1>4. /\ dec[p] \in Decisions
      /\ dec[p] = "LIST" => portState[p] = "LISTENING"
      /\ Leads(ebest) => dec[p] \in {"LIST", "M1", "M2", "P1"}
      /\ ~Leads(ebest) => dec[p] \in {"LIST", "P2", "M3", "S1"}
  BY <1>1, DecisionsOfRound
<1>5. /\ Leads(ebest) => \/ BecomeGrandMaster
                         \/ \A q \in Port : dec[q] \notin {"M1", "M2"}
      /\ ~Leads(ebest) => BecomeSlave(ebest)
  BY <1>1, <1>2, DataSetsOfRound, Zenon
<1>6. portState'[p] = StateAfterDecision(portState[p], dec[p], newMaster)
  BY <1>3
<1>7. newMaster \in BOOLEAN
  OBVIOUS
<1> HIDE DEF erb, b, ebest, dec, next
<1>8. portState[p] \notin Inactive /\ dec[p] \in {"M1", "M2", "M3"}
  <2> HIDE DEF newMaster
  <2>1. portState[p] \in States
    BY DEF IInv, TypeOK
  <2> QED BY <1>4, <1>6, <1>7, <2>1, StatesOfRound
<1>9. qualN'[p] = QualificationN(p, dec[p])
  BY <1>2
<1>10. CASE Leads(ebest)
  <2>1. dec[p] \in {"M1", "M2"} /\ ~servo'
    BY <1>4, <1>5, <1>8, <1>10 DEF BecomeGrandMaster
  <2> QED BY <1>3, <1>8, <1>9, <2>1 DEF QualificationN
<1>11. CASE ~Leads(ebest)
  <2>1. dec[p] = "M3" /\ servo'
    BY <1>4, <1>5, <1>8, <1>11 DEF BecomeSlave
  <2> QED BY <1>3, <1>8, <1>9, <2>1 DEF QualificationN
<1> QED BY <1>10, <1>11

\* A port becomes PRE_MASTER with a qualification event of the role that the
\* whole round has given the clock, however many ports have overwritten its data
\* sets and whatever an earlier round has passed to SetTimeout; while it stays
\* PRE_MASTER nothing starts the event again (ChangeState returns early).
THEOREM StackQualifiesForRoleAtEntry == Spec => QualifiesForRoleAtEntry
<1> DEFINE A == \A p \in Port :
       portState'[p] = "PRE_MASTER" =>
         qualSpan'[p] = IF portState[p] = "PRE_MASTER" THEN qualSpan[p]
                        ELSE IF servo' THEN steps' + 1 ELSE 0
<1>1. IInv /\ IInv' /\ [Next]_vars => [A]_vars
  <2> SUFFICES ASSUME IInv, IInv', [Next]_vars, NEW p \in Port,
                      portState'[p] = "PRE_MASTER"
               PROVE  qualSpan'[p] = IF portState[p] = "PRE_MASTER" THEN qualSpan[p]
                                     ELSE IF servo' THEN steps' + 1 ELSE 0
    OBVIOUS
  <2>1. CASE \E heard \in ErbestMessages : DecideStates(heard)
    <3>1. /\ ScheduleQualification(qualN')
          /\ qualN'[p] = IF servo' THEN steps' + 1 ELSE 0
      BY <2>1, RoundQualifies
    <3>2. qualSpan'[p] = IF portState[p] = "PRE_MASTER" THEN qualSpan[p] ELSE qualN'[p]
      BY <3>1, ScheduledSpan
    <3> QED BY <3>1, <3>2
  <2>2. CASE ~ \E heard \in ErbestMessages : DecideStates(heard)
    <3>1. portState[p] = "PRE_MASTER"
      BY <2>2, OtherSteps
    <3>2. CASE ScheduleQualification(qualN)
      BY <3>1, <3>2, ScheduledSpan
    <3>3. CASE UNCHANGED portVars
      BY <3>1, <3>3 DEF portVars
    <3> QED BY <2>2, <3>2, <3>3, OtherSchedules
  <2> QED BY <2>1, <2>2
<1> QED BY <1>1, StackInvariance, PTL DEF Spec, QualifiesForRoleAtEntry

\* A port that stays SLAVE keeps its parent, unless an Announce message from
\* the grandmaster's own port names another.
THEOREM StackNewParentUncalibrates == Spec => NewParentUncalibrates
<1> DEFINE A == \A p \in Port :
       /\ portState[p] = "SLAVE" /\ portState'[p] = "SLAVE"
       /\ parentDS'.parentPort # parentDS.parentPort
       => parentDS'.parentPort.clock = parentDS.gm
<1>1. IInv /\ [Next]_vars => [A]_vars
  <2> SUFFICES ASSUME IInv, [Next]_vars PROVE A
    OBVIOUS
  <2>1. CASE \E heard \in ErbestMessages : DecideStates(heard)
    BY <2>1, SlaveAfterRound
  <2>2. CASE ~ \E heard \in ErbestMessages : DecideStates(heard)
    BY <2>2, OtherSteps
  <2> QED BY <2>1, <2>2
<1> QED BY <1>1, StackInvariance, PTL DEF Spec, NewParentUncalibrates

\* No port becomes slave of a master whose grandmaster is this clock: D0 beats
\* every Erbest that names it.
THEOREM StackNeverOwnSlave == Spec => NeverOwnSlave
<1> DEFINE A == \A p \in Port :
       /\ portState[p] \notin {"UNCALIBRATED", "SLAVE"}
       /\ portState'[p] \in {"UNCALIBRATED", "SLAVE"}
       => parentDS'.gm # Self
<1>1. IInv /\ [Next]_vars => [A]_vars
  <2> SUFFICES ASSUME IInv, [Next]_vars PROVE A
    OBVIOUS
  <2>1. CASE \E heard \in ErbestMessages : DecideStates(heard)
    BY <2>1, SlaveAfterRound
  <2>2. CASE ~ \E heard \in ErbestMessages : DecideStates(heard)
    BY <2>2, OtherSteps
  <2> QED BY <2>1, <2>2
<1> QED BY <1>1, StackInvariance, PTL DEF Spec, NeverOwnSlave

-----------------------------------------------------------------------------
(* Faults and recoveries *)

RequestsTypeOK ==
  /\ mac \in [Port -> {"healthy", "down", "recovered"}]
  /\ requests \in Seq(PortRequ)

\* A fault on its way to the stack is that of a MAC that is down, or is followed
\* by the recovery of the same MAC; a recovery is that of a MAC that works.
RequestsMatchMacs ==
  \A i \in 1 .. Len(requests) :
    /\ requests[i].what = "FAULT" =>
         \/ mac[requests[i].port] = "down"
         \/ \E j \in 1 .. Len(requests) :
              i < j /\ requests[j] = [what |-> "RECOVERY", port |-> requests[i].port]
    /\ requests[i].what = "RECOVERY" => mac[requests[i].port] = "recovered"

FaultyForReason ==
  \A p \in Port : portState[p] = "FAULTY" =>
    \/ mac[p] = "down"
    \/ \E j \in 1 .. Len(requests) : requests[j] = [what |-> "RECOVERY", port |-> p]

FInv == TypeOK /\ RequestsTypeOK /\ RequestsMatchMacs /\ FaultyForReason

-----------------------------------------------------------------------------
(* The stack below the faults. *)

\* What the stack does under faults is what PtpStack allows it to do.
LEMMA StackSteps ==
  ASSUME RequestsTypeOK, [FaultsNext]_allVars
  PROVE  [Next]_vars
<1>1. ASSUME NEW p \in Port, MacFault(p) \/ MacRecovery(p) PROVE UNCHANGED vars
  BY <1>1 DEF MacFault, MacRecovery
<1>2. ASSUME NEW p \in Port, HandleFrame(p) PROVE Next
  BY <1>2 DEF HandleFrame, Next, PortNext
<1>3. CASE HandlePortRequ
  <2>1. Head(requests) \in PortRequ
    BY <1>3 DEF HandlePortRequ, RequestsTypeOK
  <2>2. {Head(requests).port} \in FaultScope
    BY <2>1 DEF PortRequ, FaultScope
  <2>3. \/ FaultDetected({Head(requests).port})
        \/ FaultCleared({Head(requests).port})
        \/ UNCHANGED vars
    BY <1>3 DEF HandlePortRequ
  <2> QED BY <2>2, <2>3 DEF Next
<1>4. CASE StackStep
  BY <1>4 DEF StackStep, Next, PortNext
<1>5. CASE UNCHANGED allVars
  BY <1>5 DEF allVars
<1> QED BY <1>1, <1>2, <1>3, <1>4, <1>5 DEF FaultsNext

\* MACs and requests keep their types.
LEMMA RequestsTyped ==
  ASSUME RequestsTypeOK, [FaultsNext]_allVars
  PROVE  RequestsTypeOK'
<1>1. ASSUME NEW p \in Port, MacFault(p) \/ MacRecovery(p) PROVE RequestsTypeOK'
  <2>1. PICK r \in PortRequ : requests' = Append(requests, r)
    BY <1>1 DEF MacFault, MacRecovery, PortRequ
  <2> QED BY <1>1, <2>1 DEF MacFault, MacRecovery, RequestsTypeOK
<1>2. ASSUME NEW p \in Port, HandleFrame(p) PROVE RequestsTypeOK'
  BY <1>2 DEF HandleFrame, faultVars, RequestsTypeOK
<1>3. CASE HandlePortRequ
  BY <1>3 DEF HandlePortRequ, RequestsTypeOK
<1>4. CASE StackStep
  BY <1>4 DEF StackStep, faultVars, RequestsTypeOK
<1>5. CASE UNCHANGED allVars
  BY <1>5 DEF allVars, faultVars, RequestsTypeOK
<1> QED BY <1>1, <1>2, <1>3, <1>4, <1>5 DEF FaultsNext

\* A clock with faults is a clock: all that is proved of PtpStack holds of it.
THEOREM FaultsImplementStack == FaultsSpec => Spec
<1>1. FaultsInit => Init /\ RequestsTypeOK
  BY DEF FaultsInit, RequestsTypeOK
<1>2. RequestsTypeOK /\ [FaultsNext]_allVars => RequestsTypeOK' /\ [Next]_vars
  BY StackSteps, RequestsTyped
<1> QED BY <1>1, <1>2, PTL DEF FaultsSpec, Spec

\* Faults and recoveries of single MACs, in any order and at any time, leave
\* the timers that run with the states of the ports.
THEOREM FaultsTimersMatchState == FaultsSpec => []TimersMatchState
BY FaultsImplementStack, StackTimersMatchState, PTL

-----------------------------------------------------------------------------
(* FAULTY ports. *)

\* Only a FAULT request makes a port FAULTY, and only a RECOVERY makes it leave.
LEMMA StackStepsKeepFaulty ==
  ASSUME TypeOK,
         StackStep \/ \E q \in Port : HandleFrame(q),
         NEW p \in Port
  PROVE  portState'[p] = "FAULTY" <=> portState[p] = "FAULTY"
<1>1. portState \in [Port -> States]
  BY DEF TypeOK
<1>2. CASE EndInit
  BY <1>2 DEF EndInit, ChangeStates
<1>3. ASSUME NEW q \in Port, AnnounceTimeout(q)
      PROVE  portState'[p] = "FAULTY" <=> portState[p] = "FAULTY"
  BY <1>1, <1>3 DEF AnnounceTimeout, ChangeState, StateAfterAnnounceTimeout
<1>4. ASSUME NEW q \in Port, QualificationTimeout(q)
      PROVE  portState'[p] = "FAULTY" <=> portState[p] = "FAULTY"
  BY <1>1, <1>4 DEF QualificationTimeout, ChangeState, StateAfterQualificationTimeout
<1>5. ASSUME NEW heard \in ErbestMessages, DecideStates(heard)
      PROVE  portState'[p] = "FAULTY" <=> portState[p] = "FAULTY"
  <2>1. \/ portState' = portState
        \/ \E dec, newMaster :
             portState'[p] = StateAfterDecision(portState[p], dec, newMaster)
               /\ dec \in Decisions
    <3> DEFINE erb == Erbests(heard)
               b == EbestPort(erb)
               d(q) == StateDecision(q, erb, b)
               nm == EbestOf(erb, b) # NoDS /\ EbestOf(erb, b).sender # parentDS.parentPort
    <3>1. d(p) \in Decisions
      BY DEF StateDecision, Decisions
    <3>2. \/ portState' = portState
          \/ portState' = [q \in Port |-> StateAfterDecision(portState[q], d(q), nm)]
      BY <1>5 DEF DecideStates, ChangeStates, portVars
    <3> QED BY <3>1, <3>2
  <2>2. ASSUME NEW dec \in Decisions, NEW newMaster
        PROVE  StateAfterDecision(portState[p], dec, newMaster) = "FAULTY"
                 <=> portState[p] = "FAULTY"
    BY <1>1 DEF StateAfterDecision, StateAfterPassive, StateAfterSlave, Inactive,
                States, Decisions
  <2> QED BY <2>1, <2>2
<1>6. ASSUME NEW q \in Port, HandleFrame(q)
      PROVE  portState'[p] = "FAULTY" <=> portState[p] = "FAULTY"
  <2>1. CASE \E m \in Messages : HandleAnnounce(q, m)
    BY <2>1 DEF HandleAnnounce, portVars
  <2>2. ASSUME NEW source \in Neighbours, NEW kind \in SyncKinds, NEW within \in BOOLEAN,
               HandleSync(q, source, kind, within)
        PROVE  portState'[p] = "FAULTY" <=> portState[p] = "FAULTY"
    BY <1>1, <2>2 DEF HandleSync
  <2> QED BY <1>6, <2>1, <2>2 DEF HandleFrame
<1> QED BY <1>2, <1>3, <1>4, <1>5, <1>6 DEF StackStep

\* Steps that change neither MACs nor requests.
LEMMA QuietStep ==
  ASSUME FInv, TypeOK', RequestsTypeOK',
         StackStep \/ \E q \in Port : HandleFrame(q)
  PROVE  FInv'
<1>1. UNCHANGED <<mac, requests>>
  BY DEF StackStep, HandleFrame, faultVars
<1>2. \A p \in Port : portState'[p] = "FAULTY" <=> portState[p] = "FAULTY"
  BY StackStepsKeepFaulty DEF FInv
<1> QED BY <1>1, <1>2 DEF FInv, RequestsMatchMacs, FaultyForReason

\* What a MAC reports comes after everything it has reported before.
LEMMA MacStep ==
  ASSUME FInv, TypeOK', RequestsTypeOK', NEW p \in Port,
         MacFault(p) \/ MacRecovery(p)
  PROVE  FInv'
<1> DEFINE n == Len(requests)
<1>1. n \in Nat /\ portState' = portState
  BY DEF FInv, RequestsTypeOK, MacFault, MacRecovery, vars, portVars
<1>2. PICK r \in PortRequ :
        /\ requests' = Append(requests, r) /\ r.port = p
        /\ r.what = "FAULT" => mac'[p] = "down"
        /\ r.what = "RECOVERY" =>
             mac'[p] = "recovered" /\ r = [what |-> "RECOVERY", port |-> p]
        /\ mac[p] # "recovered"
        /\ mac[p] = "down" => r.what = "RECOVERY"
        /\ \A q \in Port : q # p => mac'[q] = mac[q]
  <2>1. CASE MacFault(p)
    BY <2>1 DEF MacFault, PortRequ, FInv, RequestsTypeOK
  <2>2. CASE MacRecovery(p)
    BY <2>2 DEF MacRecovery, PortRequ, FInv, RequestsTypeOK
  <2> QED BY <2>1, <2>2
<1>3. /\ Len(requests') = n + 1 /\ requests'[n + 1] = r
      /\ \A i \in 1 .. n : requests'[i] = requests[i]
      /\ \A i \in 1 .. n : requests[i] \in PortRequ
  BY <1>2 DEF FInv, RequestsTypeOK
<1> HIDE DEF n
<1>4. RequestsMatchMacs'
  <2>1. SUFFICES ASSUME NEW i \in 1 .. (n + 1)
                 PROVE
                   /\ requests'[i].what = "FAULT" =>
                        \/ mac'[requests'[i].port] = "down"
                        \/ \E j \in 1 .. (n + 1) :
                             /\ i < j
                             /\ requests'[j] = [what |-> "RECOVERY", port |-> requests'[i].port]
                   /\ requests'[i].what = "RECOVERY" => mac'[requests'[i].port] = "recovered"
    BY <1>3 DEF RequestsMatchMacs
  <2>2. CASE i = n + 1
    BY <1>2, <1>3, <2>2
  <2>3. CASE i # n + 1
    <3>1. i \in 1 .. n /\ requests'[i] = requests[i] /\ requests[i].port \in Port
      BY <1>1, <1>3, <2>3 DEF PortRequ
    <3>2. CASE requests[i].what = "FAULT" /\ mac[requests[i].port] = "down"
      <4>1. CASE requests[i].port = p
        <5>1. requests'[n + 1] = [what |-> "RECOVERY", port |-> p] /\ i < n + 1
          BY <1>1, <1>2, <1>3, <3>1, <3>2, <4>1
        <5> QED BY <1>1, <3>1, <3>2, <4>1, <5>1
      <4>2. CASE requests[i].port # p
        BY <1>2, <3>1, <3>2, <4>2
      <4> QED BY <4>1, <4>2
    <3>3. CASE requests[i].what = "FAULT" /\ mac[requests[i].port] # "down"
      <4>1. PICK j \in 1 .. n : i < j /\ requests[j] = [what |-> "RECOVERY",
                                                       port |-> requests[i].port]
        BY <3>1, <3>3 DEF FInv, RequestsMatchMacs, n
      <4>2. j \in 1 .. (n + 1) /\ requests'[j] = requests[j]
        BY <1>1, <1>3, <4>1
      <4> QED BY <3>1, <3>3, <4>1, <4>2
    <3>4. CASE requests[i].what = "RECOVERY"
      <4>1. mac[requests[i].port] = "recovered"
        BY <3>1, <3>4 DEF FInv, RequestsMatchMacs, n
      <4>2. requests[i].port # p
        BY <1>2, <4>1
      <4> QED BY <1>2, <3>1, <3>4, <4>1, <4>2
    <3>5. requests[i].what \in {"FAULT", "RECOVERY"}
      BY <1>3, <3>1 DEF PortRequ
    <3> QED BY <3>1, <3>2, <3>3, <3>4, <3>5
  <2> QED BY <2>2, <2>3
<1>5. FaultyForReason'
  <2>1. SUFFICES ASSUME NEW q \in Port, portState[q] = "FAULTY"
                 PROVE  \/ mac'[q] = "down"
                        \/ \E j \in 1 .. (n + 1) :
                             requests'[j] = [what |-> "RECOVERY", port |-> q]
    BY <1>1, <1>3 DEF FaultyForReason
  <2>2. CASE mac[q] = "down" /\ q = p
    <3>1. requests'[n + 1] = [what |-> "RECOVERY", port |-> p] /\ n + 1 \in 1 .. (n + 1)
      BY <1>1, <1>2, <1>3, <2>2 DEF PortRequ
    <3> QED BY <2>2, <3>1
  <2>3. CASE mac[q] = "down" /\ q # p
    BY <1>2, <2>3
  <2>4. CASE mac[q] # "down"
    <3>1. PICK j \in 1 .. n : requests[j] = [what |-> "RECOVERY", port |-> q]
      BY <2>1, <2>4 DEF FInv, FaultyForReason, n
    <3>2. j \in 1 .. (n + 1) /\ requests'[j] = requests[j]
      BY <1>1, <1>3, <3>1
    <3> QED BY <3>1, <3>2
  <2> QED BY <2>2, <2>3, <2>4
<1> QED BY <1>4, <1>5 DEF FInv

\* A request that is handled is the first; those behind it stay.
LEMMA Handled ==
  ASSUME RequestsTypeOK, requests # <<>>, requests' = Tail(requests)
  PROVE  /\ Len(requests) \in Nat /\ Len(requests) >= 1
         /\ Head(requests) = requests[1]
         /\ Len(requests') = Len(requests) - 1
         /\ \A i \in 1 .. (Len(requests) - 1) : requests'[i] = requests[i + 1]
         /\ \A i \in 1 .. Len(requests) : requests[i] \in PortRequ
BY DEF RequestsTypeOK

\* The stack handles a request.  A port that becomes FAULTY by it has a reason:
\* its MAC is down, or the recovery comes after it.
LEMMA HandlePortRequStep ==
  ASSUME FInv, TypeOK', RequestsTypeOK', HandlePortRequ
  PROVE  FInv'
<1> DEFINE n == Len(requests)
           r == Head(requests)
<1>1. /\ n \in Nat /\ n >= 1 /\ r = requests[1] /\ Len(requests') = n - 1
      /\ \A i \in 1 .. (n - 1) : requests'[i] = requests[i + 1]
      /\ \A i \in 1 .. n : requests[i] \in PortRequ
      /\ mac' = mac
  BY Handled DEF HandlePortRequ, FInv
<1> HIDE DEF n
<1>2. RequestsMatchMacs'
  <2>1. SUFFICES ASSUME NEW i \in 1 .. (n - 1)
                 PROVE
                   /\ requests'[i].what = "FAULT" =>
                        \/ mac[requests'[i].port] = "down"
                        \/ \E j \in 1 .. (n - 1) :
                             /\ i < j
                             /\ requests'[j] = [what |-> "RECOVERY", port |-> requests'[i].port]
                   /\ requests'[i].what = "RECOVERY" => mac[requests'[i].port] = "recovered"
    BY <1>1 DEF RequestsMatchMacs
  <2>2. i + 1 \in 1 .. n /\ requests'[i] = requests[i + 1]
    BY <1>1
  <2>3. /\ requests[i + 1].what = "FAULT" =>
             \/ mac[requests[i + 1].port] = "down"
             \/ \E j \in 1 .. n :
                  i + 1 < j /\ requests[j] = [what |-> "RECOVERY",
                                             port |-> requests[i + 1].port]
        /\ requests[i + 1].what = "RECOVERY" => mac[requests[i + 1].port] = "recovered"
    BY <2>2 DEF FInv, RequestsMatchMacs, n
  <2>4. ASSUME NEW j \in 1 .. n, i + 1 < j
        PROVE  j - 1 \in 1 .. (n - 1) /\ i < j - 1 /\ requests'[j - 1] = requests[j]
    <3>1. j - 1 \in 1 .. (n - 1) /\ i < j - 1 /\ (j - 1) + 1 = j
      BY <1>1, <2>4
    <3> QED BY <1>1, <3>1
  <2> QED BY <2>2, <2>3, <2>4
<1>3. ASSUME NEW q \in Port, NEW j \in 1 .. n, 1 < j,
             requests[j] = [what |-> "RECOVERY", port |-> q]
      PROVE  \E i \in 1 .. (n - 1) : requests'[i] = [what |-> "RECOVERY", port |-> q]
  <2>1. j - 1 \in 1 .. (n - 1) /\ (j - 1) + 1 = j
    BY <1>1, <1>3
  <2>2. requests'[j - 1] = requests[j]
    BY <1>1, <2>1
  <2> QED BY <1>3, <2>1, <2>2
<1>4. FaultyForReason'
  <2>1. SUFFICES ASSUME NEW q \in Port, portState'[q] = "FAULTY"
                 PROVE  \/ mac[q] = "down"
                        \/ \E i \in 1 .. (n - 1) :
                             requests'[i] = [what |-> "RECOVERY", port |-> q]
    BY <1>1 DEF FaultyForReason
  <2>2. CASE r.what = "FAULT" /\ FaultDetected({r.port})
    <3>1. CASE q = r.port
      <4>1. \/ mac[q] = "down"
            \/ \E j \in 1 .. n : 1 < j /\ requests[j] = [what |-> "RECOVERY", port |-> q]
        <5>1. 1 \in 1 .. n /\ requests[1].what = "FAULT" /\ requests[1].port = q
          BY <1>1, <2>2, <3>1
        <5> QED BY <5>1 DEF FInv, RequestsMatchMacs, n
      <4> QED BY <1>3, <4>1
    <3>2. CASE q # r.port
      <4>1. portState[q] = "FAULTY"
        BY <2>1, <2>2, <3>2 DEF FaultDetected, ChangeStates
      <4>2. CASE mac[q] = "down"
        BY <4>2
      <4>3. CASE mac[q] # "down"
        <5>1. PICK j \in 1 .. n : requests[j] = [what |-> "RECOVERY", port |-> q]
          BY <4>1, <4>3 DEF FInv, FaultyForReason, n
        <5>2. 1 < j
          BY <1>1, <2>2, <5>1
        <5> QED BY <1>3, <5>1, <5>2
      <4> QED BY <4>2, <4>3
    <3> QED BY <3>1, <3>2
  <2>3. CASE FaultCleared({r.port})
    BY <2>1, <2>3 DEF FaultCleared, StartInitialize, ChangeStates
  <2>4. CASE r.what = "RECOVERY" /\ portState[r.port] # "FAULTY" /\ UNCHANGED vars
    <3>1. portState[q] = "FAULTY"
      BY <2>1, <2>4 DEF vars, portVars
    <3>2. CASE mac[q] = "down"
      BY <3>2
    <3>3. CASE mac[q] # "down"
      <4>1. PICK j \in 1 .. n : requests[j] = [what |-> "RECOVERY", port |-> q]
        BY <3>1, <3>3 DEF FInv, FaultyForReason, n
      <4>2. 1 < j
        BY <1>1, <2>4, <3>1, <4>1
      <4> QED BY <1>3, <4>1, <4>2
    <3> QED BY <3>2, <3>3
  <2> QED BY <2>2, <2>3, <2>4 DEF HandlePortRequ
<1> QED BY <1>2, <1>4 DEF FInv

\* The inductive invariant of faults and recoveries.
THEOREM FaultsInvariance == FaultsSpec => []FInv
<1>1. FaultsInit => FInv
  BY InitIInv DEF FaultsInit, FInv, IInv, RequestsTypeOK, RequestsMatchMacs,
                  FaultyForReason, Init
<1>2. FInv /\ TypeOK' /\ [FaultsNext]_allVars => FInv'
  <2>1. SUFFICES ASSUME FInv, TypeOK', [FaultsNext]_allVars PROVE FInv'
    OBVIOUS
  <2>2. RequestsTypeOK'
    BY <2>1, RequestsTyped DEF FInv
  <2>3. ASSUME NEW p \in Port, MacFault(p) \/ MacRecovery(p) PROVE FInv'
    BY <2>1, <2>2, <2>3, MacStep
  <2>4. CASE StackStep \/ \E q \in Port : HandleFrame(q)
    BY <2>1, <2>2, <2>4, QuietStep
  <2>5. CASE HandlePortRequ
    BY <2>1, <2>2, <2>5, HandlePortRequStep
  <2>6. CASE UNCHANGED allVars
    BY <2>1, <2>6 DEF allVars, vars, portVars, faultVars, FInv, TypeOK, RequestsTypeOK,
       RequestsMatchMacs, FaultyForReason, clockVars, initVars
  <2> QED BY <2>1, <2>3, <2>4, <2>5, <2>6 DEF FaultsNext
<1>3. FaultsSpec => []TypeOK
  BY FaultsImplementStack, StackTypeCorrect, PTL
<1> QED BY <1>1, <1>2, <1>3, PTL DEF FaultsSpec

\* A port is FAULTY only as long as its MAC is down or has a recovery on the way
\* to the stack, however faults and recoveries of the ports interleave.
THEOREM FaultyOnlyForReason == FaultsSpec => [](FaultsTypeOK /\ FaultyUntilRecovery)
<1>1. FInv => FaultsTypeOK /\ FaultyUntilRecovery
  <2>1. SUFFICES ASSUME FInv PROVE FaultsTypeOK /\ FaultyUntilRecovery
    OBVIOUS
  <2>2. DOMAIN requests = 1 .. Len(requests)
    BY <2>1 DEF FInv, RequestsTypeOK
  <2> QED BY <2>1, <2>2 DEF FInv, RequestsTypeOK, FaultyForReason, FaultsTypeOK,
             FaultyUntilRecovery, Pending
<1> QED BY <1>1, FaultsInvariance, PTL

\* A port whose MAC is down stays FAULTY, but for the recovery of another port,
\* which initialises the whole clock.
THEOREM FaultyStaysDown == FaultsSpec => FaultyWhileDown
<1>1. FInv /\ [FaultsNext]_allVars
        => [\A p \in Port :
              /\ portState[p] = "FAULTY" /\ portState'[p] # "FAULTY"
              /\ mac[p] = "down"
              => /\ \E q \in Port : mac[q] = "recovered"
                 /\ \A q \in Port : portState'[q] = "INITIALIZING"]_allVars
  <2>1. SUFFICES ASSUME FInv, FaultsNext, NEW p \in Port, mac[p] = "down",
                        portState[p] = "FAULTY", portState'[p] # "FAULTY"
                 PROVE  /\ \E q \in Port : mac[q] = "recovered"
                        /\ \A q \in Port : portState'[q] = "INITIALIZING"
    OBVIOUS
  <2>2. ~(StackStep \/ \E q \in Port : HandleFrame(q))
    BY <2>1, StackStepsKeepFaulty DEF FInv
  <2>3. ~ \E q \in Port : MacFault(q) \/ MacRecovery(q)
    BY <2>1 DEF MacFault, MacRecovery, vars, portVars
  <2>4. HandlePortRequ
    BY <2>1, <2>2, <2>3 DEF FaultsNext
  <2> DEFINE r == Head(requests)
  <2>5. r.what = "RECOVERY" /\ FaultCleared({r.port})
    <3>1. ~FaultDetected({r.port})
      BY <2>1 DEF FaultDetected, ChangeStates, StateAfterFault
    <3> QED BY <2>1, <2>4, <3>1 DEF HandlePortRequ, vars, portVars
  <2>6. mac[r.port] = "recovered" /\ r.port \in Port
    <3>1. 1 \in 1 .. Len(requests) /\ r = requests[1] /\ r \in PortRequ
      BY <2>1, <2>4 DEF HandlePortRequ, FInv, RequestsTypeOK
    <3> QED BY <2>1, <2>5, <3>1 DEF FInv, RequestsMatchMacs, PortRequ
  <2>7. \A q \in Port : portState'[q] = "INITIALIZING"
    BY <2>5 DEF FaultCleared, StartInitialize, ChangeStates
  <2> QED BY <2>6, <2>7
<1> QED BY <1>1, FaultsInvariance, PTL DEF FaultsSpec, FaultyWhileDown

-----------------------------------------------------------------------------
(* The values in the data sets. *)

SyncT == {s \in [ingress : Origin, filter : Seq(Origin)] : Len(s.filter) <= OffsetFilterLen}

DelayT == {d \in [first : Origin, second : Origin, mostRecent : Origin, syncTimes : Origin,
                  twoStep : BOOLEAN, requested : BOOLEAN, filter : Seq(Origin)] :
             Len(d.filter) <= DelayFilterLen}

ServicesTyped == sync \in [Port -> SyncT] /\ delay \in [Port -> DelayT]

\* The types of what PtpDataSets adds to the stack, and DataSetsAgree.
DInv ==
  /\ currentDS \in [offset : Origin, delay : Origin]
  /\ moduleID \in Nat
  /\ ServicesTyped
  /\ talking \in SUBSET Neighbours /\ jumps \in 0 .. MaxJumps
  /\ DataSetsAgree

\* A value pushed into a filter leaves room for the next one.
LEMMA PushFits ==
  ASSUME NEW f \in Seq(Origin), NEW len \in Nat \ {0}, Len(f) <= len, NEW v \in Origin
  PROVE  Push(f, len, v) \in Seq(Origin) /\ Len(Push(f, len, v)) <= len
<1>1. CASE Len(f) = len
  <2>1. f # <<>>
    BY <1>1
  <2>2. Tail(f) \in Seq(Origin) /\ Len(Tail(f)) = len - 1
    BY <1>1, <2>1
  <2>3. /\ Append(Tail(f), v) \in Seq(Origin)
        /\ Len(Append(Tail(f), v)) = Len(Tail(f)) + 1
    BY <2>2
  <2> QED BY <1>1, <2>2, <2>3 DEF Push
<1>2. CASE Len(f) # len
  <2>1. Append(f, v) \in Seq(Origin) /\ Len(Append(f, v)) = Len(f) + 1
    OBVIOUS
  <2> QED BY <1>2, <2>1 DEF Push
<1> QED BY <1>1, <1>2

\* What a filter answers comes from what was pushed.
LEMMA PopFromPushed ==
  ASSUME NEW f \in Seq(Origin)
  PROVE  Pop(f) \in Origin
<1>1. \A i \in DOMAIN f : f[i] \in SUBSET Neighbours
  BY DEF Origin
<1> QED BY <1>1 DEF Pop, Origin

\* An empty filter is one of any length.
LEMMA EmptyFilter ==
  ASSUME ValuesAssumption
  PROVE  <<>> \in Seq(Origin) /\ Len(<<>>) = 0 /\ 0 <= OffsetFilterLen /\ 0 <= DelayFilterLen
BY DEF ValuesAssumption

\* Services keep their types when intervals start.
LEMMA StartsTyped ==
  ASSUME ValuesAssumption, NEW s \in [Port -> SyncT], NEW d \in [Port -> DelayT],
         ServicesBecome(s, d)
  PROVE  ServicesTyped'
<1> DEFINE Reset(p, service) == service \in active'[p] \ active[p]
<1>1. /\ sync' = [p \in Port |->
           IF Reset(p, "SyncInterval") THEN [s[p] EXCEPT !.filter = <<>>] ELSE s[p]]
      /\ delay' = [p \in Port |->
           IF Reset(p, "DelayInterval") THEN [d[p] EXCEPT !.filter = <<>>] ELSE d[p]]
  BY DEF ServicesBecome
<1> HIDE DEF Reset
<1>2. \A p \in Port : [s[p] EXCEPT !.filter = <<>>] \in SyncT
  BY EmptyFilter DEF SyncT
<1>3. \A p \in Port : [d[p] EXCEPT !.filter = <<>>] \in DelayT
  BY EmptyFilter DEF DelayT
<1> QED BY <1>1, <1>2, <1>3 DEF ServicesTyped

\* What the clock does with its data sets is what PtpStack allows it to do.
LEMMA ValuesSteps ==
  ASSUME talking \in SUBSET Neighbours, [DataSetsNext]_dataSetVars
  PROVE  [Next]_vars
<1>1. CASE OwnStep
  BY <1>1 DEF OwnStep, Next, PortNext
<1>2. ASSUME NEW heard \in ErbestMessages, Decide(heard) PROVE Next
  BY <1>2 DEF Decide, Next
<1>3. ASSUME NEW source \in talking, Silence(source) PROVE UNCHANGED vars
  BY <1>3 DEF Silence
<1>4. ASSUME NEW p \in Port, DelayRequest(p) PROVE UNCHANGED vars
  BY <1>4 DEF DelayRequest
<1>5. ASSUME NEW p \in Port, NEW m \in Messages, Announced(p, m) PROVE Next
  BY <1>5 DEF Announced, Next, PortNext
<1>6. ASSUME NEW p \in Port, NEW source \in talking, NEW kind \in SyncKinds,
             NEW within \in BOOLEAN, HandleSync(p, source, kind, within)
      PROVE  Next
  <2>1. source \in Neighbours
    OBVIOUS
  <2> QED BY <1>6, <2>1 DEF Next, PortNext
<1>7. ASSUME NEW p \in Port, NEW source \in talking, NEW within \in BOOLEAN, NEW jump,
             NEW matches, TakeSync(p, source, within, jump, matches)
      PROVE  Next
  <2>1. \E kind \in SyncKinds : HandleSync(p, source, kind, within)
    BY <1>7 DEF TakeSync, SyncKinds
  <2> QED BY <1>6, <2>1
<1>8. ASSUME NEW p \in Port, NEW source \in talking, NEW within \in BOOLEAN, NEW jump,
             NEW own, NEW matches, TakeFollowUp(p, source, within, jump, own, matches)
      PROVE  Next \/ UNCHANGED vars
  <2>1. HandleSync(p, source, "FOLLOW_UP", within) \/ UNCHANGED vars
    BY <1>8 DEF TakeFollowUp
  <2> QED BY <1>6, <2>1 DEF SyncKinds
<1>9. ASSUME NEW p \in Port, NEW source \in talking, DelayResp(p, source)
      PROVE  UNCHANGED vars
  BY <1>9 DEF DelayResp
<1>10. CASE UNCHANGED dataSetVars
  BY <1>10 DEF dataSetVars
<1> QED BY <1>1, <1>2, <1>3, <1>4, <1>5, <1>7, <1>8, <1>9, <1>10 DEF DataSetsNext

\* The messages that come are those of neighbours.
LEMMA TalkingStays ==
  ASSUME talking \in SUBSET Neighbours, [DataSetsNext]_dataSetVars
  PROVE  talking' \in SUBSET Neighbours
<1>1. OwnStep => UNCHANGED talking
  BY DEF OwnStep
<1>2. \A heard : Decide(heard) => UNCHANGED talking
  BY DEF Decide
<1>3. \A source : Silence(source) => talking' \in SUBSET talking
  BY DEF Silence
<1>4. \A p : DelayRequest(p) => UNCHANGED talking
  BY DEF DelayRequest
<1>5. \A p, m : Announced(p, m) => UNCHANGED talking
  BY DEF Announced
<1>6. \A p, source, within, jump, matches :
        TakeSync(p, source, within, jump, matches) => UNCHANGED talking
  BY DEF TakeSync
<1>7. \A p, source, within, jump, own, matches :
        TakeFollowUp(p, source, within, jump, own, matches) => UNCHANGED talking
  BY DEF TakeFollowUp
<1>8. \A p, source : DelayResp(p, source) => UNCHANGED talking
  BY DEF DelayResp
<1>9. UNCHANGED dataSetVars => UNCHANGED talking
  BY DEF dataSetVars
<1> QED BY <1>1, <1>2, <1>3, <1>4, <1>5, <1>6, <1>7, <1>8, <1>9 DEF DataSetsNext

\* A clock with these data sets is a clock of PtpStack.
THEOREM DataSetsImplementStack == DataSetsSpec => Spec
<1>1. DataSetsInit => Init /\ talking \in SUBSET Neighbours
  BY DEF DataSetsInit
<1>2. talking \in SUBSET Neighbours /\ [DataSetsNext]_dataSetVars
        => (talking \in SUBSET Neighbours)' /\ [Next]_vars
  BY ValuesSteps, TalkingStays
<1> QED BY <1>1, <1>2, PTL DEF DataSetsSpec, Spec

\* A round of decisions: both the data sets of PtpStack and the values are those
\* that the last decider leaves.
LEMMA DecideKeepsValues ==
  ASSUME ValuesAssumption, DInv, TypeOK', NEW heard \in ErbestMessages, Decide(heard)
  PROVE  DInv'
<1> DEFINE erb == Erbests(heard)
           b == EbestPort(erb)
           dec == [p \in Port |-> StateDecision(p, erb, b)]
           deciders == {p \in Port : dec[p] \in {"M1", "M2", "S1"}}
           last == CHOOSE p \in deciders : \A q \in deciders : q <= p
<1>1. /\ AssertionFails(erb, b) => UNCHANGED clockVars
      /\ ~AssertionFails(erb, b) => UpdateDataSets(dec, EbestOf(erb, b))
  BY DEF Decide, DecideStates
<1>2. UpdateDataSets(dec, EbestOf(erb, b))
        <=> IF deciders = {} THEN UNCHANGED clockVars
            ELSE IF dec[last] = "S1" THEN BecomeSlave(EbestOf(erb, b)) ELSE BecomeGrandMaster
  BY DEF UpdateDataSets
<1>3. LastUpdate(heard) = IF deciders = {} \/ AssertionFails(erb, b) THEN "none"
                          ELSE IF dec[last] = "S1" THEN "BecomeSlave" ELSE "BecomeGrandMaster"
  BY DEF LastUpdate
<1>4. /\ LastUpdate(heard) = "BecomeSlave" => SlaveValues
      /\ LastUpdate(heard) = "BecomeGrandMaster" => GrandMasterValues
      /\ LastUpdate(heard) = "none" => UNCHANGED valueVars
  BY DEF Decide
<1>5. ServicesTyped'
  BY StartsTyped DEF Decide, DInv, ServicesTyped
<1>6. UNCHANGED <<talking, jumps>>
  BY DEF Decide
<1>7. parentDS'.gm \in Nat
  BY DEF TypeOK
<1> HIDE DEF deciders, last, dec, b, erb
<1>8. CASE LastUpdate(heard) = "none"
  <2>1. UNCHANGED clockVars /\ UNCHANGED valueVars
    BY <1>1, <1>2, <1>3, <1>4, <1>8
  <2> QED BY <1>5, <1>6, <2>1 DEF DInv, DataSetsAgree, clockVars, valueVars, NewCurrentDS
<1>9. CASE LastUpdate(heard) = "BecomeSlave"
  <2>1. servo' = TRUE /\ SlaveValues
    BY <1>1, <1>2, <1>3, <1>4, <1>9 DEF BecomeSlave
  <2> QED BY <1>5, <1>6, <1>7, <2>1 DEF DInv, DataSetsAgree, SlaveValues
<1>10. CASE LastUpdate(heard) = "BecomeGrandMaster"
  <2>1. BecomeGrandMaster /\ GrandMasterValues
    BY <1>1, <1>2, <1>3, <1>4, <1>10
  <2>2. parentDS'.gm = Self /\ Self \in Nat
    BY <2>1, StackAssumption DEF BecomeGrandMaster, OwnParent
  <2> QED BY <1>5, <1>6, <2>1, <2>2
          DEF DInv, DataSetsAgree, GrandMasterValues, NewCurrentDS, Zero, Origin
<1> QED BY <1>3, <1>8, <1>9, <1>10

\* Only a clock that follows a master has values measured.
LEMMA SynchronizeKeepsValues ==
  ASSUME ValuesAssumption, IInv, DInv, NEW p \in Port, NEW times \in Origin,
         NEW jump \in Jump, portState[p] \in {"UNCALIBRATED", "SLAVE"},
         UNCHANGED <<parentDS, servo>>, SynchronizeClock(p, times, jump)
  PROVE  /\ servo' /\ timePropertiesDS = parentDS'.gm
         /\ currentDS' \in [offset : Origin, delay : Origin]
         /\ sync' \in [Port -> SyncT] /\ jumps' \in 0 .. MaxJumps
<1> DEFINE window == Push(sync[p].filter, OffsetFilterLen, times \cup currentDS.delay)
<1>1. servo' /\ timePropertiesDS = parentDS'.gm
  BY DEF IInv, SlavesAgree, SlavePorts, DInv, DataSetsAgree
<1>2. sync \in [Port -> SyncT] /\ currentDS \in [offset : Origin, delay : Origin]
      /\ sync[p] \in SyncT
  BY DEF DInv, ServicesTyped
<1>3. window \in Seq(Origin) /\ Len(window) <= OffsetFilterLen
  <2>1. /\ sync[p].filter \in Seq(Origin) /\ Len(sync[p].filter) <= OffsetFilterLen
        /\ times \cup currentDS.delay \in Origin
    BY <1>2 DEF SyncT, Origin
  <2> QED BY <2>1, PushFits DEF ValuesAssumption
<1>4. Pop(window) \in Origin
  BY <1>3, PopFromPushed
<1>5. /\ currentDS' = [currentDS EXCEPT !.offset = Pop(window)]
      /\ jumps' = jumps + (IF jump THEN 1 ELSE 0)
      /\ sync' = [q \in Port |->
           [sync[q] EXCEPT !.filter = IF jump THEN <<>> ELSE IF q = p THEN window ELSE @]]
  BY DEF SynchronizeClock
<1> HIDE DEF window
<1>6. ASSUME NEW q \in Port
      PROVE  [sync[q] EXCEPT !.filter =
                IF jump THEN <<>> ELSE IF q = p THEN window ELSE @] \in SyncT
  <2>1. sync[q] \in SyncT
    BY <1>2
  <2> QED BY <1>3, <2>1, EmptyFilter DEF SyncT
<1>7. jumps' \in 0 .. MaxJumps
  <2>1. jumps \in 0 .. MaxJumps /\ MaxJumps \in Nat
    BY DEF DInv, ValuesAssumption
  <2>2. CASE jump
    <3>1. jumps < MaxJumps
      BY <2>2 DEF Jump
    <3>2. jumps' = jumps + 1
      BY <1>5, <2>2
    <3> QED BY <2>1, <3>1, <3>2
  <2>3. CASE ~jump
    <3>1. jumps' = jumps + 0
      BY <1>5, <2>3
    <3> QED BY <2>1, <3>1
  <2> QED BY <2>2, <2>3
<1>8. currentDS' \in [offset : Origin, delay : Origin]
  BY <1>2, <1>4, <1>5
<1> QED BY <1>1, <1>5, <1>6, <1>7, <1>8

\* cAppDelay keeps its types.
LEMMA DelayTyped ==
  ASSUME ValuesAssumption, DInv, NEW p \in Port, NEW d \in DelayT, NEW jump \in BOOLEAN,
         DelayBecomes(p, d, jump)
  PROVE  delay' \in [Port -> DelayT]
<1>1. \A q \in Port : (IF q = p THEN d ELSE delay[q]) \in DelayT
  BY DEF DInv, ServicesTyped
<1>2. ASSUME NEW n \in DelayT
      PROVE  [n EXCEPT !.filter = <<>>, !.requested = @ /\ ~jump] \in DelayT
  <2>1. (n.requested /\ ~jump) \in BOOLEAN
    OBVIOUS
  <2> QED BY <2>1, EmptyFilter DEF DelayT
<1>3. ASSUME NEW n \in DelayT, NEW c
      PROVE  (IF c THEN [n EXCEPT !.filter = <<>>, !.requested = @ /\ ~jump] ELSE n) \in DelayT
  BY <1>2
<1> QED BY <1>1, <1>3 DEF DelayBecomes

\* Its matcher takes the messages of every master.
LEMMA MatchTyped ==
  ASSUME NEW d \in DelayT, NEW source \in Neighbours, NEW matches \in BOOLEAN
  PROVE  MatchSync(d, source, matches) \in DelayT /\ MatchFollowUp(d, source, matches) \in DelayT
<1>1. {source} \in Origin /\ d.first \cup {source} \in Origin /\ d.second \cup {source} \in Origin
  BY DEF DelayT, Origin
<1>2. MatchSync(d, source, matches) \in DelayT
  BY <1>1 DEF MatchSync, DelayT
<1>3. MatchFollowUp(d, source, matches) \in DelayT
  BY <1>1 DEF MatchFollowUp, DelayT
<1> QED BY <1>2, <1>3

\* A Sync measures the offset, if it is one-step and comes from the parent.
LEMMA TakeSyncKeepsValues ==
  ASSUME ValuesAssumption, IInv, DInv, NEW p \in Port, NEW source \in talking,
         NEW within \in BOOLEAN, NEW jump \in Jump, NEW matches \in BOOLEAN,
         TakeSync(p, source, within, jump, matches)
  PROVE  DInv'
<1>1. /\ source \in Neighbours /\ {source} \in Origin /\ jump \in BOOLEAN
      /\ delay[p] \in DelayT
  BY DEF DInv, ServicesTyped, Origin, Jump
<1>2. UNCHANGED <<parentDS, servo, timePropertiesDS, moduleID, talking>>
  BY DEF TakeSync, HandleSync, clockVars
<1>3. delay' \in [Port -> DelayT]
  BY <1>1, MatchTyped, DelayTyped DEF TakeSync
<1>4. /\ currentDS' \in [offset : Origin, delay : Origin]
      /\ ~servo => currentDS' = NewCurrentDS
      /\ sync' \in [Port -> SyncT] /\ jumps' \in 0 .. MaxJumps
  <2>1. CASE FromMaster(p, source) /\ SynchronizeClock(p, {source}, jump)
    BY <1>1, <1>2, <2>1, SynchronizeKeepsValues DEF FromMaster
  <2>2. CASE /\ UNCHANGED <<currentDS, jumps>>
             /\ sync' = [sync EXCEPT ![p].ingress =
                  IF FromMaster(p, source) THEN {source} ELSE @]
    <3>1. sync' \in [Port -> SyncT]
      BY <1>1, <2>2 DEF DInv, ServicesTyped, SyncT
    <3> QED BY <2>2, <3>1 DEF DInv, DataSetsAgree, NewCurrentDS
  <2> QED BY <2>1, <2>2 DEF TakeSync
<1> QED BY <1>2, <1>3, <1>4 DEF DInv, ServicesTyped, DataSetsAgree, NewCurrentDS

\* The same of a Follow_Up.
LEMMA TakeFollowUpKeepsValues ==
  ASSUME ValuesAssumption, IInv, DInv, NEW p \in Port, NEW source \in talking,
         NEW within \in BOOLEAN, NEW jump \in Jump, NEW own \in BOOLEAN,
         NEW matches \in BOOLEAN, TakeFollowUp(p, source, within, jump, own, matches)
  PROVE  DInv'
<1>1. /\ source \in Neighbours /\ jump \in BOOLEAN
      /\ delay[p] \in DelayT /\ sync[p].ingress \cup {source} \in Origin
  BY DEF DInv, ServicesTyped, Origin, Jump, SyncT
<1>2. UNCHANGED <<parentDS, servo, timePropertiesDS, moduleID, talking>>
  BY DEF TakeFollowUp, HandleSync, clockVars, vars
<1>3. delay' \in [Port -> DelayT]
  BY <1>1, MatchTyped, DelayTyped DEF TakeFollowUp
<1>4. /\ currentDS' \in [offset : Origin, delay : Origin]
      /\ ~servo => currentDS' = NewCurrentDS
      /\ sync' \in [Port -> SyncT] /\ jumps' \in 0 .. MaxJumps
  <2>1. CASE FromMaster(p, source) /\ SynchronizeClock(p, sync[p].ingress \cup {source}, jump)
    BY <1>1, <1>2, <2>1, SynchronizeKeepsValues DEF FromMaster
  <2>2. CASE UNCHANGED <<sync, currentDS, jumps>>
    BY <2>2 DEF DInv, ServicesTyped, DataSetsAgree, NewCurrentDS
  <2> QED BY <2>1, <2>2 DEF TakeFollowUp
<1> QED BY <1>2, <1>3, <1>4 DEF DInv, ServicesTyped, DataSetsAgree, NewCurrentDS

\* A Delay_Resp measures the path delay, with the times of the request.
LEMMA DelayRespKeepsValues ==
  ASSUME ValuesAssumption, IInv, DInv, NEW p \in Port, NEW source \in talking,
         DelayResp(p, source)
  PROVE  DInv'
<1> DEFINE window == Push(delay[p].filter, DelayFilterLen, delay[p].syncTimes \cup {source})
<1>1. servo /\ portState[p] \in {"UNCALIBRATED", "SLAVE"}
  BY DEF DelayResp, FromMaster, IInv, SlavesAgree, SlavePorts
<1>2. delay[p] \in DelayT /\ delay[p].syncTimes \cup {source} \in Origin
      /\ delay[p].filter \in Seq(Origin) /\ Len(delay[p].filter) <= DelayFilterLen
  BY DEF DInv, ServicesTyped, DelayT, Origin
<1>3. window \in Seq(Origin) /\ Len(window) <= DelayFilterLen
  BY <1>2, PushFits DEF ValuesAssumption
<1>4. Pop(window) \in Origin
  BY <1>3, PopFromPushed
<1>5. /\ currentDS' = [currentDS EXCEPT !.delay = Pop(window)]
      /\ delay' = [delay EXCEPT ![p].filter = window]
      /\ UNCHANGED <<vars, timePropertiesDS, moduleID, sync, talking, jumps>>
  BY DEF DelayResp
<1> HIDE DEF window
<1>6. currentDS' \in [offset : Origin, delay : Origin]
  BY <1>4, <1>5 DEF DInv
<1>7. delay' \in [Port -> DelayT]
  BY <1>2, <1>3, <1>5 DEF DInv, ServicesTyped, DelayT
<1>8. UNCHANGED <<parentDS, servo>>
  BY <1>5 DEF vars, clockVars
<1> QED BY <1>1, <1>5, <1>6, <1>7, <1>8 DEF DInv, ServicesTyped, DataSetsAgree

\* The other steps measure nothing.
LEMMA OtherKeepsValues ==
  ASSUME ValuesAssumption, IInv, DInv, TypeOK',
         \/ OwnStep
         \/ \E source \in talking : Silence(source)
         \/ \E p \in Port : DelayRequest(p) \/ \E m \in Messages : Announced(p, m)
         \/ UNCHANGED dataSetVars
  PROVE  DInv'
<1>1. CASE OwnStep
  <2>1. UNCHANGED <<parentDS, servo>>
    BY <1>1 DEF OwnStep, EndInit, AnnounceTimeout, QualificationTimeout, clockVars
  <2>2. ServicesTyped'
    BY <1>1, StartsTyped DEF OwnStep, DInv, ServicesTyped
  <2> QED BY <1>1, <2>1, <2>2 DEF OwnStep, DInv, DataSetsAgree, valueVars, NewCurrentDS
<1>2. ASSUME NEW source \in talking, Silence(source) PROVE DInv'
  BY <1>2 DEF Silence, DInv, ServicesTyped, DataSetsAgree, valueVars, serviceVars, vars,
     clockVars, NewCurrentDS
<1>3. ASSUME NEW p \in Port, DelayRequest(p) PROVE DInv'
  <2>1. delay' = [delay EXCEPT ![p].requested = TRUE, ![p].syncTimes = delay[p].mostRecent]
    BY <1>3 DEF DelayRequest
  <2>2. delay' \in [Port -> DelayT]
    BY <2>1 DEF DInv, ServicesTyped, DelayT
  <2> QED BY <1>3, <2>2 DEF DelayRequest, DInv, ServicesTyped, DataSetsAgree, valueVars,
             vars, clockVars, NewCurrentDS
<1>4. ASSUME NEW p \in Port, NEW m \in Messages, Announced(p, m) PROVE DInv'
  <2>1. /\ portState[p] = "SLAVE" /\ parentDS'.gm = m.gm /\ servo' = servo
        /\ timePropertiesDS' = m.gm
        /\ UNCHANGED <<currentDS, moduleID, serviceVars, talking, jumps>>
    BY <1>4 DEF Announced, HandleAnnounce
  <2>2. servo
    BY <2>1 DEF IInv, SlavesAgree, SlavePorts
  <2> QED BY <2>1, <2>2 DEF DInv, ServicesTyped, DataSetsAgree, serviceVars
<1>5. CASE UNCHANGED dataSetVars
  BY <1>5 DEF dataSetVars, DInv, ServicesTyped, DataSetsAgree, valueVars, serviceVars, vars,
     clockVars, NewCurrentDS
<1> QED BY <1>1, <1>2, <1>3, <1>4, <1>5

\* The time properties are those of the grandmaster, and a clock that is its own
\* grandmaster has no measured values: BecomeSlave, BecomeGrandMaster and
\* HandleAnnounce always set them together with the parent, and only a clock
\* with a running servo measures.
THEOREM DataSetsAlwaysAgree ==
  ASSUME ValuesAssumption
  PROVE  DataSetsSpec => [](DataSetsTypeOK /\ DataSetsAgree)
<1>1. DataSetsInit => DInv
  <2> SUFFICES ASSUME DataSetsInit PROVE DInv
    OBVIOUS
  <2>1. Zero \in Origin /\ NewSync \in SyncT /\ NewDelay \in DelayT /\ Self \in Nat
    BY EmptyFilter, StackAssumption DEF Zero, Origin, NewSync, NewDelay, SyncT, DelayT
  <2>2. ServicesTyped
    BY <2>1 DEF DataSetsInit, ServicesTyped
  <2>3. parentDS.gm = Self
    BY DEF DataSetsInit, Init, OwnParent
  <2> QED BY <2>1, <2>2, <2>3 DEF DataSetsInit, DInv, DataSetsAgree, NewCurrentDS,
             ValuesAssumption
<1>2. IInv /\ IInv' /\ DInv /\ [DataSetsNext]_dataSetVars => DInv'
  <2> SUFFICES ASSUME IInv, IInv', DInv, [DataSetsNext]_dataSetVars PROVE DInv'
    OBVIOUS
  <2>1. TypeOK'
    BY DEF IInv
  <2>2. ASSUME NEW heard \in ErbestMessages, Decide(heard) PROVE DInv'
    BY <2>1, <2>2, DecideKeepsValues
  <2>3. ASSUME NEW p \in Port, NEW source \in talking, NEW within \in BOOLEAN,
               NEW jump \in Jump, NEW matches \in Matches(source),
               TakeSync(p, source, within, jump, matches)
        PROVE  DInv'
    BY <2>3, TakeSyncKeepsValues DEF Matches
  <2>4. ASSUME NEW p \in Port, NEW source \in talking, NEW within \in BOOLEAN,
               NEW jump \in Jump, NEW own \in BOOLEAN, NEW matches \in BOOLEAN,
               TakeFollowUp(p, source, within, jump, own, matches)
        PROVE  DInv'
    BY <2>4, TakeFollowUpKeepsValues
  <2>5. ASSUME NEW p \in Port, NEW source \in talking, DelayResp(p, source) PROVE DInv'
    BY <2>5, DelayRespKeepsValues
  <2>6. CASE \/ OwnStep
             \/ \E source \in talking : Silence(source)
             \/ \E p \in Port : DelayRequest(p) \/ \E m \in Messages : Announced(p, m)
             \/ UNCHANGED dataSetVars
    BY <2>1, <2>6, OtherKeepsValues
  <2> QED BY <2>2, <2>3, <2>4, <2>5, <2>6 DEF DataSetsNext
<1>3. IInv /\ DInv => DataSetsTypeOK /\ DataSetsAgree
  BY DEF IInv, DInv, ServicesTyped, DataSetsTypeOK, DataSetsAgree, TypeOK, SyncT, DelayT
<1>4. DataSetsSpec => []IInv
  BY DataSetsImplementStack, StackInvariance, PTL
<1> QED BY <1>1, <1>2, <1>3, <1>4, PTL DEF DataSetsSpec

=============================================================================
