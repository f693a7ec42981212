------------------------ MODULE BestMasterScanProofs ------------------------
(***************************************************************************)
(* Proofs about BestMasterScan, for every number of ports and every set of *)
(* messages: Ebest is the best Erbest.                                     *)
(***************************************************************************)
EXTENDS BestMasterScan, ClockDataSetProofs

\* The loop invariant.
IInv == TypeOK /\ BestOf(erbest, portIdx, ebestPortID)

\* The Erbests of one round are comparable with each other.
LEMMA ErbestsAlike ==
  TypeOK => Round(erbest, NumPorts)
<1> SUFFICES ASSUME TypeOK,
                    NEW p \in Port, erbest[p] # NoDS
             PROVE  /\ erbest[p] \in DataSet
                    /\ \A q \in Port : p # q /\ erbest[q] # NoDS
                                      => Alike(erbest[p], erbest[q])
  BY DEF Round, Port
<1>1. erbest[p] \in DataSet
  BY DEF TypeOK
<1>2. ASSUME NEW q \in Port, p # q, erbest[q] # NoDS
      PROVE  Alike(erbest[p], erbest[q])
  <2>1. /\ erbest[p].receiver = OwnPort(p) /\ erbest[q].receiver = OwnPort(q)
        /\ erbest[p].sender # OwnPort(p) /\ erbest[q].sender # OwnPort(q)
        /\ erbest[p].gm = erbest[q].gm => erbest[p].attrs = erbest[q].attrs
    BY <1>2 DEF TypeOK, Comparable
  <2>2. OwnPort(p).port # OwnPort(q).port
    BY <1>2 DEF OwnPort
  <2> QED BY <2>1, <2>2 DEF Alike
<1> QED BY <1>1, <1>2

\* The loop invariant holds before the first iteration.
LEMMA InitIInv ==
  Init => IInv
<1> SUFFICES ASSUME Init PROVE IInv
  OBVIOUS
<1>1. NumPorts \in Nat /\ Messages \subseteq Message
  BY ScanAssumption
<1>2. PICK heard \in [Port -> Messages \cup {NoDS}] :
        erbest = [p \in Port |-> Received(heard[p], OwnPort(p))]
  BY DEF Init
<1>3. ASSUME NEW p \in Port
      PROVE  /\ erbest[p] \in DataSet \cup {NoDS}
             /\ erbest[p] # NoDS => erbest[p].receiver = OwnPort(p)
  <2>1. erbest[p] = Received(heard[p], OwnPort(p))
    BY <1>2
  <2>2. OwnPort(p) \in PortId
    BY <1>1, ScanAssumption DEF OwnPort, PortId, Port
  <2>3. CASE heard[p] = NoDS
    BY <2>1, <2>3 DEF Received
  <2>4. CASE heard[p] # NoDS
    <3>1. heard[p] \in Message
      BY <1>1, <1>2, <2>4
    <3> QED BY <2>1, <2>2, <2>4, <3>1 DEF Received, Message, DataSet
  <2> QED BY <2>3, <2>4
<1>4. erbest \in [Port -> DataSet \cup {NoDS}]
  BY <1>2, <1>3
<1> QED BY <1>1, <1>3, <1>4, ScanStart DEF Init, IInv, TypeOK

\* Every iteration keeps the loop invariant.
LEMMA NextIInv ==
  IInv /\ [Next]_vars => IInv'
<1> SUFFICES ASSUME IInv, [Next]_vars PROVE IInv'
  OBVIOUS
<1>1. CASE Scan
  <2>1. /\ portIdx \in 0 .. (NumPorts - 1) /\ portIdx' = portIdx + 1
        /\ ebestPortID' = ScanPort(erbest, ebestPortID, portIdx + 1)
        /\ erbest' = erbest /\ NumPorts \in Nat
    BY <1>1, ScanAssumption DEF Scan, IInv, TypeOK
  <2>2. Round(erbest, NumPorts) /\ BestOf(erbest, portIdx, ebestPortID)
    BY ErbestsAlike DEF IInv
  <2>3. BestOf(erbest, portIdx', ebestPortID')
    BY <2>1, <2>2, ScanStep
  <2>4. ebestPortID' \in 0 .. NumPorts /\ portIdx' \in 0 .. NumPorts
    BY <2>1, <2>3 DEF BestOf
  <2> QED BY <2>1, <2>3, <2>4 DEF IInv, TypeOK, Comparable
<1>2. CASE UNCHANGED vars
  BY <1>2 DEF vars, IInv, TypeOK, Comparable
<1> QED BY <1>1, <1>2 DEF Next

\* The loop invariant always holds while GetStateDecision compares Erbests.
THEOREM Invariance == Spec => []IInv
BY InitIInv, NextIInv, PTL DEF Spec

\* The data sets of the ports stay as received, and the two indices in range.
THEOREM TypeCorrect == Spec => []TypeOK
<1>1. IInv => TypeOK
  BY DEF IInv
<1> QED BY <1>1, Invariance, PTL

\* Ebest beats the Erbest of every other port looked at, in whatever order
\* the ports come: what cPTP_Port::GetStateDecision asserts after the loop.
THEOREM EbestCorrect == Spec => []EbestBeatsScanned
<1>1. IInv => EbestBeatsScanned
  BY DEF IInv, BestOf, EbestBeatsScanned, Ebest
<1> QED BY <1>1, Invariance, PTL

\* Ebest is empty only if every port looked at had an empty Erbest.
THEOREM EbestComplete == Spec => []EbestFound
<1>1. IInv => EbestFound
  BY DEF IInv, TypeOK, BestOf, EbestFound
<1> QED BY <1>1, Invariance, PTL

\* The comparison is decided and symmetric between any two ports.
THEOREM VerdictsCorrect == Spec => []VerdictsMirror
<1>1. IInv => VerdictsMirror
  <2> SUFFICES ASSUME TypeOK, NEW p \in Port, NEW q \in Port, p # q,
                      erbest[p] # NoDS, erbest[q] # NoDS
               PROVE  /\ CompareClockDS(erbest[p], erbest[q])
                           \notin {"ERROR_1", "ERROR_2"}
                      /\ CompareClockDS(erbest[q], erbest[p])
                           = Mirror(CompareClockDS(erbest[p], erbest[q]))
    BY DEF IInv, VerdictsMirror
  <2>1. /\ erbest[p] \in DataSet /\ erbest[q] \in DataSet
        /\ Alike(erbest[p], erbest[q])
    BY ErbestsAlike DEF Round, Port
  <2> QED BY <2>1, Verdict DEF Better, Worse
<1> QED BY <1>1, Invariance, PTL

=============================================================================
