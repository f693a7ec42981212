--------------------------- MODULE BestMasterScan ---------------------------
(***************************************************************************)
(* The selection of Ebest in cAppStateDecision::HandleIntervalEvent: a     *)
(* loop over the ports that keeps the best non-empty Erbest, one port per  *)
(* step.  cForeignMasterDS::CalculateErbest selects Erbest among the       *)
(* qualified masters of a port by the same loop.                           *)
(*                                                                         *)
(* What the data sets of one round have in common is what makes the result *)
(* the best one whatever the order of the ports; it is the assumption      *)
(* Comparable below.                                                       *)
(***************************************************************************)
EXTENDS ClockDataSet

CONSTANTS NumPorts,    \* number of ports of the clock
          Self,        \* identity of the clock
          Messages     \* the Announce messages that can have been received

ASSUME ScanAssumption ==
  NumPorts \in Nat /\ Self \in Nat /\ Messages \subseteq Message

Port == 1 .. NumPorts

OwnPort(p) == [clock |-> Self, port |-> p]

\* A ClockId always comes with the same attributes: they are fixed when the
\* clock is initialised and travel with the identity.  A port does not hear
\* itself.
Comparable(erb) ==
  /\ \A p \in Port : erb[p] # NoDS => erb[p].sender # OwnPort(p)
  /\ \A p, q \in Port :
       erb[p] # NoDS /\ erb[q] # NoDS /\ erb[p].gm = erb[q].gm
         => erb[p].attrs = erb[q].attrs

VARIABLES erbest,      \* GetErbest() of every port
          portIdx,     \* ports the loop has looked at
          ebestPortID  \* port of Ebest, 0 while Ebest is empty

vars == <<erbest, portIdx, ebestPortID>>

Ebest == EbestOf(erbest, ebestPortID)

TypeOK == /\ erbest \in [Port -> DataSet \cup {NoDS}]
          /\ \A p \in Port : erbest[p] # NoDS => erbest[p].receiver = OwnPort(p)
          /\ Comparable(erbest)
          /\ portIdx \in 0 .. NumPorts
          /\ ebestPortID \in 0 .. NumPorts

-----------------------------------------------------------------------------

Init == /\ \E heard \in [Port -> Messages \cup {NoDS}] :
             erbest = [p \in Port |-> Received(heard[p], OwnPort(p))]
        /\ Comparable(erbest)
        /\ portIdx = 0
        /\ ebestPortID = 0

Scan == /\ portIdx < NumPorts
        /\ portIdx' = portIdx + 1
        /\ ebestPortID' = ScanPort(erbest, ebestPortID, portIdx + 1)
        /\ UNCHANGED erbest

Next == Scan      \* the loop ends: nothing is enabled after the last port

Spec == Init /\ [][Next]_vars

-----------------------------------------------------------------------------

\* Ebest beats the Erbest of every other port the loop has looked at, in
\* whatever order the ports come.  At the end of the loop this is what
\* cPTP_Port::GetStateDecision asserts of Ebest and a port's own Erbest.
EbestBeatsScanned ==
  \A p \in 1 .. portIdx :
    erbest[p] # NoDS /\ p # ebestPortID => BetterThan(Ebest, erbest[p])

\* Ebest is empty only if every port looked at had an empty Erbest.
EbestFound ==
  (ebestPortID = 0 <=> \A p \in 1 .. portIdx : erbest[p] = NoDS)
    /\ ebestPortID <= portIdx

\* Two ports' data sets are always told apart, and the verdict does not
\* depend on which of them is passed first: CompareClockDS never answers
\* ERROR_1 or ERROR_2 in a round.
VerdictsMirror ==
  \A p, q \in Port : p # q /\ erbest[p] # NoDS /\ erbest[q] # NoDS =>
    /\ CompareClockDS(erbest[p], erbest[q]) \notin {"ERROR_1", "ERROR_2"}
    /\ CompareClockDS(erbest[q], erbest[p])
         = Mirror(CompareClockDS(erbest[p], erbest[q]))

=============================================================================
