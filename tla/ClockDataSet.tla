---------------------------- MODULE ClockDataSet ----------------------------
(***************************************************************************)
(* The clock data sets that the best master clock algorithm compares, and  *)
(* the comparison itself: cForeignClockDS and its CompareClockDS (IEEE     *)
(* 1588-2008, Figures 27 and 28).                                          *)
(*                                                                         *)
(* The five grandmaster attributes are compared field by field in one      *)
(* fixed order, so a data set holds them as one tuple `attrs':             *)
(*   <<priority1, clockClass, clockAccuracy, offsetScaledLogVariance,      *)
(*     priority2>>.                                                        *)
(* Clock identities are 8 octets compared like numbers: they are naturals. *)
(***************************************************************************)
EXTENDS Integers

CONSTANT NoDS   \* an empty data set (IsEmpty() holds)

PortId == [clock : Nat, port : Nat]

Attributes == Nat \X Nat \X Nat \X Nat \X Nat

DataSet == [gm       : Nat,          \* ClockId, the grandmaster's identity
            attrs    : Attributes,
            steps    : Nat,          \* StepsRemoved
            sender   : PortId,
            receiver : PortId]

\* What an Announce message says; a data set is a message and the port that
\* received it.
Message == [gm : Nat, attrs : Attributes, steps : Nat, sender : PortId]

ASSUME NoDSAssumption == NoDS \notin DataSet /\ NoDS \notin Message

\* The data set of message m received on `port'; nothing received, no data set.
Received(m, port) ==
  IF m = NoDS THEN NoDS
  ELSE [gm |-> m.gm, attrs |-> m.attrs, steps |-> m.steps,
        sender |-> m.sender, receiver |-> port]

-----------------------------------------------------------------------------
(* Orders on tuples of numbers and on port identities. *)

\* s comes before t at the first position at which they differ.
LexLess(s, t) ==
  \E i \in DOMAIN s : s[i] < t[i] /\ \A j \in 1 .. (i-1) : s[j] = t[j]

PortLess(p, q) == LexLess(<<p.clock, p.port>>, <<q.clock, q.port>>)

-----------------------------------------------------------------------------
(* CompareClockDS(A, B). *)

Results == {"A_BETTER_B", "A_BETTER_B_BY_TOPO", "B_BETTER_A",
            "B_BETTER_A_BY_TOPO", "ERROR_1", "ERROR_2"}

Mirror(r) ==
  CASE r = "A_BETTER_B"         -> "B_BETTER_A"
    [] r = "A_BETTER_B_BY_TOPO" -> "B_BETTER_A_BY_TOPO"
    [] r = "B_BETTER_A"         -> "A_BETTER_B"
    [] r = "B_BETTER_A_BY_TOPO" -> "A_BETTER_B_BY_TOPO"
    [] OTHER                    -> r

\* Figure 27: the data sets name different grandmasters.
CompareGrandmasters(A, B) ==
  IF LexLess(A.attrs, B.attrs) \/ (A.attrs = B.attrs /\ A.gm < B.gm)
  THEN "A_BETTER_B"
  ELSE "B_BETTER_A"

\* A is one step closer to the grandmaster than B: B's two ports tell
\* whether the verdict is by topology.
OneStepCloser(A, B) ==
  CASE PortLess(B.receiver, B.sender) -> "A_BETTER_B"
    [] PortLess(B.sender, B.receiver) -> "A_BETTER_B_BY_TOPO"
    [] OTHER                          -> "ERROR_1"

\* MUTANT of Path: the receiving port is forgotten.
PathToSender(d) == <<d.sender.clock, d.sender.port>>

\* The ports along which a data set of equal distance arrived.
Path(d) == <<d.sender.clock, d.sender.port, d.receiver.port>>

\* Figure 28: both data sets name the same grandmaster.
CompareTopology(A, B) ==
  CASE A.steps + 1 < B.steps -> "A_BETTER_B"
    [] B.steps + 1 < A.steps -> "B_BETTER_A"
    [] A.steps + 1 = B.steps -> OneStepCloser(A, B)
    [] B.steps + 1 = A.steps -> Mirror(OneStepCloser(B, A))
    [] OTHER ->
         CASE LexLess(Path(A), Path(B)) -> "A_BETTER_B_BY_TOPO"
           [] LexLess(Path(B), Path(A)) -> "B_BETTER_A_BY_TOPO"
           [] OTHER                     -> "ERROR_2"

\* MUTANT of CompareClockDS: whatever comes second, an empty data set wins.
CompareEmptyFirst(A, B) ==
  CASE A = NoDS             -> "A_BETTER_B"
    [] A # NoDS /\ B = NoDS -> "B_BETTER_A"
    [] OTHER -> IF A.gm = B.gm THEN CompareTopology(A, B)
                               ELSE CompareGrandmasters(A, B)

CompareClockDS(A, B) ==
  CASE B = NoDS             -> "A_BETTER_B"
    [] B # NoDS /\ A = NoDS -> "B_BETTER_A"
    [] OTHER -> IF A.gm = B.gm THEN CompareTopology(A, B)
                               ELSE CompareGrandmasters(A, B)

\* MUTANT of BetterThan: a verdict by topology does not count.
BetterNotByTopo(A, B) == CompareClockDS(A, B) = "A_BETTER_B"

\* The two verdicts every caller tests together.
BetterThan(A, B) ==
  CompareClockDS(A, B) \in {"A_BETTER_B", "A_BETTER_B_BY_TOPO"}

\* B_BETTER_A or B_BETTER_A_BY_TOPO: the callers' test for replacing A by B.
WorseThan(A, B) ==
  CompareClockDS(A, B) \in {"B_BETTER_A", "B_BETTER_A_BY_TOPO"}

-----------------------------------------------------------------------------
(* The loop over the ports that keeps the best non-empty Erbest.  erb[p] is *)
(* the Erbest of port p; the loop remembers the port of Ebest, 0 for none.  *)

EbestOf(erb, b) == IF b = 0 THEN NoDS ELSE erb[b]

\* MUTANT of ScanPort: a verdict by topology does not replace Ebest.
ScanNotByTopo(erb, b, p) ==
  IF erb[p] # NoDS /\ CompareClockDS(EbestOf(erb, b), erb[p]) = "B_BETTER_A"
  THEN p ELSE b

\* The port of Ebest after the loop has looked at port p, b being that before.
ScanPort(erb, b, p) ==
  IF erb[p] # NoDS /\ WorseThan(EbestOf(erb, b), erb[p]) THEN p ELSE b

=============================================================================
