------------------------- MODULE ClockDataSetProofs -------------------------
(***************************************************************************)
(* Lemmas about the comparison of clock data sets and about one iteration  *)
(* of the loop over the ports.                                             *)
(*                                                                         *)
(* The data sets that the ports of one clock received from other ports are *)
(* compared as by a strict linear order: no verdict is an error, and the   *)
(* verdict does not depend on which of two data sets is called A.  The     *)
(* loop's variable therefore always is the best data set seen so far.      *)
(***************************************************************************)
EXTENDS ClockDataSet, FiniteSetTheorems, WellFoundedInduction, TLAPS

\* A non-empty set of natural numbers has a least element.
LEMMA LeastElement ==
  ASSUME NEW S \in SUBSET Nat, S # {}
  PROVE  \E n \in S : \A m \in S : n <= m
<1> DEFINE R == StrictSubsetOrdering(Nat)
           F == FiniteSubsetsOf(Nat)
           T == {0 .. n : n \in S}
<1>1. IsWellFoundedOn(R, F)
  BY FS_StrictSubsetOrderingWellFounded, Zenon
<1>2. T \subseteq F
  <2>1. \A n \in Nat : IsFiniteSet(0 .. n)
    BY FS_Interval
  <2> QED BY <2>1, SMT DEF FiniteSubsetsOf
<1>3. PICK X \in T : \A Y \in T : ~(<<Y, X>> \in R)
  <2>1. T # {} OBVIOUS
  <2> HIDE DEF R, T, F
  <2> QED BY <1>1, <1>2, <2>1, WFMin, Zenon
<1>4. PICK n \in S : X = 0 .. n
  OBVIOUS
<1>5. ASSUME NEW m \in S, m < n PROVE FALSE
  <2>1. 0 .. m \in T
    OBVIOUS
  <2>2. 0 .. m \subseteq 0 .. n /\ 0 .. m # 0 .. n
    <3>1. 0 .. m \subseteq 0 .. n
      BY <1>5
    <3>2. n \in 0 .. n /\ n \notin 0 .. m
      BY <1>5
    <3> QED BY <3>1, <3>2, Zenon
  <2>3. <<0 .. m, 0 .. n>> \in R
    BY <2>2, SMT DEF StrictSubsetOrdering
  <2> QED BY <2>1, <2>3, <1>3, <1>4, Zenon
<1> QED BY <1>5

-----------------------------------------------------------------------------
\* No tuple of numbers precedes itself in the field-by-field order.
LEMMA LexIrreflexive ==
  ASSUME NEW n \in Nat, NEW s \in [1 .. n -> Nat]
  PROVE  ~LexLess(s, s)
BY DEF LexLess

\* The field-by-field order is transitive.
LEMMA LexTransitive ==
  ASSUME NEW n \in Nat,
         NEW s \in [1 .. n -> Nat], NEW t \in [1 .. n -> Nat],
         NEW u \in [1 .. n -> Nat],
         LexLess(s, t), LexLess(t, u)
  PROVE  LexLess(s, u)
<1>1. PICK i \in 1 .. n : s[i] < t[i] /\ \A j \in 1 .. (i-1) : s[j] = t[j]
  BY DEF LexLess
<1>2. PICK k \in 1 .. n : t[k] < u[k] /\ \A j \in 1 .. (k-1) : t[j] = u[j]
  BY DEF LexLess
<1>3. CASE i <= k
  <2>1. s[i] < u[i] /\ \A j \in 1 .. (i-1) : s[j] = u[j]
    BY <1>1, <1>2, <1>3
  <2> QED BY <2>1 DEF LexLess
<1>4. CASE k < i
  <2>1. s[k] < u[k] /\ \A j \in 1 .. (k-1) : s[j] = u[j]
    BY <1>1, <1>2, <1>4
  <2> QED BY <2>1 DEF LexLess
<1> QED BY <1>3, <1>4

\* Two different tuples of numbers are ordered one way or the other.
LEMMA LexTotal ==
  ASSUME NEW n \in Nat, NEW s \in [1 .. n -> Nat], NEW t \in [1 .. n -> Nat],
         s # t
  PROVE  LexLess(s, t) \/ LexLess(t, s)
<1> DEFINE D == {i \in 1 .. n : s[i] # t[i]}
<1>1. D # {}
  OBVIOUS
<1>2. PICK i \in D : \A j \in D : i <= j
  <2> D \in SUBSET Nat
    OBVIOUS
  <2> HIDE DEF D
  <2> QED BY <1>1, LeastElement
<1>3. \A j \in 1 .. (i-1) : s[j] = t[j]
  BY <1>2
<1>4. s[i] < t[i] \/ t[i] < s[i]
  BY <1>2
<1> QED BY <1>3, <1>4 DEF LexLess

\* Tuples of numbers are what these lemmas are about.
LEMMA PathType ==
  ASSUME NEW d \in DataSet
  PROVE  Path(d) \in [1 .. 3 -> Nat]
BY DEF Path, DataSet, PortId

\* So are the five grandmaster attributes.
LEMMA AttributesType ==
  ASSUME NEW a \in Attributes
  PROVE  a \in [1 .. 5 -> Nat]
BY DEF Attributes

\* Port identities compare by clock identity, then by port number
\* (cPortId::operator<).
LEMMA PortLessIs ==
  ASSUME NEW p \in PortId, NEW q \in PortId
  PROVE  PortLess(p, q) <=> \/ p.clock < q.clock
                            \/ p.clock = q.clock /\ p.port < q.port
<1> DEFINE s == <<p.clock, p.port>>
           t == <<q.clock, q.port>>
<1>1. /\ DOMAIN s = 1 .. 2
      /\ s[1] = p.clock /\ s[2] = p.port /\ t[1] = q.clock /\ t[2] = q.port
  OBVIOUS
<1>2. LexLess(s, t) <=> \/ s[1] < t[1]
                        \/ s[1] = t[1] /\ s[2] < t[2]
  <2> HIDE DEF s, t
  <2>1. LexLess(s, t) <=> \E i \in {1, 2} : s[i] < t[i] /\ \A j \in 1 .. (i-1) : s[j] = t[j]
    BY <1>1 DEF LexLess
  <2> QED BY <2>1
<1> QED BY <1>1, <1>2 DEF PortLess

-----------------------------------------------------------------------------
(* On data sets of one round CompareClockDS is a strict linear order.       *)

\* What two data sets have in common that different ports of a clock, or one
\* port from different senders, have received.
Alike(A, B) ==
  /\ A.sender # A.receiver /\ B.sender # B.receiver
  /\ A.receiver.port # B.receiver.port \/ A.sender # B.sender
  /\ A.gm = B.gm => A.attrs = B.attrs

\* The order: attributes, identity, distance, path.
Precedes(A, B) ==
  \/ LexLess(A.attrs, B.attrs)
  \/ A.attrs = B.attrs /\ A.gm < B.gm
  \/ A.attrs = B.attrs /\ A.gm = B.gm /\ A.steps < B.steps
  \/ /\ A.attrs = B.attrs /\ A.gm = B.gm /\ A.steps = B.steps
     /\ LexLess(Path(A), Path(B))

Better == {"A_BETTER_B", "A_BETTER_B_BY_TOPO"}
Worse  == {"B_BETTER_A", "B_BETTER_A_BY_TOPO"}

\* ERROR_1 is ruled out for a data set that was not received by its sender.
LEMMA OneStepCloserVerdict ==
  ASSUME NEW A \in DataSet, NEW B \in DataSet, B.sender # B.receiver
  PROVE  OneStepCloser(A, B) \in Better
<1>1. B.sender \in PortId /\ B.receiver \in PortId
  BY DEF DataSet
<1>2. PortLess(B.receiver, B.sender) \/ PortLess(B.sender, B.receiver)
  <2>1. B.sender.clock # B.receiver.clock \/ B.sender.port # B.receiver.port
    BY <1>1 DEF PortId
  <2>2. /\ B.sender.clock \in Nat /\ B.sender.port \in Nat
        /\ B.receiver.clock \in Nat /\ B.receiver.port \in Nat
    BY <1>1 DEF PortId
  <2> QED BY <1>1, <2>1, <2>2, PortLessIs
<1> QED BY <1>2 DEF OneStepCloser, Better

\* Mirror exchanges the verdicts for A and those for B.
LEMMA MirrorVerdict ==
  /\ \A r \in Better : Mirror(r) \in Worse
  /\ \A r \in Worse : Mirror(r) \in Better
  /\ \A r \in Better \cup Worse : Mirror(Mirror(r)) = r
  /\ Better \cap Worse = {}
BY DEF Mirror, Better, Worse

\* ERROR_2 is ruled out for data sets received by different ports or senders.
LEMMA PathsDiffer ==
  ASSUME NEW A \in DataSet, NEW B \in DataSet, Alike(A, B)
  PROVE  /\ LexLess(Path(A), Path(B)) \/ LexLess(Path(B), Path(A))
         /\ ~(LexLess(Path(A), Path(B)) /\ LexLess(Path(B), Path(A)))
<1>1. Path(A) \in [1 .. 3 -> Nat] /\ Path(B) \in [1 .. 3 -> Nat]
  BY PathType
<1>2. Path(A) # Path(B)
  <2>1. CASE A.receiver.port # B.receiver.port
    BY <2>1 DEF Path
  <2>2. CASE A.sender # B.sender
    <3>1. A.sender \in PortId /\ B.sender \in PortId
      BY DEF DataSet
    <3>2. A.sender.clock # B.sender.clock \/ A.sender.port # B.sender.port
      BY <2>2, <3>1 DEF PortId
    <3> QED BY <3>2 DEF Path
  <2> QED BY <2>1, <2>2 DEF Alike
<1> QED BY <1>1, <1>2, LexTotal, LexTransitive, LexIrreflexive

\* The chain of attribute comparisons in Figure 27 is a strict order.
LEMMA AttributesOrder ==
  ASSUME NEW A \in DataSet, NEW B \in DataSet
  PROVE  /\ A.attrs # B.attrs => LexLess(A.attrs, B.attrs)
                                   \/ LexLess(B.attrs, A.attrs)
         /\ ~(LexLess(A.attrs, B.attrs) /\ LexLess(B.attrs, A.attrs))
         /\ ~LexLess(A.attrs, A.attrs)
<1>1. A.attrs \in [1 .. 5 -> Nat] /\ B.attrs \in [1 .. 5 -> Nat]
  BY AttributesType DEF DataSet
<1> QED BY <1>1, LexTotal, LexTransitive, LexIrreflexive

\* Figure 28.
LEMMA TopologyVerdict ==
  ASSUME NEW A \in DataSet, NEW B \in DataSet, Alike(A, B), A.gm = B.gm
  PROVE  /\ CompareTopology(A, B) \in IF Precedes(A, B) THEN Better ELSE Worse
         /\ CompareTopology(B, A) = Mirror(CompareTopology(A, B))
<1>1. A.steps \in Nat /\ B.steps \in Nat /\ A.gm \in Nat /\ A.attrs = B.attrs
  BY DEF DataSet, Alike
<1>2. ~LexLess(A.attrs, A.attrs)
  BY AttributesOrder
<1>3. OneStepCloser(A, B) \in Better /\ OneStepCloser(B, A) \in Better
  BY OneStepCloserVerdict DEF Alike
<1>4. /\ LexLess(Path(A), Path(B)) \/ LexLess(Path(B), Path(A))
      /\ ~(LexLess(Path(A), Path(B)) /\ LexLess(Path(B), Path(A)))
  BY PathsDiffer
<1>5. Precedes(A, B) <=> \/ A.steps < B.steps
                         \/ A.steps = B.steps /\ LexLess(Path(A), Path(B))
  BY <1>1, <1>2 DEF Precedes
<1>6. CASE A.steps + 1 < B.steps
  BY <1>1, <1>5, <1>6 DEF CompareTopology, Better, Mirror
<1>7. CASE B.steps + 1 < A.steps
  BY <1>1, <1>5, <1>7 DEF CompareTopology, Worse, Mirror
<1>8. CASE A.steps + 1 = B.steps
  <2>1. /\ CompareTopology(A, B) = OneStepCloser(A, B)
        /\ CompareTopology(B, A) = Mirror(OneStepCloser(A, B))
    BY <1>1, <1>8 DEF CompareTopology
  <2> QED BY <1>1, <1>3, <1>5, <1>8, <2>1
<1>9. CASE B.steps + 1 = A.steps
  <2>1. /\ CompareTopology(B, A) = OneStepCloser(B, A)
        /\ CompareTopology(A, B) = Mirror(OneStepCloser(B, A))
    BY <1>1, <1>9 DEF CompareTopology
  <2> QED BY <1>1, <1>3, <1>5, <1>9, <2>1, MirrorVerdict
<1>10. CASE A.steps = B.steps
  BY <1>1, <1>4, <1>5, <1>10 DEF CompareTopology, Better, Worse, Mirror
<1> QED BY <1>1, <1>6, <1>7, <1>8, <1>9, <1>10

\* CompareClockDS is never undecided, decides by the order Precedes, and
\* decides the same whichever data set comes first.
THEOREM Verdict ==
  ASSUME NEW A \in DataSet, NEW B \in DataSet, Alike(A, B)
  PROVE  /\ CompareClockDS(A, B) \in IF Precedes(A, B) THEN Better ELSE Worse
         /\ CompareClockDS(B, A) = Mirror(CompareClockDS(A, B))
<1>1. A # NoDS /\ B # NoDS
  BY NoDSAssumption
<1>2. CASE A.gm = B.gm
  BY <1>1, <1>2, TopologyVerdict DEF CompareClockDS
<1>3. CASE A.gm # B.gm
  <2>1. A.gm \in Nat /\ B.gm \in Nat
    BY DEF DataSet
  <2>2. Precedes(A, B)
          <=> LexLess(A.attrs, B.attrs) \/ (A.attrs = B.attrs /\ A.gm < B.gm)
    BY <1>3 DEF Precedes
  <2>3. CompareClockDS(A, B) = CompareGrandmasters(A, B)
        /\ CompareClockDS(B, A) = CompareGrandmasters(B, A)
    BY <1>1, <1>3 DEF CompareClockDS
  <2>4. CASE A.attrs = B.attrs
    BY <2>1, <2>2, <2>3, <2>4, <1>3, AttributesOrder
       DEF CompareGrandmasters, Mirror, Better, Worse
  <2>5. CASE A.attrs # B.attrs
    BY <2>1, <2>2, <2>3, <2>5, AttributesOrder
       DEF CompareGrandmasters, Mirror, Better, Worse
  <2> QED BY <2>4, <2>5
<1> QED BY <1>2, <1>3

\* The tests that callers make on the verdict decide by the order Precedes.
LEMMA BetterIsPrecedes ==
  ASSUME NEW A \in DataSet, NEW B \in DataSet, Alike(A, B)
  PROVE  /\ BetterThan(A, B) <=> Precedes(A, B)
         /\ WorseThan(A, B) <=> ~Precedes(A, B)
         /\ BetterThan(B, A) <=> ~Precedes(A, B)
BY Verdict, MirrorVerdict DEF BetterThan, WorseThan, Better, Worse

\* The order by which CompareClockDS decides is transitive.
LEMMA PrecedesTransitive ==
  ASSUME NEW A \in DataSet, NEW B \in DataSet, NEW C \in DataSet,
         Precedes(A, B), Precedes(B, C)
  PROVE  Precedes(A, C)
<1>1. /\ A.attrs \in [1 .. 5 -> Nat] /\ B.attrs \in [1 .. 5 -> Nat]
      /\ C.attrs \in [1 .. 5 -> Nat]
  BY AttributesType DEF DataSet
<1>2. LexLess(A.attrs, B.attrs) /\ LexLess(B.attrs, C.attrs)
        => LexLess(A.attrs, C.attrs)
  BY <1>1, LexTransitive
<1>3. LexLess(Path(A), Path(B)) /\ LexLess(Path(B), Path(C))
        => LexLess(Path(A), Path(C))
  BY PathType, LexTransitive
<1>4. /\ A.gm \in Nat /\ B.gm \in Nat /\ C.gm \in Nat
      /\ A.steps \in Nat /\ B.steps \in Nat /\ C.steps \in Nat
  BY DEF DataSet
<1> QED BY <1>2, <1>3, <1>4 DEF Precedes

-----------------------------------------------------------------------------
(* The loop that keeps the best Erbest.                                     *)

\* The Erbests of one round of a clock with N ports.
Round(erb, N) ==
  \A p \in 1 .. N : erb[p] # NoDS =>
    /\ erb[p] \in DataSet
    /\ \A q \in 1 .. N : p # q /\ erb[q] # NoDS => Alike(erb[p], erb[q])

\* b is the port of the best Erbest of the first n ports, 0 if all are empty.
BestOf(erb, n, b) ==
  /\ b \in 0 .. n
  /\ b = 0 <=> \A p \in 1 .. n : erb[p] = NoDS
  /\ b # 0 => erb[b] # NoDS
  /\ \A p \in 1 .. n :
       erb[p] # NoDS /\ p # b => BetterThan(EbestOf(erb, b), erb[p])

\* Before the loop, EbestPortID 0 is right.
LEMMA ScanStart ==
  ASSUME NEW erb
  PROVE  BestOf(erb, 0, 0)
BY DEF BestOf

\* One iteration of the loop: its invariant.
THEOREM ScanStep ==
  ASSUME NEW N \in Nat, NEW erb, Round(erb, N),
         NEW n \in 0 .. (N-1), NEW b, BestOf(erb, n, b)
  PROVE  BestOf(erb, n + 1, ScanPort(erb, b, n + 1))
<1> DEFINE k == n + 1
           d == ScanPort(erb, b, k)
<1>1. /\ b \in 0 .. n /\ k \in 1 .. N /\ k # b
      /\ 1 .. k = (1 .. n) \cup {k} /\ n \in Nat
      /\ \A p \in 1 .. n : p \in 1 .. N /\ p # k
  BY DEF BestOf
<1>2. CASE erb[k] = NoDS
  <2>1. d = b
    BY <1>2 DEF ScanPort
  <2> QED BY <1>1, <1>2, <2>1 DEF BestOf
<1>3. CASE erb[k] # NoDS /\ b = 0
  <2>1. \A p \in 1 .. n : erb[p] = NoDS
    BY <1>3 DEF BestOf
  <2>2. d = k
    BY <1>3 DEF ScanPort, EbestOf, WorseThan, CompareClockDS
  <2> QED BY <1>1, <1>3, <2>1, <2>2 DEF BestOf
<1>4. CASE erb[k] # NoDS /\ b # 0
  <2>1. b \in 1 .. n /\ erb[b] # NoDS /\ EbestOf(erb, b) = erb[b]
    BY <1>1, <1>4 DEF BestOf, EbestOf
  <2>2. erb[b] \in DataSet /\ erb[k] \in DataSet /\ Alike(erb[b], erb[k])
    BY <1>1, <1>4, <2>1 DEF Round
  <2>3. CASE WorseThan(erb[b], erb[k])
    <3>1. d = k /\ EbestOf(erb, k) = erb[k]
      BY <1>1, <1>4, <2>1, <2>3 DEF ScanPort, EbestOf
    <3>2. ~Precedes(erb[b], erb[k]) /\ BetterThan(erb[k], erb[b])
      BY <2>2, <2>3, BetterIsPrecedes
    <3>3. Alike(erb[k], erb[b])
      BY <2>2 DEF Alike
    <3>4. Precedes(erb[k], erb[b])
      BY <2>2, <3>2, <3>3, BetterIsPrecedes
    <3>5. ASSUME NEW p \in 1 .. n, erb[p] # NoDS
          PROVE  BetterThan(erb[k], erb[p])
      <4>1. CASE p = b
        BY <3>2, <4>1
      <4>2. CASE p # b
        <5>1. BetterThan(erb[b], erb[p])
          BY <2>1, <3>5, <4>2 DEF BestOf
        <5>2. /\ erb[p] \in DataSet
              /\ Alike(erb[b], erb[p]) /\ Alike(erb[k], erb[p])
          BY <1>1, <1>4, <2>1, <3>5, <4>2 DEF Round
        <5>3. Precedes(erb[b], erb[p])
          BY <2>2, <5>1, <5>2, BetterIsPrecedes
        <5>4. Precedes(erb[k], erb[p])
          BY <2>2, <3>4, <5>2, <5>3, PrecedesTransitive
        <5> QED BY <2>2, <5>2, <5>4, BetterIsPrecedes
      <4> QED BY <4>1, <4>2
    <3>6. BestOf(erb, k, k)
      BY <1>1, <1>4, <3>1, <3>5 DEF BestOf
    <3> QED BY <3>1, <3>6
  <2>4. CASE ~WorseThan(erb[b], erb[k])
    <3>1. d = b
      BY <2>1, <2>4 DEF ScanPort
    <3>2. BetterThan(erb[b], erb[k])
      BY <2>2, <2>4, BetterIsPrecedes
    <3>3. BestOf(erb, k, b)
      BY <1>1, <1>4, <2>1, <3>2 DEF BestOf
    <3> QED BY <3>1, <3>3
  <2> QED BY <2>3, <2>4
<1> QED BY <1>2, <1>3, <1>4

=============================================================================
