------------------------- MODULE ForeignMasterProofs -------------------------
(***************************************************************************)
(* Proofs about ForeignMaster, for every finite set of neighbours, every   *)
(* window and all jumps of the clock: the cached Erbest is as good as one  *)
(* that is calculated anew each time, and current unless the clock has     *)
(* been set back.                                                          *)
(***************************************************************************)
EXTENDS ForeignMaster, ClockDataSetProofs

-----------------------------------------------------------------------------
(* The messages of one neighbour. *)

\* CleanUp drops messages from the front only, and all of them only if all are
\* too old.
LEMMA CleanUpIs ==
  ASSUME NEW msgs \in Seq(Heard), NEW n \in Int
  PROVE  \E k \in 0 .. Len(msgs) :
           /\ CleanUp(msgs, n) = SubSeq(msgs, k + 1, Len(msgs))
           /\ k = Len(msgs) => \A i \in 1 .. Len(msgs) : msgs[i].rx < n - Window
<1> DEFINE old == {i \in 1 .. Len(msgs) : \A j \in 1 .. i : msgs[j].rx < n - Window}
           k == Cardinality(old)
<1>1. Len(msgs) \in Nat /\ old \in SUBSET (1 .. Len(msgs))
  OBVIOUS
<1>2. IsFiniteSet(1 .. Len(msgs)) /\ Cardinality(1 .. Len(msgs)) = Len(msgs)
  BY <1>1, FS_Interval
<1> HIDE DEF old
<1>3. /\ IsFiniteSet(old) /\ k <= Len(msgs)
      /\ k = Len(msgs) => old = 1 .. Len(msgs)
  BY <1>1, <1>2, FS_Subset
<1>4. k \in 0 .. Len(msgs)
  BY <1>1, <1>3, FS_CardinalityType
<1>5. k = Len(msgs) => \A i \in 1 .. Len(msgs) : msgs[i].rx < n - Window
  <2>1. \A i \in old : i \in 1 .. i /\ \A j \in 1 .. i : msgs[j].rx < n - Window
    BY DEF old
  <2>2. \A i \in old : msgs[i].rx < n - Window
    BY <2>1
  <2> QED BY <1>3, <2>2
<1>6. CleanUp(msgs, n) = SubSeq(msgs, k + 1, Len(msgs))
  BY DEF CleanUp, old
<1> QED BY <1>4, <1>5, <1>6

\* What is left is the end of the sequence.
LEMMA CleanUpTail ==
  ASSUME NEW msgs \in Seq(Heard), NEW n \in Int
  PROVE  /\ CleanUp(msgs, n) \in Seq(Heard) /\ Len(CleanUp(msgs, n)) <= Len(msgs)
         /\ \E k \in Nat : \A i \in 1 .. Len(CleanUp(msgs, n)) :
              i + k \in 1 .. Len(msgs) /\ CleanUp(msgs, n)[i] = msgs[i + k]
<1> DEFINE c == CleanUp(msgs, n)
<1>1. PICK k \in 0 .. Len(msgs) : c = SubSeq(msgs, k + 1, Len(msgs))
  BY CleanUpIs
<1> HIDE DEF c
<1>2. /\ Len(msgs) \in Nat /\ k \in Nat /\ c \in Seq(Heard) /\ Len(c) = Len(msgs) - k
      /\ \A i \in 1 .. Len(c) : i + k \in 1 .. Len(msgs) /\ c[i] = msgs[i + k]
  BY <1>1
<1>3. Len(c) <= Len(msgs)
  BY <1>2
<1> QED BY <1>2, <1>3 DEF c

\* It ends with the last message, and is not empty if that is in the window.
LEMMA CleanUpLast ==
  ASSUME NEW msgs \in Seq(Heard), NEW n \in Int
  PROVE  /\ CleanUp(msgs, n) # <<>> =>
              MostRecent(CleanUp(msgs, n)) = MostRecent(msgs) /\ msgs # <<>>
         /\ msgs # <<>> /\ MostRecent(msgs).rx >= n - Window => CleanUp(msgs, n) # <<>>
<1> DEFINE c == CleanUp(msgs, n)
<1>1. PICK k \in 0 .. Len(msgs) :
        /\ c = SubSeq(msgs, k + 1, Len(msgs))
        /\ k = Len(msgs) => \A i \in 1 .. Len(msgs) : msgs[i].rx < n - Window
  BY CleanUpIs
<1> HIDE DEF c
<1>2. /\ Len(msgs) \in Nat /\ k \in Nat /\ c \in Seq(Heard) /\ Len(c) = Len(msgs) - k
      /\ \A i \in 1 .. Len(c) : i + k \in 1 .. Len(msgs) /\ c[i] = msgs[i + k]
  BY <1>1
<1>3. c # <<>> => MostRecent(c) = MostRecent(msgs) /\ msgs # <<>>
  <2>1. ASSUME c # <<>> PROVE Len(c) \in 1 .. Len(c) /\ Len(c) + k = Len(msgs) /\ Len(msgs) # 0
    BY <1>2, <2>1
  <2> QED BY <1>2, <2>1 DEF MostRecent
<1>4. msgs # <<>> /\ MostRecent(msgs).rx >= n - Window => c # <<>>
  <2>1. SUFFICES ASSUME msgs # <<>>, MostRecent(msgs).rx >= n - Window, c = <<>> PROVE FALSE
    OBVIOUS
  <2>2. k = Len(msgs) /\ Len(msgs) \in 1 .. Len(msgs)
    BY <1>2, <2>1
  <2>3. msgs[Len(msgs)].rx < n - Window /\ msgs[Len(msgs)] \in Heard
    BY <1>1, <2>2
  <2>4. msgs[Len(msgs)].rx \in Int /\ n - Window \in Int
    BY <2>3, MasterAssumption DEF Heard
  <2> QED BY <2>1, <2>3, <2>4 DEF MostRecent
<1> QED BY <1>3, <1>4 DEF c

\* The messages of every neighbour are its own.
Own(masters) ==
  /\ masters \in [Senders -> Seq(Heard)]
  /\ \A s \in Senders : \A i \in 1 .. Len(masters[s]) : masters[s][i].data.sender = s

\* Their reception times are not yet to come and in order, and none is before
\* time zero on a clock that has not been set back.
InOrder(masters, n, back) ==
  \A s \in Senders :
    /\ \A i \in 1 .. Len(masters[s]) :
         masters[s][i].rx <= n /\ (back \/ 0 <= masters[s][i].rx)
    /\ \A i, j \in 1 .. Len(masters[s]) : i < j => masters[s][i].rx <= masters[s][j].rx

\* Both survive a CleanUp of all neighbours.
LEMMA CleanUpAllKeeps ==
  ASSUME NEW masters, Own(masters), NEW n \in Int
  PROVE  /\ Own(CleanUpAll(masters, n))
         /\ \A m \in Int, back \in BOOLEAN :
              InOrder(masters, m, back) => InOrder(CleanUpAll(masters, n), m, back)
<1> DEFINE c == CleanUpAll(masters, n)
<1>1. /\ \A s \in Senders : masters[s] \in Seq(Heard) /\ c[s] = CleanUp(masters[s], n)
      /\ DOMAIN c = Senders /\ c = [s \in Senders |-> CleanUp(masters[s], n)]
  BY DEF Own, CleanUpAll
<1> HIDE DEF c
<1>2. ASSUME NEW s \in Senders
      PROVE  /\ c[s] \in Seq(Heard)
             /\ \E k \in Nat : \A i \in 1 .. Len(c[s]) :
                  i + k \in 1 .. Len(masters[s]) /\ c[s][i] = masters[s][i + k]
  <2>1. masters[s] \in Seq(Heard) /\ c[s] = CleanUp(masters[s], n)
    BY <1>1
  <2>2. \A m \in Seq(Heard) :
          /\ CleanUp(m, n) \in Seq(Heard)
          /\ \E k \in Nat : \A i \in 1 .. Len(CleanUp(m, n)) :
               i + k \in 1 .. Len(m) /\ CleanUp(m, n)[i] = m[i + k]
    BY CleanUpTail
  <2>3. /\ CleanUp(masters[s], n) \in Seq(Heard)
        /\ \E k \in Nat : \A i \in 1 .. Len(CleanUp(masters[s], n)) :
             /\ i + k \in 1 .. Len(masters[s])
             /\ CleanUp(masters[s], n)[i] = masters[s][i + k]
    BY <2>1, <2>2
  <2> QED BY <2>1, <2>3
<1>3. c \in [Senders -> Seq(Heard)]
  BY <1>1, <1>2
<1>4. ASSUME NEW s \in Senders, NEW i \in 1 .. Len(c[s]) PROVE c[s][i].data.sender = s
  BY <1>2, <1>4 DEF Own
<1>5. ASSUME NEW m \in Int, NEW back \in BOOLEAN, InOrder(masters, m, back), NEW s \in Senders
      PROVE  /\ \A i \in 1 .. Len(c[s]) : c[s][i].rx <= m /\ (back \/ 0 <= c[s][i].rx)
             /\ \A i, j \in 1 .. Len(c[s]) : i < j => c[s][i].rx <= c[s][j].rx
  <2>1. PICK k \in Nat : \A i \in 1 .. Len(c[s]) :
                  i + k \in 1 .. Len(masters[s]) /\ c[s][i] = masters[s][i + k]
    BY <1>2
  <2>2. \A i \in 1 .. Len(c[s]) : c[s][i].rx <= m /\ (back \/ 0 <= c[s][i].rx)
    BY <1>5, <2>1 DEF InOrder
  <2>3. ASSUME NEW i \in 1 .. Len(c[s]), NEW j \in 1 .. Len(c[s]), i < j
        PROVE  c[s][i].rx <= c[s][j].rx
    <3>1. i + k < j + k
      BY <2>3
    <3> QED BY <1>5, <2>1, <3>1 DEF InOrder
  <2> QED BY <2>2, <2>3
<1>6. Own(c)
  BY <1>3, <1>4 DEF Own
<1>7. ASSUME NEW m \in Int, NEW back \in BOOLEAN, InOrder(masters, m, back)
      PROVE  InOrder(c, m, back)
  BY <1>5, <1>7 DEF InOrder
<1> QED BY <1>6, <1>7 DEF c

-----------------------------------------------------------------------------
(* The best of the neighbours that have been heard often enough. *)

\* Data sets of different neighbours are compared as by a strict order.
LEMMA NeighboursCompare ==
  ASSUME NEW d \in DataSets, NEW e \in DataSets, d.sender # e.sender
  PROVE  /\ BetterThan(d, e) <=> Precedes(d, e)
         /\ WorseThan(d, e) <=> BetterThan(e, d)
         /\ BetterThan(d, e) \/ BetterThan(e, d)
         /\ ~(BetterThan(d, e) /\ BetterThan(e, d))
<1>1. d \in DataSet /\ e \in DataSet
  BY MasterAssumption
<1>2. Alike(d, e) /\ Alike(e, d)
  BY DataSetsAssumption DEF Alike
<1> QED BY <1>1, <1>2, BetterIsPrecedes

\* Being better is transitive.
LEMMA BetterTransitive ==
  ASSUME NEW d \in DataSets, NEW e \in DataSets, NEW f \in DataSets,
         d.sender # e.sender, e.sender # f.sender, d.sender # f.sender,
         BetterThan(d, e), BetterThan(e, f)
  PROVE  BetterThan(d, f)
<1>1. d \in DataSet /\ e \in DataSet /\ f \in DataSet
  BY MasterAssumption
<1>2. Precedes(d, e) /\ Precedes(e, f)
  BY NeighboursCompare
<1>3. Precedes(d, f)
  BY <1>1, <1>2, PrecedesTransitive
<1> QED BY <1>3, NeighboursCompare

Last(masters, s) == MostRecent(masters[s])

\* What a qualified neighbour has said last.
LEMMA LastHeard ==
  ASSUME NEW masters, Own(masters), NEW s \in Senders, masters[s] # <<>>
  PROVE  /\ Last(masters, s) \in Heard /\ Last(masters, s).data \in DataSets
         /\ Last(masters, s).data.sender = s /\ Last(masters, s).rx \in Int
<1>1. Len(masters[s]) \in 1 .. Len(masters[s]) /\ masters[s] \in Seq(Heard)
  BY DEF Own
<1>2. Last(masters, s) \in Heard
  BY <1>1 DEF Last, MostRecent
<1> QED BY <1>1, <1>2 DEF Last, MostRecent, Own, Heard

\* One of the qualified neighbours is the best: the one that is surpassed by the
\* fewest others.
LEMMA BestExists ==
  ASSUME NEW masters, Own(masters), Qualified(masters) # {}
  PROVE  \E s \in Qualified(masters) :
           \A t \in Qualified(masters) \ {s} :
             BetterThan(Last(masters, s).data, Last(masters, t).data)
<1> DEFINE Q == Qualified(masters)
           d(s) == Last(masters, s).data
           Above(s) == {t \in Q \ {s} : BetterThan(d(t), d(s))}
           Counts == {Cardinality(Above(s)) : s \in Q}
<1>1. Q \in SUBSET Senders /\ \A s \in Q : d(s) \in DataSets /\ d(s).sender = s
  <2>1. \A s \in Q : s \in Senders /\ masters[s] # <<>>
    BY DEF Qualified, Threshold, Own
  <2> QED BY <2>1, LastHeard
<1>2. IsFiniteSet(Q)
  BY <1>1, MasterAssumption, FS_Subset
<1> HIDE DEF Q, d
<1>3. \A s \in Q : IsFiniteSet(Above(s)) /\ Cardinality(Above(s)) \in Nat
  <2>1. ASSUME NEW s \in Q PROVE IsFiniteSet(Above(s)) /\ Cardinality(Above(s)) \in Nat
    <3>1. Above(s) \in SUBSET Q
      OBVIOUS
    <3> HIDE DEF Above
    <3> QED BY <1>2, <3>1, FS_Subset, FS_CardinalityType
  <2> QED BY <2>1
<1>4. PICK n \in Counts : \A m \in Counts : n <= m
  <2>1. Counts \in SUBSET Nat /\ Counts # {}
    BY <1>3 DEF Q
  <2> HIDE DEF Counts
  <2> QED BY <2>1, LeastElement
<1>5. PICK s \in Q : n = Cardinality(Above(s))
  OBVIOUS
<1>6. \A t \in Q : Cardinality(Above(s)) <= Cardinality(Above(t))
  BY <1>4, <1>5
<1>7. ASSUME NEW t \in Q \ {s}, ~BetterThan(d(s), d(t)) PROVE FALSE
  <2>1. BetterThan(d(t), d(s)) /\ t \in Above(s)
    BY <1>1, <1>7, NeighboursCompare
  <2>2. t \notin Above(t) /\ s \notin Above(t)
    BY <1>7
  <2>3. Above(t) \subseteq Above(s)
    <3>1. SUFFICES ASSUME NEW u \in Above(t) PROVE u \in Above(s)
      OBVIOUS
    <3>2. u \in Q /\ u # t /\ u # s /\ BetterThan(d(u), d(t))
      BY <2>2, <3>1
    <3>3. BetterThan(d(u), d(s))
      BY <1>1, <1>7, <2>1, <3>2, BetterTransitive
    <3> QED BY <3>2, <3>3
  <2> HIDE DEF Above
  <2>4. /\ Cardinality(Above(t)) \in Nat /\ Cardinality(Above(s)) \in Nat
        /\ Cardinality(Above(t)) <= Cardinality(Above(s))
        /\ Cardinality(Above(t)) = Cardinality(Above(s)) => Above(s) = Above(t)
    BY <1>3, <1>7, <2>3, FS_Subset
  <2>5. Cardinality(Above(s)) <= Cardinality(Above(t))
    BY <1>6, <1>7
  <2> QED BY <2>1, <2>2, <2>4, <2>5
<1> QED BY <1>7 DEF Q, d

-----------------------------------------------------------------------------
(* The cached Erbest. *)

\* The data set f has these fields.
Is(f, masters, erbest, sender, rx) ==
  /\ f \in MasterDS
  /\ f.masters = masters /\ f.erbest = erbest /\ f.sender = sender /\ f.rx = rx

\* Erbest is what its sender has said last, if that is qualified, and better than
\* what any other qualified neighbour has said last.
Best(f) ==
  \A s \in Qualified(f.masters) :
    IF s = f.sender THEN f.erbest = Last(f.masters, s).data
    ELSE f.erbest # NoDS /\ BetterThan(f.erbest, Last(f.masters, s).data)

Good(f) ==
  /\ f \in MasterDS
  /\ f.erbest # NoDS => f.sender = f.erbest.sender
  /\ Own(f.masters)
  /\ Best(f)

\* A valid Erbest is the last message of its sender.
Current(f, n) ==
  f.erbest # NoDS /\ IsErbestValid(f, n) =>
    /\ f.sender \in Senders /\ f.masters[f.sender] # <<>>
    /\ Last(f.masters, f.sender).data = f.erbest
    /\ Last(f.masters, f.sender).rx >= f.rx

\* CalculateErbest finds the best of the qualified neighbours, if there is one.
LEMMA CalculateErbestIs ==
  ASSUME NEW f \in MasterDS, Own(f.masters), NEW n \in Int,
         NEW m, m = CleanUpAll(f.masters, n), NEW r, r = CalculateErbest(f, n)
  PROVE  /\ Own(m)
         /\ \/ Qualified(m) = {} /\ Is(r, m, NoDS, f.sender, f.rx)
            \/ \E s \in Qualified(m) :
                 /\ s \in Senders /\ m[s] # <<>>
                 /\ Is(r, m, Last(m, s).data, s, Last(m, s).rx)
                 /\ \A t \in Qualified(m) \ {s} :
                      BetterThan(Last(m, s).data, Last(m, t).data)
<1> DEFINE candidates == {MostRecent(m[s]) : s \in Qualified(m)}
           cleaned == [f EXCEPT !.masters = m]
           best(h) == \A g \in candidates : g # h => BetterThan(h.data, g.data)
<1>1. Own(m)
  BY CleanUpAllKeeps
<1>2. r = IF candidates = {} THEN [cleaned EXCEPT !.erbest = NoDS]
          ELSE SetErbest(cleaned, CHOOSE h \in candidates : best(h))
  BY DEF CalculateErbest
<1>3. /\ cleaned \in MasterDS /\ cleaned.masters = m
      /\ cleaned.sender = f.sender /\ cleaned.rx = f.rx
  BY <1>1 DEF MasterDS, Own
<1> HIDE DEF cleaned
<1>4. CASE Qualified(m) = {}
  <2>1. r = [cleaned EXCEPT !.erbest = NoDS]
    BY <1>2, <1>4
  <2>2. Is(r, m, NoDS, f.sender, f.rx)
    BY <1>3, <2>1 DEF Is, MasterDS
  <2> QED BY <1>1, <1>4, <2>2
<1>5. CASE Qualified(m) # {}
  <2>1. ASSUME NEW s \in Qualified(m)
        PROVE  /\ s \in Senders /\ m[s] # <<>> /\ Last(m, s) \in Heard
               /\ Last(m, s).data \in DataSets /\ Last(m, s).data.sender = s
               /\ Last(m, s).rx \in Int
    <3>1. s \in Senders /\ m[s] # <<>>
      BY <1>1 DEF Qualified, Threshold, Own
    <3> QED BY <1>1, <3>1, LastHeard
  <2>2. PICK b \in Qualified(m) : \A t \in Qualified(m) \ {b} :
                                    BetterThan(Last(m, b).data, Last(m, t).data)
    BY <1>1, <1>5, BestExists
  <2>3. Last(m, b) \in candidates /\ best(Last(m, b))
    BY <2>2 DEF Last
  <2> DEFINE h == CHOOSE x \in candidates : best(x)
  <2>4. h \in candidates /\ best(h)
    BY <2>3
  <2>5. r = SetErbest(cleaned, h)
    BY <1>2, <1>5
  <2> HIDE DEF h
  <2>6. PICK s \in Qualified(m) : h = Last(m, s)
    BY <2>4 DEF Last
  <2>7. \A t \in Qualified(m) \ {s} : BetterThan(Last(m, s).data, Last(m, t).data)
    <3>1. SUFFICES ASSUME NEW t \in Qualified(m) \ {s}
                   PROVE  BetterThan(Last(m, s).data, Last(m, t).data)
      OBVIOUS
    <3>2. Last(m, t) \in candidates /\ Last(m, t) # h
      BY <2>1, <2>6 DEF Last
    <3> QED BY <2>4, <2>6, <3>2
  <2>8. Is(r, m, Last(m, s).data, s, Last(m, s).rx)
    <3>1. r = [cleaned EXCEPT !.erbest = h.data, !.sender = h.data.sender, !.rx = h.rx]
      BY <2>5 DEF SetErbest
    <3>2. h.data \in DataSets /\ h.data.sender \in Senders /\ h.rx \in Int /\ h.data.sender = s
      BY <2>1, <2>6
    <3> QED BY <1>3, <2>6, <3>1, <3>2 DEF Is, MasterDS
  <2> QED BY <1>1, <2>1, <2>7, <2>8
<1> QED BY <1>4, <1>5

\* What it finds is good and current.
LEMMA CalculatedIsGood ==
  ASSUME NEW f \in MasterDS, Own(f.masters), NEW n \in Int,
         NEW r, r = CalculateErbest(f, n)
  PROVE  Good(r) /\ Current(r, n) /\ r.masters = CleanUpAll(f.masters, n)
<1> DEFINE m == CleanUpAll(f.masters, n)
<1>1. Own(m) /\ NoDS \notin DataSets
  BY CleanUpAllKeeps, NoDSAssumption, MasterAssumption
<1> HIDE DEF m
<1>2. CASE Qualified(m) = {} /\ Is(r, m, NoDS, f.sender, f.rx)
  BY <1>1, <1>2 DEF Is, Good, Best, Current, m
<1>3. CASE \E s \in Qualified(m) :
             /\ s \in Senders /\ m[s] # <<>>
             /\ Is(r, m, Last(m, s).data, s, Last(m, s).rx)
             /\ \A t \in Qualified(m) \ {s} :
                  BetterThan(Last(m, s).data, Last(m, t).data)
  <2>1. PICK s \in Qualified(m) :
             /\ s \in Senders /\ m[s] # <<>>
             /\ Is(r, m, Last(m, s).data, s, Last(m, s).rx)
             /\ \A t \in Qualified(m) \ {s} :
                  BetterThan(Last(m, s).data, Last(m, t).data)
    BY <1>3
  <2>2. Last(m, s).data \in DataSets /\ Last(m, s).data.sender = s /\ Last(m, s).rx \in Int
    BY <1>1, <2>1, LastHeard
  <2>3. Good(r)
    BY <1>1, <2>1, <2>2 DEF Is, Good, Best
  <2>4. Current(r, n)
    BY <2>1, <2>2 DEF Is, Current
  <2> QED BY <2>1, <2>3, <2>4 DEF Is, m
<1> QED BY <1>2, <1>3, CalculateErbestIs DEF m

-----------------------------------------------------------------------------
(* An Announce message. *)

\* The entries after d has been received at n, with the window cleaned.
Pushed(f, d, n) ==
  LET m == CleanUpAll(f.masters, n)
  IN  [m EXCEPT ![d.sender] = Append(@, [data |-> d, rx |-> n])]

\* One message more, the last one of its sender.
LEMMA PushedIs ==
  ASSUME NEW f \in MasterDS, Own(f.masters), NEW d \in DataSets, NEW n \in Int,
         NEW m, m = CleanUpAll(f.masters, n), NEW q, q = Pushed(f, d, n)
  PROVE  /\ Own(m) /\ Own(q) /\ d.sender \in Senders
         /\ q[d.sender] # <<>> /\ Last(q, d.sender) = [data |-> d, rx |-> n]
         /\ Len(q[d.sender]) = Len(m[d.sender]) + 1
         /\ \A i \in 1 .. Len(m[d.sender]) : q[d.sender][i] = m[d.sender][i]
         /\ \A s \in Senders : s # d.sender => q[s] = m[s]
<1> DEFINE h == [data |-> d, rx |-> n]
           p == d.sender
<1>1. Own(m) /\ p \in Senders /\ m[p] \in Seq(Heard) /\ h \in Heard
  <2>1. p \in Senders
    BY DEF Senders
  <2>2. Own(m)
    BY CleanUpAllKeeps
  <2>3. m[p] \in Seq(Heard)
    BY <2>1, <2>2 DEF Own
  <2>4. h \in Heard
    BY DEF Heard
  <2> QED BY <2>1, <2>2, <2>3, <2>4
<1>2. h.data.sender = p
  OBVIOUS
<1>3. q = [m EXCEPT ![p] = Append(@, h)]
  BY DEF Pushed
<1> HIDE DEF h, p
<1>4. q[p] = Append(m[p], h) /\ \A s \in Senders : s # p => q[s] = m[s]
  BY <1>1, <1>3 DEF Own
<1>5. /\ Len(q[p]) = Len(m[p]) + 1 /\ q[p][Len(q[p])] = h /\ q[p] # <<>>
      /\ \A i \in 1 .. Len(m[p]) : q[p][i] = m[p][i]
      /\ q[p] \in Seq(Heard) /\ Len(m[p]) \in Nat
  BY <1>1, <1>4
<1>6. q \in [Senders -> Seq(Heard)]
  BY <1>1, <1>3, <1>5 DEF Own
<1>7. ASSUME NEW s \in Senders, NEW i \in 1 .. Len(q[s]) PROVE q[s][i].data.sender = s
  <2>1. CASE s # p
    BY <1>1, <1>4, <1>7, <2>1 DEF Own
  <2>2. CASE s = p /\ i = Len(q[p])
    BY <1>2, <1>5, <2>2
  <2>3. CASE s = p /\ i # Len(q[p])
    <3>1. i \in 1 .. Len(m[p])
      BY <1>5, <1>7, <2>3
    <3> QED BY <1>1, <1>5, <2>3, <3>1 DEF Own
  <2> QED BY <2>1, <2>2, <2>3
<1>8. Own(q)
  BY <1>6, <1>7 DEF Own
<1> QED BY <1>1, <1>4, <1>5, <1>8 DEF Last, MostRecent, h, p

\* PushForeignClock: what becomes of Erbest.
LEMMA PushIs ==
  ASSUME NEW f \in MasterDS, Own(f.masters), NEW d \in DataSets, NEW n \in Int,
         NEW m, m = CleanUpAll(f.masters, n), NEW q, q = Pushed(f, d, n),
         NEW r, r = PushForeignClock(f, d, n)
  PROVE  \/ m[d.sender] = <<>> /\ Is(r, q, f.erbest, f.sender, f.rx)
         \/ /\ m[d.sender] # <<>> /\ f.sender = d.sender
            /\ \E x \in MasterDS : x.masters = q /\ r = CalculateErbest(x, n)
         \/ /\ m[d.sender] # <<>> /\ ~IsNewData(m[d.sender], d) /\ f.sender = d.sender
            /\ Is(r, q, f.erbest, f.sender, n)
         \/ /\ m[d.sender] # <<>> /\ WorseThan(f.erbest, d) /\ f.sender # d.sender
            /\ Is(r, q, d, d.sender, n)
         \/ /\ m[d.sender] # <<>> /\ f.sender # d.sender
            /\ ~IsNewData(m[d.sender], d) \/ ~WorseThan(f.erbest, d)
            /\ Is(r, q, f.erbest, f.sender, f.rx)
<1> DEFINE h == [data |-> d, rx |-> n]
           pushed == [f EXCEPT !.masters = q]
<1>1. Own(q) /\ d.sender \in Senders
  BY PushedIs
<1>2. /\ m[d.sender] = <<>> => r = pushed
      /\ m[d.sender] # <<>> /\ f.sender = d.sender /\ IsNewData(m[d.sender], d)
           => r = CalculateErbest(pushed, n)
      /\ m[d.sender] # <<>> /\ f.sender = d.sender /\ ~IsNewData(m[d.sender], d)
           => r = [pushed EXCEPT !.rx = n]
      /\ m[d.sender] # <<>> /\ f.sender # d.sender
           => r = IF IsNewData(m[d.sender], d) /\ WorseThan(f.erbest, d)
                  THEN SetErbest(pushed, h) ELSE pushed
  BY DEF PushForeignClock, Pushed
<1>3. /\ Is(pushed, q, f.erbest, f.sender, f.rx)
      /\ Is([pushed EXCEPT !.rx = n], q, f.erbest, f.sender, n)
      /\ Is(SetErbest(pushed, h), q, d, d.sender, n)
  <2>1. q \in [Senders -> Seq(Heard)]
    BY <1>1 DEF Own
  <2>2. Is(pushed, q, f.erbest, f.sender, f.rx)
    BY <2>1 DEF Is, MasterDS
  <2>3. pushed \in MasterDS
    BY <2>2 DEF Is
  <2>4. SetErbest(pushed, h)
          = [pushed EXCEPT !.erbest = d, !.sender = d.sender, !.rx = n]
    BY DEF SetErbest
  <2> HIDE DEF pushed
  <2>5. Is([pushed EXCEPT !.rx = n], q, f.erbest, f.sender, n)
    BY <2>2, <2>3 DEF Is, MasterDS
  <2>6. Is([pushed EXCEPT !.erbest = d, !.sender = d.sender, !.rx = n], q, d, d.sender, n)
    BY <1>1, <2>2, <2>3 DEF Is, MasterDS
  <2> QED BY <2>2, <2>4, <2>5, <2>6
<1>4. pushed \in MasterDS /\ pushed.masters = q
  BY <1>3 DEF Is
<1> HIDE DEF pushed, h
<1> QED BY <1>2, <1>3, <1>4

\* The cached Erbest stays good.
LEMMA PushKeepsGood ==
  ASSUME NEW f, Good(f), NEW d \in DataSets, NEW n \in Int,
         NEW r, r = PushForeignClock(f, d, n)
  PROVE  Good(r)
<1> DEFINE m == CleanUpAll(f.masters, n)
           q == Pushed(f, d, n)
           p == d.sender
<1>1. f \in MasterDS /\ Own(f.masters) /\ NoDS \notin DataSets
  BY NoDSAssumption, MasterAssumption DEF Good
<1>2. /\ Own(m) /\ Own(q) /\ p \in Senders
      /\ q[p] # <<>> /\ Last(q, p) = [data |-> d, rx |-> n]
      /\ Len(q[p]) = Len(m[p]) + 1 /\ Len(m[p]) \in Nat /\ m[p] \in Seq(Heard)
      /\ \A s \in Senders : s # p => q[s] = m[s]
  BY <1>1, PushedIs DEF Own
<1>3. ASSUME NEW s \in Qualified(m)
      PROVE  s \in Qualified(f.masters) /\ Last(f.masters, s) = Last(m, s)
  <2>1. s \in Senders /\ f.masters[s] \in Seq(Heard) /\ m[s] = CleanUp(f.masters[s], n)
    BY <1>1 DEF Qualified, CleanUpAll, Own
  <2>2. /\ m[s] \in Seq(Heard) /\ Len(m[s]) <= Len(f.masters[s])
        /\ m[s] # <<>> => MostRecent(m[s]) = MostRecent(f.masters[s])
    <3>1. /\ CleanUp(f.masters[s], n) \in Seq(Heard)
          /\ Len(CleanUp(f.masters[s], n)) <= Len(f.masters[s])
      BY <2>1, CleanUpTail
    <3>2. CleanUp(f.masters[s], n) # <<>> =>
            MostRecent(CleanUp(f.masters[s], n)) = MostRecent(f.masters[s])
      BY <2>1, CleanUpLast
    <3> QED BY <2>1, <3>1, <3>2
  <2>3. Len(m[s]) >= 2 /\ Len(m[s]) \in Nat /\ Len(f.masters[s]) \in Nat
    BY <2>1, <2>2 DEF Qualified, Threshold
  <2> HIDE DEF m
  <2> QED BY <2>1, <2>2, <2>3 DEF Qualified, Threshold, Last
\* What is known of the qualified neighbours when the window is clean.
<1>4. ASSUME NEW s \in Qualified(m)
      PROVE  IF s = f.sender THEN f.erbest = Last(m, s).data
             ELSE f.erbest # NoDS /\ BetterThan(f.erbest, Last(m, s).data)
  BY <1>3 DEF Good, Best
<1> HIDE DEF m, q
<1>5. ASSUME NEW s \in Qualified(q), s # p
      PROVE  s \in Qualified(m) /\ Last(q, s) = Last(m, s)
  BY <1>2, <1>5 DEF Qualified, Last
<1>6. ~IsNewData(m[p], d) /\ m[p] # <<>>
        => p \in Qualified(m) /\ Last(m, p).data = d /\ Last(q, p).data = d
  BY <1>2 DEF IsNewData, Qualified, Threshold, Last
<1>7. CASE m[p] = <<>> /\ Is(r, q, f.erbest, f.sender, f.rx)
  <2>1. p \notin Qualified(q)
    <3>1. Len(m[p]) = 0
      BY <1>7
    <3>2. Len(q[p]) = 1
      BY <1>2, <3>1
    <3> QED BY <3>2 DEF Qualified, Threshold
  <2>2. Best(r)
    BY <1>4, <1>5, <1>7, <2>1 DEF Best, Is
  <2> QED BY <1>2, <1>7, <2>2 DEF Is, Good
<1>8. CASE \E x \in MasterDS : x.masters = q /\ r = CalculateErbest(x, n)
  BY <1>2, <1>8, CalculatedIsGood
<1>9. CASE /\ m[p] # <<>> /\ ~IsNewData(m[p], d) /\ f.sender = p
           /\ Is(r, q, f.erbest, f.sender, n)
  <2>1. f.erbest = Last(q, p).data
    BY <1>4, <1>6, <1>9
  <2>2. Best(r)
    BY <1>4, <1>5, <1>9, <2>1 DEF Best, Is
  <2> QED BY <1>2, <1>9, <2>2 DEF Is, Good
<1>10. CASE m[p] # <<>> /\ WorseThan(f.erbest, d) /\ f.sender # p /\ Is(r, q, d, p, n)
  <2>1. ASSUME NEW s \in Qualified(q), s # p
        PROVE  BetterThan(d, Last(q, s).data)
    <3> DEFINE e == Last(m, s).data
    <3>1. s \in Senders /\ s \in Qualified(m) /\ e \in DataSets /\ e.sender = s
            /\ Last(q, s).data = e
      <4>1. s \in Qualified(m) /\ Last(q, s) = Last(m, s)
        BY <1>5, <2>1
      <4>2. s \in Senders /\ m[s] # <<>>
        BY <1>2, <4>1 DEF Qualified, Threshold, Own
      <4> QED BY <1>2, <4>1, <4>2, LastHeard
    <3> HIDE DEF e
    <3>2. f.erbest # NoDS /\ (f.erbest = e \/ (BetterThan(f.erbest, e) /\ s # f.sender))
      <4>1. f.erbest = e \/ (f.erbest # NoDS /\ BetterThan(f.erbest, e) /\ s # f.sender)
        BY <1>4, <3>1 DEF e
      <4> QED BY <1>1, <3>1, <4>1
    <3>3. f.erbest \in DataSets /\ f.erbest.sender = f.sender
      BY <1>1, <3>2 DEF Good, MasterDS
    <3>4. BetterThan(d, f.erbest)
      BY <1>10, <3>3, NeighboursCompare
    <3>5. CASE f.erbest = e
      BY <3>1, <3>4, <3>5
    <3>6. CASE BetterThan(f.erbest, e) /\ s # f.sender
      BY <1>10, <2>1, <3>1, <3>3, <3>4, <3>6, BetterTransitive
    <3> QED BY <3>1, <3>2, <3>5, <3>6
  <2>2. Best(r)
    BY <1>1, <1>2, <1>10, <2>1 DEF Best, Is
  <2> QED BY <1>2, <1>10, <2>2 DEF Is, Good
<1>11. CASE /\ m[p] # <<>> /\ f.sender # p
            /\ ~IsNewData(m[p], d) \/ ~WorseThan(f.erbest, d)
            /\ Is(r, q, f.erbest, f.sender, f.rx)
  <2>1. f.erbest # NoDS /\ BetterThan(f.erbest, d)
    <3>1. CASE ~IsNewData(m[p], d)
      BY <1>4, <1>6, <1>11, <3>1
    <3>2. CASE ~WorseThan(f.erbest, d)
      <4>1. f.erbest # NoDS
        <5>1. d # NoDS
          BY <1>1
        <5>2. WorseThan(NoDS, d)
          BY <5>1 DEF WorseThan, CompareClockDS
        <5> QED BY <3>2, <5>2
      <4>2. f.erbest \in DataSets /\ f.erbest.sender = f.sender
        BY <1>1, <4>1 DEF Good, MasterDS
      <4> QED BY <1>11, <3>2, <4>1, <4>2, NeighboursCompare
    <3> QED BY <1>11, <3>1, <3>2
  <2>2. Best(r)
    BY <1>2, <1>4, <1>5, <1>11, <2>1 DEF Best, Is
  <2> QED BY <1>2, <1>11, <2>2 DEF Is, Good
<1> QED BY <1>1, <1>7, <1>8, <1>9, <1>10, <1>11, PushIs DEF m, q

\* The reception times stay in order.
LEMMA PushedInOrder ==
  ASSUME NEW f \in MasterDS, Own(f.masters), NEW d \in DataSets, NEW n \in Nat,
         NEW back \in BOOLEAN, InOrder(f.masters, n, back),
         NEW q, q = Pushed(f, d, n)
  PROVE  InOrder(q, n, back)
<1> DEFINE m == CleanUpAll(f.masters, n)
           p == d.sender
<1>1. /\ Own(m) /\ Own(q) /\ p \in Senders
      /\ Last(q, p) = [data |-> d, rx |-> n] /\ Len(q[p]) = Len(m[p]) + 1
      /\ \A i \in 1 .. Len(m[p]) : q[p][i] = m[p][i]
      /\ \A s \in Senders : s # p => q[s] = m[s]
  BY PushedIs
<1>2. InOrder(m, n, back)
  BY CleanUpAllKeeps
<1> HIDE DEF m
<1>3. /\ q[p][Len(q[p])].rx = n /\ Len(m[p]) \in Nat
      /\ \A i \in 1 .. Len(q[p]) : i # Len(q[p]) => i \in 1 .. Len(m[p])
  <2>1. Len(m[p]) \in Nat
    BY <1>1 DEF Own
  <2> QED BY <1>1, <2>1 DEF Last, MostRecent
<1>4. ASSUME NEW i \in 1 .. Len(q[p])
      PROVE  q[p][i].rx <= n /\ (back \/ 0 <= q[p][i].rx)
  <2>1. CASE i = Len(q[p])
    BY <1>3, <2>1
  <2>2. CASE i # Len(q[p])
    <3>1. i \in 1 .. Len(m[p]) /\ q[p][i] = m[p][i]
      BY <1>1, <1>3, <2>2
    <3> QED BY <1>1, <1>2, <3>1 DEF InOrder
  <2> QED BY <2>1, <2>2
<1>5. ASSUME NEW i \in 1 .. Len(q[p]), NEW j \in 1 .. Len(q[p]), i < j
      PROVE  q[p][i].rx <= q[p][j].rx
  <2>1. i \in 1 .. Len(m[p]) /\ q[p][i] = m[p][i]
    <3>1. i # Len(q[p])
      BY <1>5
    <3> QED BY <1>1, <1>3, <3>1
  <2>2. CASE j = Len(q[p])
    BY <1>3, <1>4, <2>2
  <2>3. CASE j # Len(q[p])
    <3>1. j \in 1 .. Len(m[p]) /\ q[p][j] = m[p][j]
      BY <1>1, <1>3, <2>3
    <3> QED BY <1>1, <1>2, <1>5, <2>1, <3>1 DEF InOrder
  <2> QED BY <2>2, <2>3
<1> QED BY <1>1, <1>2, <1>4, <1>5 DEF InOrder

\* A valid Erbest that is current is not lost when the window is cleaned.
LEMMA CurrentInWindow ==
  ASSUME NEW f, Good(f), NEW n \in Nat, InOrder(f.masters, n, FALSE), Current(f, n),
         f.erbest # NoDS, IsErbestValid(f, n),
         NEW m, m = CleanUpAll(f.masters, n)
  PROVE  /\ f.sender \in Senders /\ m[f.sender] # <<>>
         /\ Last(m, f.sender) = Last(f.masters, f.sender)
         /\ Last(m, f.sender).data = f.erbest /\ Last(m, f.sender).rx >= f.rx
<1> DEFINE p == f.sender
           b == f.masters[p]
<1>1. /\ p \in Senders /\ b # <<>> /\ MostRecent(b).data = f.erbest
      /\ MostRecent(b).rx >= f.rx
  BY DEF Current, Last
<1>2. b \in Seq(Heard) /\ m[p] = CleanUp(b, n) /\ f.rx \in Int
  BY <1>1 DEF Good, Own, CleanUpAll, MasterDS
<1>3. MostRecent(b).rx \in Int /\ 0 <= MostRecent(b).rx
  <2>1. Len(b) \in 1 .. Len(b) /\ b[Len(b)] \in Heard
    BY <1>1, <1>2
  <2> QED BY <1>1, <2>1 DEF InOrder, MostRecent, Heard
<1>4. MostRecent(b).rx >= n - Window
  <2>1. Window \in Nat
    BY MasterAssumption
  <2>2. CASE n <= Window
    <3>1. n - Window <= 0 /\ n - Window \in Int
      BY <2>1, <2>2
    <3> QED BY <1>3, <3>1
  <2>3. CASE f.rx >= n - Window
    <3>1. n - Window \in Int
      BY <2>1
    <3> QED BY <1>1, <1>2, <1>3, <2>3, <3>1
  <2> QED BY <2>2, <2>3 DEF IsErbestValid
<1> HIDE DEF b
<1>5. CleanUp(b, n) # <<>>
  BY <1>1, <1>2, <1>4, CleanUpLast
<1>6. MostRecent(CleanUp(b, n)) = MostRecent(b)
  BY <1>2, <1>5, CleanUpLast
<1> QED BY <1>1, <1>2, <1>5, <1>6 DEF Last, b

\* After a message, a valid Erbest is current on a clock not set back.
LEMMA PushKeepsCurrent ==
  ASSUME NEW f, Good(f), NEW d \in DataSets, NEW n \in Nat,
         InOrder(f.masters, n, FALSE), Current(f, n),
         NEW r, r = PushForeignClock(f, d, n)
  PROVE  Current(r, n)
<1> DEFINE m == CleanUpAll(f.masters, n)
           q == Pushed(f, d, n)
           p == d.sender
<1>1. f \in MasterDS /\ Own(f.masters) /\ f.rx \in Int
  BY DEF Good, MasterDS
<1>2. /\ Own(m) /\ Own(q) /\ p \in Senders
      /\ q[p] # <<>> /\ Last(q, p) = [data |-> d, rx |-> n]
      /\ Len(q[p]) = Len(m[p]) + 1 /\ m[p] \in Seq(Heard)
      /\ \A s \in Senders : s # p => q[s] = m[s]
  BY <1>1, PushedIs DEF Own
<1>3. ASSUME f.erbest # NoDS, IsErbestValid(f, n)
      PROVE  /\ f.sender \in Senders /\ m[f.sender] # <<>>
             /\ Last(m, f.sender).data = f.erbest /\ Last(m, f.sender).rx >= f.rx
  BY <1>3, CurrentInWindow
<1>4. Good(r)
  BY PushKeepsGood
<1> HIDE DEF m, q
\* Erbest, its sender and reception time are those of f.
<1>5. ASSUME Is(r, q, f.erbest, f.sender, f.rx), m[p] = <<>> \/ f.sender # p
      PROVE  Current(r, n)
  <2>1. SUFFICES ASSUME f.erbest # NoDS, IsErbestValid(f, n)
                 PROVE  /\ f.sender \in Senders /\ q[f.sender] # <<>>
                        /\ Last(q, f.sender).data = f.erbest
                        /\ Last(q, f.sender).rx >= f.rx
    BY <1>5 DEF Is, Current, IsErbestValid
  <2>2. /\ f.sender \in Senders /\ m[f.sender] # <<>>
        /\ Last(m, f.sender).data = f.erbest /\ Last(m, f.sender).rx >= f.rx
    BY <1>3, <2>1
  <2>3. q[f.sender] = m[f.sender]
    BY <1>2, <1>5, <2>2
  <2> QED BY <2>2, <2>3 DEF Last
<1>6. CASE \E x \in MasterDS : x.masters = q /\ r = CalculateErbest(x, n)
  BY <1>2, <1>6, CalculatedIsGood
<1>7. CASE m[p] # <<>> /\ ~IsNewData(m[p], d) /\ f.sender = p /\ Is(r, q, f.erbest, f.sender, n)
  <2>1. Len(q[p]) >= 2
    <3>1. Len(m[p]) \in Nat /\ Len(m[p]) # 0
      BY <1>2, <1>7
    <3> QED BY <1>2, <3>1
  <2>2. p \in Qualified(r.masters) /\ r.sender = p /\ r.masters = q
    BY <1>2, <1>7, <2>1 DEF Is, Qualified, Threshold
  <2>3. r.erbest = Last(q, p).data
    BY <1>4, <2>2 DEF Good, Best
  <2> QED BY <1>2, <1>7, <2>3 DEF Is, Current
<1>8. CASE m[p] # <<>> /\ WorseThan(f.erbest, d) /\ f.sender # p /\ Is(r, q, d, p, n)
  BY <1>2, <1>8 DEF Is, Current
<1> QED BY <1>1, <1>5, <1>6, <1>7, <1>8, PushIs DEF m, q

\* PushForeignClock keeps the order of the reception times.
LEMMA PushKeepsOrder ==
  ASSUME NEW f, Good(f), NEW d \in DataSets, NEW n \in Nat,
         NEW back \in BOOLEAN, InOrder(f.masters, n, back),
         NEW r, r = PushForeignClock(f, d, n)
  PROVE  InOrder(r.masters, n, back)
<1> DEFINE q == Pushed(f, d, n)
<1>1. f \in MasterDS /\ Own(f.masters)
  BY DEF Good
<1>2. Own(q)
  <2>1. n \in Int
    OBVIOUS
  <2> HIDE DEF q
  <2>2. q = Pushed(f, d, n)
    BY DEF q
  <2> QED BY <1>1, <2>1, <2>2, PushedIs
<1>3. InOrder(q, n, back)
  BY <1>1, PushedInOrder
<1> HIDE DEF q
<1>4. CASE r.masters = q
  BY <1>3, <1>4
<1>5. CASE \E x \in MasterDS : x.masters = q /\ r = CalculateErbest(x, n)
  <2>1. r.masters = CleanUpAll(q, n)
    BY <1>2, <1>5, CalculatedIsGood
  <2> QED BY <1>2, <1>3, <2>1, CleanUpAllKeeps
<1> QED BY <1>1, <1>4, <1>5, PushIs DEF q, Is

\* GetErbest keeps what is good and in order, and its answer is current.
LEMMA GetErbestKeeps ==
  ASSUME NEW f, Good(f), NEW n \in Nat, NEW back \in BOOLEAN,
         InOrder(f.masters, n, back), ~back => Current(f, n),
         NEW r, r = GetErbest(f, n)
  PROVE  Good(r) /\ InOrder(r.masters, n, back) /\ (~back => Current(r, n))
<1>1. f \in MasterDS /\ Own(f.masters)
  BY DEF Good
<1>2. CASE IsErbestValid(f, n)
  BY <1>2 DEF GetErbest
<1>3. CASE ~IsErbestValid(f, n)
  <2>1. r = CalculateErbest(f, n)
    BY <1>3 DEF GetErbest
  <2>2. Good(r) /\ Current(r, n) /\ r.masters = CleanUpAll(f.masters, n)
    BY <1>1, <2>1, CalculatedIsGood
  <2> QED BY <1>1, <2>2, CleanUpAllKeeps
<1> QED BY <1>2, <1>3

-----------------------------------------------------------------------------
(* A jump of the clock, and its ticking. *)

\* A jump moves the reception times, and nothing else.
LEMMA AdjustedIs ==
  ASSUME NEW f, Good(f), NEW delta \in Int,
         NEW r, r = AdjustTimestamps(f, delta)
  PROVE  /\ Own(r.masters) /\ r \in MasterDS
         /\ r.erbest = f.erbest /\ r.sender = f.sender /\ r.rx = f.rx
         /\ \A s \in Senders :
              /\ Len(r.masters[s]) = Len(f.masters[s])
              /\ \A i \in 1 .. Len(f.masters[s]) :
                   /\ r.masters[s][i].data = f.masters[s][i].data
                   /\ r.masters[s][i].rx = f.masters[s][i].rx + delta
<1> DEFINE m == f.masters
           moved(h) == [h EXCEPT !.rx = @ + delta]
           q == [s \in Senders |-> [i \in DOMAIN m[s] |-> moved(m[s][i])]]
<1>1. f \in MasterDS /\ Own(m)
  BY DEF Good
<1>2. r = [f EXCEPT !.masters = q]
  BY DEF AdjustTimestamps
<1>3. ASSUME NEW s \in Senders
      PROVE  /\ q[s] \in Seq(Heard) /\ Len(q[s]) = Len(m[s])
             /\ \A i \in 1 .. Len(m[s]) :
                  q[s][i].data = m[s][i].data /\ q[s][i].rx = m[s][i].rx + delta
  <2> DEFINE b == m[s]
             c == [i \in DOMAIN b |-> moved(b[i])]
  <2>1. b \in Seq(Heard) /\ q[s] = c
    BY <1>1 DEF Own
  <2> HIDE DEF b
  <2>2. ASSUME NEW i \in 1 .. Len(b)
        PROVE  moved(b[i]) \in Heard /\ moved(b[i]).data = b[i].data
                 /\ moved(b[i]).rx = b[i].rx + delta
    <3>1. b[i] \in Heard
      BY <2>1
    <3> HIDE DEF b
    <3> QED BY <3>1 DEF Heard
  <2> HIDE DEF moved
  <2>3. DOMAIN b = 1 .. Len(b) /\ Len(b) \in Nat
    BY <2>1
  <2>4. c \in [1 .. Len(b) -> Heard]
    BY <2>2, <2>3
  <2>5. c \in Seq(Heard) /\ Len(c) = Len(b)
    BY <2>3, <2>4
  <2>6. \A i \in 1 .. Len(b) : c[i] = moved(b[i])
    BY <2>3
  <2> HIDE DEF c
  <2> QED BY <2>1, <2>2, <2>5, <2>6 DEF b
<1>4. DOMAIN q = Senders
  OBVIOUS
<1> HIDE DEF q, moved
<1>5. q \in [Senders -> Seq(Heard)]
  <2>1. \A s \in Senders : q[s] \in Seq(Heard)
    BY <1>3
  <2>2. q = [s \in Senders |-> q[s]]
    BY <1>4 DEF q
  <2> QED BY <2>1, <2>2
<1>6. Own(q)
  BY <1>1, <1>3, <1>5 DEF Own
<1>7. /\ r \in MasterDS /\ r.masters = q
      /\ r.erbest = f.erbest /\ r.sender = f.sender /\ r.rx = f.rx
  BY <1>1, <1>2, <1>5 DEF MasterDS
<1> QED BY <1>3, <1>6, <1>7

\* What was valid later is valid earlier.
LEMMA ValidBefore ==
  ASSUME NEW f, NEW g, f.rx \in Int, g.rx = f.rx,
         NEW n \in Nat, NEW k \in Nat, n <= k, IsErbestValid(g, k)
  PROVE  IsErbestValid(f, n)
<1>1. Window \in Nat
  BY MasterAssumption
<1> QED BY <1>1 DEF IsErbestValid

\* A jump keeps what is good and in order, and a jump forward what is current.
LEMMA AdjustedKeeps ==
  ASSUME NEW f, Good(f), NEW delta \in Int, NEW n \in Nat, NEW k \in Nat, k = n + delta,
         NEW back \in BOOLEAN, InOrder(f.masters, n, back), ~back => Current(f, n),
         NEW b, b = (back \/ delta < 0),
         NEW r, r = AdjustTimestamps(f, delta)
  PROVE  Good(r) /\ InOrder(r.masters, k, b) /\ (~b => Current(r, k))
<1> DEFINE m == f.masters
           q == r.masters
<1>1. /\ f \in MasterDS /\ Own(m) /\ Best(f) /\ f.rx \in Int
      /\ f.erbest # NoDS => f.sender = f.erbest.sender
  BY DEF Good, MasterDS
<1>2. /\ Own(q) /\ r \in MasterDS
      /\ r.erbest = f.erbest /\ r.sender = f.sender /\ r.rx = f.rx
  BY AdjustedIs
<1>3. \A s \in Senders :
        /\ Len(q[s]) = Len(m[s])
        /\ \A i \in 1 .. Len(m[s]) :
             q[s][i].data = m[s][i].data /\ q[s][i].rx = m[s][i].rx + delta
  BY AdjustedIs
<1>4. \A s \in Senders : m[s] \in Seq(Heard) /\ q[s] \in Seq(Heard)
  BY <1>1, <1>2 DEF Own
<1>5. \A s \in Senders : \A i \in 1 .. Len(m[s]) : m[s][i].rx \in Int
  <2>1. SUFFICES ASSUME NEW s \in Senders, NEW i \in 1 .. Len(m[s]) PROVE m[s][i].rx \in Int
    OBVIOUS
  <2> HIDE DEF m
  <2>2. m[s][i] \in Heard
    BY <1>4
  <2> QED BY <2>2 DEF Heard
<1> HIDE DEF m, q
<1>6. ASSUME NEW s \in Senders, m[s] # <<>>
      PROVE  /\ q[s] # <<>> /\ Last(q, s).data = Last(m, s).data
             /\ Last(q, s).rx = Last(m, s).rx + delta /\ Last(m, s).rx \in Int
  <2>1. Len(m[s]) \in 1 .. Len(m[s]) /\ Len(q[s]) = Len(m[s])
    BY <1>3, <1>4, <1>6
  <2> QED BY <1>3, <1>4, <1>5, <2>1 DEF Last, MostRecent
<1>7. Good(r)
  <2>1. ASSUME NEW s \in Qualified(q)
        PROVE  s \in Qualified(m) /\ Last(q, s).data = Last(m, s).data
    <3>1. s \in Senders /\ Len(q[s]) = Len(m[s]) /\ Len(q[s]) >= 2
      BY <1>3 DEF Qualified, Threshold
    <3>2. m[s] # <<>> /\ s \in Qualified(m)
      BY <3>1, <1>4 DEF Qualified, Threshold
    <3> QED BY <1>6, <3>1, <3>2
  <2>2. Best(r)
    BY <1>1, <1>2, <2>1 DEF Best, m, q
  <2> QED BY <1>1, <1>2, <2>2 DEF Good, q
<1>8. InOrder(q, k, b)
  <2>1. ASSUME NEW s \in Senders, NEW i \in 1 .. Len(q[s])
        PROVE  q[s][i].rx <= k /\ (b \/ 0 <= q[s][i].rx)
    <3>1. /\ i \in 1 .. Len(m[s]) /\ m[s][i].rx \in Int
          /\ q[s][i].rx = m[s][i].rx + delta
      BY <1>3, <1>5, <2>1
    <3>2. m[s][i].rx <= n /\ (back \/ 0 <= m[s][i].rx)
      BY <3>1 DEF InOrder, m
    <3>3. q[s][i].rx <= k
      BY <3>1, <3>2
    <3>4. CASE back \/ delta < 0
      BY <3>3, <3>4
    <3>5. CASE ~(back \/ delta < 0)
      BY <3>1, <3>2, <3>3, <3>5
    <3> QED BY <3>4, <3>5
  <2>2. ASSUME NEW s \in Senders, NEW i \in 1 .. Len(q[s]), NEW j \in 1 .. Len(q[s]), i < j
        PROVE  q[s][i].rx <= q[s][j].rx
    <3>1. /\ i \in 1 .. Len(m[s]) /\ m[s][i].rx \in Int
          /\ j \in 1 .. Len(m[s]) /\ m[s][j].rx \in Int
          /\ q[s][i].rx = m[s][i].rx + delta /\ q[s][j].rx = m[s][j].rx + delta
      BY <1>3, <1>5, <2>2
    <3>2. m[s][i].rx <= m[s][j].rx
      BY <2>2, <3>1 DEF InOrder, m
    <3> QED BY <3>1, <3>2
  <2> QED BY <2>1, <2>2 DEF InOrder
<1>9. ASSUME ~b PROVE Current(r, k)
  <2>1. delta >= 0 /\ ~back /\ n <= k
    <3>1. ~back /\ ~(delta < 0)
      BY <1>9
    <3> QED BY <3>1
  <2>2. SUFFICES ASSUME r.erbest # NoDS, IsErbestValid(r, k)
                 PROVE  /\ r.sender \in Senders /\ q[r.sender] # <<>>
                        /\ Last(q, r.sender).data = r.erbest
                        /\ Last(q, r.sender).rx >= r.rx
    BY DEF Current, q
  <2>3. IsErbestValid(f, n)
    BY <1>1, <1>2, <2>1, <2>2, ValidBefore
  <2>4. /\ f.sender \in Senders /\ m[f.sender] # <<>>
        /\ Last(m, f.sender).data = f.erbest /\ Last(m, f.sender).rx >= f.rx
    BY <1>2, <2>1, <2>2, <2>3 DEF Current, m
  <2>5. /\ q[f.sender] # <<>> /\ Last(q, f.sender).data = Last(m, f.sender).data
        /\ Last(q, f.sender).rx = Last(m, f.sender).rx + delta
        /\ Last(m, f.sender).rx \in Int
    BY <1>6, <2>4
  <2>6. Last(q, f.sender).rx >= f.rx
    BY <1>1, <2>1, <2>4, <2>5
  <2> QED BY <1>2, <2>4, <2>5, <2>6
<1> QED BY <1>7, <1>8, <1>9 DEF q

\* So does the ticking of the clock.
LEMMA TickKeeps ==
  ASSUME NEW f, Good(f), NEW n \in Nat, NEW back \in BOOLEAN,
         InOrder(f.masters, n, back), ~back => Current(f, n)
  PROVE  InOrder(f.masters, n + 1, back) /\ (~back => Current(f, n + 1))
<1>1. /\ f.rx \in Int
      /\ \A s \in Senders : \A i \in 1 .. Len(f.masters[s]) : f.masters[s][i].rx \in Int
  <2>1. f.rx \in Int
    BY DEF Good, MasterDS
  <2>2. ASSUME NEW s \in Senders, NEW i \in 1 .. Len(f.masters[s])
        PROVE  f.masters[s][i].rx \in Int
    <3>1. f.masters[s] \in Seq(Heard)
      BY DEF Good, Own
    <3>2. f.masters[s][i] \in Heard
      BY <3>1
    <3> QED BY <3>2 DEF Heard
  <2> QED BY <2>1, <2>2
<1>2. InOrder(f.masters, n + 1, back)
  <2>1. ASSUME NEW s \in Senders, NEW i \in 1 .. Len(f.masters[s])
        PROVE  f.masters[s][i].rx <= n + 1
    <3>1. f.masters[s][i].rx <= n /\ f.masters[s][i].rx \in Int
      BY <1>1 DEF InOrder
    <3> QED BY <3>1
  <2> QED BY <2>1 DEF InOrder
<1>3. IsErbestValid(f, n + 1) => IsErbestValid(f, n)
  BY <1>1, ValidBefore
<1> QED BY <1>2, <1>3 DEF Current

-----------------------------------------------------------------------------
(* The invariant. *)

FInv ==
  /\ now \in Nat /\ setBack \in BOOLEAN
  /\ Good(fm) /\ InOrder(fm.masters, now, setBack)
  /\ ~setBack => Current(fm, now)

\* Nothing is heard at first.
LEMMA MasterInit == Init => FInv
<1> SUFFICES ASSUME Init PROVE FInv
  OBVIOUS
<1>1. /\ fm \in MasterDS /\ fm.erbest = NoDS /\ DOMAIN fm.masters = Senders
      /\ \A s \in Senders : fm.masters[s] = <<>> /\ Len(fm.masters[s]) = 0
  BY DEF Init, NoMasters, MasterDS
<1>2. Own(fm.masters) /\ InOrder(fm.masters, now, setBack)
  BY <1>1 DEF Own, InOrder, MasterDS
<1>3. Qualified(fm.masters) = {}
  BY <1>1 DEF Qualified, Threshold
<1> QED BY <1>1, <1>2, <1>3 DEF FInv, Init, Good, Best, Current

\* Every step keeps the invariant.
LEMMA MasterNext == FInv /\ [Next]_vars => FInv'
<1> SUFFICES ASSUME FInv, [Next]_vars PROVE FInv'
  OBVIOUS
<1>1. /\ now \in Nat /\ setBack \in BOOLEAN /\ Good(fm)
      /\ InOrder(fm.masters, now, setBack) /\ (~setBack => Current(fm, now))
  BY DEF FInv
<1>2. ASSUME NEW d \in DataSets, HandleAnnounce(d) PROVE FInv'
  <2> DEFINE r == PushForeignClock(fm, d, now)
  <2>1. Good(r)
    BY <1>1, PushKeepsGood
  <2>2. InOrder(r.masters, now, setBack)
    BY <1>1, PushKeepsOrder
  <2>3. ASSUME ~setBack PROVE Current(r, now)
    BY <1>1, <2>3, PushKeepsCurrent
  <2> HIDE DEF r
  <2>4. fm' = GetErbest(r, now) /\ now' = now /\ setBack' = setBack
    BY <1>2 DEF HandleAnnounce, r
  <2>5. Good(fm') /\ InOrder(fm'.masters, now, setBack) /\ (~setBack => Current(fm', now))
    BY <1>1, <2>1, <2>2, <2>3, <2>4, GetErbestKeeps
  <2> QED BY <1>1, <2>4, <2>5 DEF FInv
<1>3. CASE AskErbest
  <2>1. fm' = GetErbest(fm, now) /\ now' = now /\ setBack' = setBack
    BY <1>3 DEF AskErbest
  <2>2. Good(fm') /\ InOrder(fm'.masters, now, setBack) /\ (~setBack => Current(fm', now))
    BY <1>1, <2>1, GetErbestKeeps
  <2> QED BY <1>1, <2>1, <2>2 DEF FInv
<1>4. ASSUME NEW delta \in Jumps, HandleTimejump(delta) PROVE FInv'
  <2>1. delta \in Int /\ now + delta \in Nat
    BY <1>4, MasterAssumption DEF HandleTimejump
  <2>2. /\ fm' = AdjustTimestamps(fm, delta) /\ now' = now + delta
        /\ setBack' = (setBack \/ delta < 0)
    BY <1>4 DEF HandleTimejump
  <2>3. Good(fm') /\ InOrder(fm'.masters, now', setBack') /\ (~setBack' => Current(fm', now'))
    BY <1>1, <2>1, <2>2, AdjustedKeeps
  <2> QED BY <2>1, <2>2, <2>3 DEF FInv
<1>5. CASE Tick
  <2>1. fm' = fm /\ now' = now + 1 /\ setBack' = setBack
    BY <1>5 DEF Tick
  <2> QED BY <1>1, <2>1, TickKeeps DEF FInv
<1>6. CASE UNCHANGED vars
  BY <1>1, <1>6 DEF vars, FInv
<1> QED BY <1>2, <1>3, <1>4, <1>5, <1>6 DEF Next

\* In every reachable state the data set is sound.
THEOREM MasterInvariance == Spec => []FInv
<1> QED BY MasterInit, MasterNext, PTL DEF Spec

\* The fields of the data set have their types, and a cached Erbest its sender.
THEOREM MasterTypeOK == Spec => []TypeOK
<1>1. FInv => TypeOK
  BY DEF FInv, TypeOK, Good
<1> QED BY <1>1, MasterInvariance, PTL

\* The messages of every neighbour stay in the order of their reception times,
\* whatever the clock does.
THEOREM MasterKeepsOrder == Spec => []HeardInOrder
<1>1. FInv => HeardInOrder
  <2> SUFFICES ASSUME FInv, NEW s \in Senders PROVE
        \A i, j \in DOMAIN fm.masters[s] :
          i < j => fm.masters[s][i].rx <= fm.masters[s][j].rx
    BY DEF HeardInOrder
  <2>1. DOMAIN fm.masters[s] = 1 .. Len(fm.masters[s])
    BY DEF FInv, Good, Own
  <2> QED BY <2>1 DEF FInv, InOrder
<1> QED BY <1>1, MasterInvariance, PTL

\* No qualified neighbour has said last what is better than the answer, although
\* most messages are compared with the cached Erbest only.
THEOREM MasterAnswerIsBest == Spec => []AnswerIsBest
<1>1. FInv => AnswerIsBest
  <2> SUFFICES ASSUME FInv, NEW s \in Qualified(InWindow)
               PROVE  \/ Answer = Last(InWindow, s).data
                      \/ BetterThan(Answer, Last(InWindow, s).data)
    BY DEF AnswerIsBest, Last
  <2> DEFINE m == CleanUpAll(fm.masters, now)
             r == GetErbest(fm, now)
  <2>1. Good(fm) /\ fm \in MasterDS /\ Own(fm.masters) /\ now \in Int /\ now \in Nat
    BY DEF FInv, Good
  <2>2. s \in Qualified(m) /\ Answer = r.erbest
    BY DEF InWindow, Answer
  <2>3. CASE IsErbestValid(fm, now)
    <3>1. r = fm
      BY <2>3 DEF GetErbest
    <3>2. s \in Senders /\ fm.masters[s] \in Seq(Heard) /\ m[s] = CleanUp(fm.masters[s], now)
      BY <2>1, <2>2 DEF Qualified, CleanUpAll, Own
    <3>3. /\ CleanUp(fm.masters[s], now) \in Seq(Heard)
          /\ Len(CleanUp(fm.masters[s], now)) <= Len(fm.masters[s])
      BY <2>1, <3>2, CleanUpTail
    <3>4. CleanUp(fm.masters[s], now) # <<>> =>
            MostRecent(CleanUp(fm.masters[s], now)) = MostRecent(fm.masters[s])
      BY <2>1, <3>2, CleanUpLast
    <3> HIDE DEF m
    <3>5. Len(m[s]) >= 2 /\ Len(m[s]) \in Nat /\ Len(fm.masters[s]) \in Nat
      BY <2>2, <3>2, <3>3 DEF Qualified, Threshold
    <3>6. s \in Qualified(fm.masters) /\ Last(fm.masters, s) = Last(m, s)
      BY <3>2, <3>3, <3>4, <3>5 DEF Qualified, Threshold, Last
    <3> QED BY <2>1, <2>2, <3>1, <3>6 DEF Good, Best, InWindow, m
  <2>4. CASE ~IsErbestValid(fm, now)
    <3>1. r = CalculateErbest(fm, now)
      BY <2>4 DEF GetErbest
    <3> HIDE DEF r
    <3>2. Good(r) /\ r.masters = m
      BY <2>1, <3>1, CalculatedIsGood
    <3> QED BY <2>2, <3>2 DEF Good, Best, InWindow
  <2> QED BY <2>3, <2>4
<1> QED BY <1>1, MasterInvariance, PTL

\* On a clock that has only been set forward the answer is what its sender has
\* said last, and that is not older than the window.
THEOREM MasterAnswerIsCurrent == Spec => []CurrentUnlessSetBack
<1>1. FInv => CurrentUnlessSetBack
  <2> SUFFICES ASSUME FInv, ~setBack, Answer # NoDS
               PROVE  /\ InWindow[Answer.sender] # <<>>
                      /\ Last(InWindow, Answer.sender).data = Answer
    BY DEF CurrentUnlessSetBack, AnswerIsCurrent, Last
  <2> DEFINE m == CleanUpAll(fm.masters, now)
             r == GetErbest(fm, now)
  <2>1. /\ Good(fm) /\ fm \in MasterDS /\ Own(fm.masters) /\ now \in Int /\ now \in Nat
        /\ InOrder(fm.masters, now, FALSE) /\ Current(fm, now)
    <3>1. setBack = FALSE
      BY DEF FInv
    <3>2. InOrder(fm.masters, now, FALSE) /\ Current(fm, now)
      BY <3>1 DEF FInv
    <3>3. now \in Nat /\ Good(fm)
      BY DEF FInv
    <3>4. now \in Int
      BY <3>3
    <3>5. fm \in MasterDS /\ Own(fm.masters)
      BY <3>3 DEF Good
    <3> QED BY <3>2, <3>3, <3>4, <3>5
  <2>2. Answer = r.erbest /\ InWindow = m
    BY DEF InWindow, Answer
  <2>3. CASE IsErbestValid(fm, now)
    <3>1. r = fm
      BY <2>3 DEF GetErbest
    <3> HIDE DEF r
    <3>2. fm.erbest # NoDS /\ fm.sender = fm.erbest.sender
      BY <2>1, <2>2, <3>1 DEF Good
    <3>3. m[fm.sender] # <<>> /\ Last(m, fm.sender).data = fm.erbest
      BY <2>1, <2>3, <3>2, CurrentInWindow
    <3> QED BY <2>2, <3>1, <3>2, <3>3
  <2>4. CASE ~IsErbestValid(fm, now)
    <3>1. r = CalculateErbest(fm, now)
      BY <2>4 DEF GetErbest
    <3> HIDE DEF r
    <3>2. \/ r.erbest = NoDS
          \/ \E s \in Qualified(m) :
               /\ s \in Senders /\ m[s] # <<>>
               /\ Is(r, m, Last(m, s).data, s, Last(m, s).rx)
      BY <2>1, <3>1, CalculateErbestIs DEF Is
    <3>3. PICK s \in Qualified(m) : /\ s \in Senders /\ m[s] # <<>>
                                   /\ Is(r, m, Last(m, s).data, s, Last(m, s).rx)
      BY <2>2, <3>2
    <3>4. Own(m)
      BY <2>1, CleanUpAllKeeps
    <3> HIDE DEF m
    <3>5. Last(m, s).data.sender = s
      BY <3>3, <3>4, LastHeard
    <3> QED BY <2>2, <3>3, <3>5 DEF Is
  <2> QED BY <2>3, <2>4
<1> QED BY <1>1, MasterInvariance, PTL

=============================================================================
