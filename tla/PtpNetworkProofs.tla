-------------------------- MODULE PtpNetworkProofs --------------------------
(***************************************************************************)
(* What holds of the network of master, transparent clocks and slave for   *)
(* every length of the chain, every delay, asymmetry and bound: the types  *)
(* of all its state, that the offset the slave computes is the true one    *)
(* but for the error of the path delay it knows, and that the last Sync of *)
(* the master is used when nothing is lost.                                *)
(*                                                                         *)
(* The lemmas follow a frame: how queues change, what a MAC makes of a     *)
(* frame, what a step of the network then does.  For the offset, books are *)
(* kept beside the network: which Syncs have passed which port, when the   *)
(* master has sent them and what their Follow_Ups have yet to add (the     *)
(* ledger L), and the highest numbers that have entered, left and reached  *)
(* the ports (the marks ent, trans and rec).  The invariant Accounted says *)
(* that there are such books and that every queue, matcher and request     *)
(* agrees with them.                                                       *)
(*                                                                         *)
(* While nothing is lost there are marks that are exact: they name what is *)
(* at the ends of each queue (Full).  The invariant Followed says so, and  *)
(* when all is quiet the marks are the same all along the chain.           *)
(***************************************************************************)
EXTENDS PtpNetwork, FiniteSetTheorems, WellFoundedInduction, TLAPS

-----------------------------------------------------------------------------
(* The frame matchers *)

\* The least element of a set of numbers.
LEMMA LeastNumber ==
  ASSUME NEW S \in SUBSET Nat, S # {}
  PROVE  \E n \in S : \A m \in S : n <= m
<1> DEFINE R == StrictSubsetOrdering(Nat)
           F == FiniteSubsetsOf(Nat)
           T == {0 .. n : n \in S}
<1>1. T \subseteq F
  <2>1. \A n \in Nat : IsFiniteSet(0 .. n)
    BY FS_Interval
  <2> QED BY <2>1, SMT DEF FiniteSubsetsOf
<1>2. PICK X \in T : \A Y \in T : ~(<<Y, X>> \in R)
  <2>1. T # {}
    OBVIOUS
  <2>2. IsWellFoundedOn(R, F)
    BY FS_StrictSubsetOrderingWellFounded, Zenon
  <2> HIDE DEF R, T, F
  <2> QED BY <1>1, <2>1, <2>2, WFMin, Zenon
<1>3. PICK n \in S : X = 0 .. n
  OBVIOUS
<1>4. ASSUME NEW m \in S, m < n PROVE FALSE
  <2>1. 0 .. m \in T
    OBVIOUS
  <2>2. 0 .. m \subseteq 0 .. n
    BY <1>4
  <2>3. n \in 0 .. n /\ n \notin 0 .. m
    BY <1>4
  <2>4. 0 .. m # 0 .. n
    BY <2>3, Zenon
  <2>5. <<0 .. m, 0 .. n>> \in R
    BY <2>2, <2>4, SMT DEF StrictSubsetOrdering
  <2> QED BY <2>1, <2>5, <1>2, <1>3, Zenon
<1> QED BY <1>4

LEMMA UpTo ==
  ASSUME NEW N \in Nat, NEW S, 0 \in S, \A k \in 1 .. N : k - 1 \in S => k \in S
  PROVE  \A k \in 0 .. N : k \in S
<1> DEFINE Left == {k \in 0 .. N : k \notin S}
<1>1. SUFFICES ASSUME Left # {} PROVE FALSE
  OBVIOUS
<1>2. PICK k \in Left : \A m \in Left : k <= m
  <2>1. Left \in SUBSET Nat
    OBVIOUS
  <2> HIDE DEF Left
  <2> QED BY <2>1, <1>1, LeastNumber
<1>3. k \in 1 .. N /\ k - 1 \in 0 .. N /\ k - 1 \notin Left
  BY <1>2
<1> QED BY <1>2, <1>3

\* What the loop has kept of the queue q, of its first n entries.
Kept(q, s, id, n) ==
  CHOOSE f : f = [k \in 0 .. n |-> IF k = 0 THEN <<>>
                                   ELSE IF Outdated(q[k], s, id) THEN f[k - 1]
                                   ELSE Append(f[k - 1], q[k])]

\* The loop that Cleaned describes ends.
LEMMA KeptExists ==
  ASSUME NEW q, NEW s, NEW id, NEW N \in Nat
  PROVE  Kept(q, s, id, N) =
           [k \in 0 .. N |-> IF k = 0 THEN <<>>
                             ELSE IF Outdated(q[k], s, id)
                             THEN Kept(q, s, id, N)[k - 1]
                             ELSE Append(Kept(q, s, id, N)[k - 1], q[k])]
<1> DEFINE Step(k, v) == IF Outdated(q[k], s, id) THEN v ELSE Append(v, q[k])
           Is(f, n) == f = [k \in 0 .. n |-> IF k = 0 THEN <<>> ELSE Step(k, f[k - 1])]
           Missing == {n \in Nat : ~ \E f : Is(f, n)}
<1>1. Missing = {}
  <2>1. SUFFICES ASSUME Missing # {} PROVE FALSE
    OBVIOUS
  <2>2. PICK n \in Missing : \A m \in Missing : n <= m
    BY <2>1, LeastNumber
  <2> HIDE DEF Step
  <2>3. CASE n = 0
    <3> DEFINE f == [k \in 0 .. 0 |-> <<>>]
    <3>1. f = [k \in 0 .. 0 |-> IF k = 0 THEN <<>> ELSE Step(k, f[k - 1])]
      OBVIOUS
    <3> QED BY <3>1, <2>2, <2>3
  <2>4. CASE n # 0
    <3>1. n - 1 \in Nat /\ n - 1 \notin Missing /\ n \in Nat
      BY <2>2, <2>4
    <3>2. PICK g : g = [k \in 0 .. n - 1 |-> IF k = 0 THEN <<>> ELSE Step(k, g[k - 1])]
      BY <3>1
    <3> DEFINE f == [k \in 0 .. n |-> IF k = n THEN Step(n, g[n - 1]) ELSE g[k]]
               h == [k \in 0 .. n |-> IF k = 0 THEN <<>> ELSE Step(k, f[k - 1])]
    <3>3. \A k \in 0 .. n : f[k] = h[k]
      <4>1. TAKE k \in 0 .. n
      <4>2. CASE k = n
        <5>1. f[n - 1] = g[n - 1]
          BY <3>1
        <5> QED BY <4>2, <5>1, <2>4
      <4>3. CASE k # n
        <5>1. k \in 0 .. n - 1 /\ f[k] = g[k]
          BY <4>3, <3>1
        <5>2. CASE k = 0
          BY <5>1, <5>2, <3>2
        <5>3. CASE k # 0
          <6>1. k - 1 \in 0 .. n - 1 /\ k - 1 # n /\ k - 1 \in 0 .. n
            BY <5>1, <5>3, <3>1
          <6>2. f[k - 1] = g[k - 1]
            BY <6>1
          <6> QED BY <5>1, <5>3, <6>2, <3>2
        <5> QED BY <5>2, <5>3
      <4> QED BY <4>2, <4>3
    <3>4. f = h
      BY <3>3
    <3>5. Is(f, n)
      BY <3>4
    <3> QED BY <3>5, <2>2
  <2> QED BY <2>3, <2>4
<1>2. \E f : f = [k \in 0 .. N |-> IF k = 0 THEN <<>>
                                   ELSE IF Outdated(q[k], s, id) THEN f[k - 1]
                                   ELSE Append(f[k - 1], q[k])]
  BY <1>1
<1> QED BY <1>2 DEF Kept

\* The numbers of a matcher rise, and all its entries are of one source.
Rising(q, s) ==
  /\ \A i \in DOMAIN q : q[i].source = s /\ q[i].sequenceId \in Int
  /\ \A i, j \in DOMAIN q : i < j => q[i].sequenceId < q[j].sequenceId

\* What Cleaned leaves are exactly the entries that are not outdated.
LEMMA CleanedLeaves ==
  ASSUME NEW T, NEW q \in Seq(T), NEW s, NEW id
  PROVE  /\ Cleaned(q, s, id) \in Seq(T)
         /\ \A k \in DOMAIN Cleaned(q, s, id) :
              \E i \in DOMAIN q : Cleaned(q, s, id)[k] = q[i] /\ ~Outdated(q[i], s, id)
         /\ \A i \in DOMAIN q : ~Outdated(q[i], s, id) =>
              \E k \in DOMAIN Cleaned(q, s, id) : Cleaned(q, s, id)[k] = q[i]
         /\ Rising(q, s) => Rising(Cleaned(q, s, id), s)
<1> DEFINE N == Len(q)
           f == Kept(q, s, id, N)
           Up(g) == \A k, l \in DOMAIN g : k < l => g[k].sequenceId < g[l].sequenceId
           Leaves(n) ==
             /\ f[n] \in Seq(T)
             /\ \A k \in DOMAIN f[n] :
                  \E i \in 1 .. n : f[n][k] = q[i] /\ ~Outdated(q[i], s, id)
             /\ \A i \in 1 .. n : ~Outdated(q[i], s, id) =>
                  \E k \in DOMAIN f[n] : f[n][k] = q[i]
             /\ Rising(q, s) => Up(f[n])
           S == {n \in 0 .. N : Leaves(n)}
<1>1. N \in Nat /\ DOMAIN q = 1 .. N /\ \A i \in 1 .. N : q[i] \in T
  OBVIOUS
<1>2. f = [k \in 0 .. N |-> IF k = 0 THEN <<>>
                            ELSE IF Outdated(q[k], s, id) THEN f[k - 1]
                            ELSE Append(f[k - 1], q[k])]
  BY <1>1, KeptExists
<1>3. Cleaned(q, s, id) = f[N]
  BY DEF Cleaned, Kept
<1> HIDE DEF f
<1>4. Leaves(0)
  <2>1. f[0] = <<>>
    BY <1>1, <1>2
  <2> QED BY <2>1
<1>5. ASSUME NEW n \in 1 .. N, Leaves(n - 1) PROVE Leaves(n)
  <2>1. n - 1 \in 0 .. N /\ n \in 0 .. N /\ n # 0
    BY <1>1
  <2>2. CASE Outdated(q[n], s, id)
    <3>1. f[n] = f[n - 1]
      BY <1>2, <2>1, <2>2
    <3>2. \A i \in 1 .. n : ~Outdated(q[i], s, id) => i \in 1 .. n - 1
      BY <2>2, <1>1
    <3> QED BY <1>5, <3>1, <3>2
  <2>3. CASE ~Outdated(q[n], s, id)
    <3>1. PICK g : g = f[n - 1]
      OBVIOUS
    <3>2. f[n] = Append(g, q[n])
      BY <1>2, <2>1, <2>3, <3>1
    <3>3. g \in Seq(T) /\ q[n] \in T
      BY <1>1, <1>5, <3>1
    <3>4. /\ f[n] \in Seq(T) /\ Len(g) \in Nat /\ DOMAIN g = 1 .. Len(g)
          /\ DOMAIN f[n] = 1 .. (Len(g) + 1)
          /\ \A k \in 1 .. Len(g) : f[n][k] = g[k]
          /\ f[n][Len(g) + 1] = q[n]
      BY <3>2, <3>3
    <3>5. \A k \in DOMAIN g : \E i \in 1 .. n - 1 : g[k] = q[i] /\ ~Outdated(q[i], s, id)
      BY <1>5, <3>1
    <3>6. ASSUME NEW k \in DOMAIN f[n]
          PROVE  \E i \in 1 .. n : f[n][k] = q[i] /\ ~Outdated(q[i], s, id)
      <4>1. CASE k = Len(g) + 1
        BY <4>1, <3>4, <1>1, <2>3
      <4>2. CASE k # Len(g) + 1
        <5>1. k \in DOMAIN g /\ f[n][k] = g[k]
          BY <4>2, <3>4
        <5>2. PICK i \in 1 .. n - 1 : g[k] = q[i] /\ ~Outdated(q[i], s, id)
          BY <5>1, <3>5
        <5>3. i \in 1 .. n
          BY <1>1
        <5> QED BY <5>1, <5>2, <5>3
      <4> QED BY <4>1, <4>2
    <3>7. ASSUME NEW i \in 1 .. n, ~Outdated(q[i], s, id)
          PROVE  \E k \in DOMAIN f[n] : f[n][k] = q[i]
      <4>1. CASE i = n
        <5>1. Len(g) + 1 \in DOMAIN f[n]
          BY <3>4
        <5> QED BY <4>1, <5>1, <3>4
      <4>2. CASE i # n
        <5>1. i \in 1 .. n - 1
          BY <1>1, <4>2
        <5>2. PICK k \in DOMAIN g : g[k] = q[i]
          BY <5>1, <3>7, <1>5, <3>1
        <5>3. k \in DOMAIN f[n] /\ f[n][k] = g[k]
          BY <3>4
        <5> QED BY <5>2, <5>3
      <4> QED BY <4>1, <4>2
    <3>8. ASSUME Rising(q, s) PROVE Up(f[n])
      <4>1. SUFFICES ASSUME NEW k \in DOMAIN f[n], NEW l \in DOMAIN f[n], k < l
                     PROVE  f[n][k].sequenceId < f[n][l].sequenceId
        OBVIOUS
      <4>2. k \in DOMAIN g /\ f[n][k] = g[k]
        BY <3>4, <4>1
      <4>3. CASE l = Len(g) + 1
        <5>1. PICK i \in 1 .. n - 1 : g[k] = q[i]
          BY <4>2, <3>5
        <5>2. i \in DOMAIN q /\ n \in DOMAIN q /\ i < n
          BY <1>1
        <5> QED BY <4>2, <4>3, <5>1, <5>2, <3>4, <3>8 DEF Rising
      <4>4. CASE l # Len(g) + 1
        <5>1. l \in DOMAIN g /\ f[n][l] = g[l]
          BY <3>4, <4>4
        <5> QED BY <4>1, <4>2, <5>1, <1>5, <3>1, <3>8
      <4> QED BY <4>3, <4>4
    <3> QED BY <3>4, <3>6, <3>7, <3>8
  <2> QED BY <2>2, <2>3
<1>6. Leaves(N)
  <2>1. 0 \in S /\ \A k \in 1 .. N : k - 1 \in S => k \in S
    <3> HIDE DEF Leaves
    <3>1. \A k \in 1 .. N : k - 1 \in 0 .. N /\ k \in 0 .. N
      BY <1>1
    <3>2. 0 \in S
      BY <1>1, <1>4
    <3>3. \A k \in 1 .. N : k - 1 \in S => k \in S
      BY <1>5, <3>1
    <3> QED BY <3>2, <3>3
  <2> HIDE DEF S
  <2>2. \A k \in 0 .. N : k \in S
    BY <2>1, <1>1, UpTo
  <2>3. N \in S
    BY <2>2, <1>1
  <2> QED BY <2>3 DEF S
<1>7. Rising(q, s) => Rising(f[N], s)
  <2>1. SUFFICES ASSUME Rising(q, s) PROVE Rising(f[N], s)
    OBVIOUS
  <2>2. \A k \in DOMAIN f[N] : f[N][k].source = s /\ f[N][k].sequenceId \in Int
    BY <1>1, <1>6, <2>1 DEF Rising
  <2> QED BY <1>6, <2>1, <2>2 DEF Rising
<1>8. PICK c, D : c = f[N] /\ D = 1 .. N
  OBVIOUS
<1>9. /\ c \in Seq(T)
      /\ \A k \in DOMAIN c : \E i \in D : c[k] = q[i] /\ ~Outdated(q[i], s, id)
      /\ \A i \in D : ~Outdated(q[i], s, id) => \E k \in DOMAIN c : c[k] = q[i]
  BY <1>6, <1>8
<1>10. DOMAIN q = D /\ Cleaned(q, s, id) = c /\ (Rising(q, s) => Rising(c, s))
  BY <1>1, <1>3, <1>7, <1>8
<1> HIDE DEF N, f, Leaves, S, Up
<1> QED BY <1>9, <1>10

\* No entry matches; or the entry i does and none before it.
NoneFits(q, s, id) ==
  /\ \A i \in DOMAIN q : ~(q[i].source = s /\ q[i].sequenceId = id)
  /\ Result(q, s, id) = NoMatch /\ Rest(q, s, id) = Cleaned(q, s, id)

FirstFits(q, s, id, i) ==
  /\ q[i].source = s /\ q[i].sequenceId = id
  /\ Result(q, s, id) = [valid |-> TRUE, time |-> q[i].time]
  /\ Rest(q, s, id) = Cleaned(SubSeq(q, 1, i - 1), s, id) \o SubSeq(q, i + 1, Len(q))

\* The first match of a matcher, if there is one.
LEMMA FirstMatch ==
  ASSUME NEW T, NEW q \in Seq(T), NEW s, NEW id
  PROVE  NoneFits(q, s, id) \/ \E i \in DOMAIN q : FirstFits(q, s, id, i)
<1> DEFINE M == Matching(q, s, id)
           Asked(i) == q[i].source = s /\ q[i].sequenceId = id
<1>1. CASE M = {}
  <2> DEFINE F == {i \in DOMAIN q : Asked(i)}
  <2>1. ASSUME F # {} PROVE FALSE
    <3>1. F \in SUBSET Nat
      OBVIOUS
    <3> HIDE DEF F
    <3>2. PICK i \in F : \A j \in F : i <= j
      BY <2>1, <3>1, LeastNumber
    <3>3. i \in DOMAIN q /\ Asked(i)
      BY <3>2 DEF F
    <3>4. \A j \in 1 .. (i - 1) : ~Asked(j)
      <4>1. TAKE j \in 1 .. (i - 1)
      <4>2. j \in DOMAIN q /\ ~(i <= j)
        BY <3>3
      <4> QED BY <4>2, <3>2 DEF F
    <3>5. i \in M
      BY <3>3, <3>4 DEF Matching
    <3> QED BY <3>5, <1>1
  <2>2. \A i \in DOMAIN q : ~Asked(i)
    BY <2>1
  <2> QED BY <1>1, <2>2 DEF Result, Rest, NoneFits
<1>2. CASE M # {}
  <2>1. PICK i : i = CHOOSE x \in M : TRUE
    OBVIOUS
  <2>2. i \in M
    BY <1>2, <2>1
  <2>3. i \in DOMAIN q /\ Asked(i) /\ \A j \in 1 .. (i - 1) : ~Asked(j)
    BY <2>2 DEF Matching
  <2>4. /\ Result(q, s, id) = [valid |-> TRUE, time |-> q[i].time]
        /\ Rest(q, s, id) = Cleaned(SubSeq(q, 1, i - 1), s, id) \o SubSeq(q, i + 1, Len(q))
    BY <1>2, <2>1 DEF Result, Rest
  <2> QED BY <2>3, <2>4 DEF FirstFits
<1> QED BY <1>1, <1>2

LEMMA PopTyped ==
  ASSUME NEW T, NEW q \in Seq(T), NEW s, NEW id, \A e \in T : e.time \in Int
  PROVE  /\ Rest(q, s, id) \in Seq(T)
         /\ Result(q, s, id).time \in Int /\ Result(q, s, id).valid \in BOOLEAN
<1>1. CASE NoneFits(q, s, id)
  BY <1>1, CleanedLeaves DEF NoMatch, NoneFits
<1>2. CASE \E i \in DOMAIN q : FirstFits(q, s, id, i)
  <2>1. PICK i \in DOMAIN q :
          /\ Result(q, s, id) = [valid |-> TRUE, time |-> q[i].time]
          /\ Rest(q, s, id) = Cleaned(SubSeq(q, 1, i - 1), s, id) \o SubSeq(q, i + 1, Len(q))
    BY <1>2 DEF FirstFits
  <2>2. q[i] \in T /\ i \in 1 .. Len(q) /\ Len(q) \in Nat
    OBVIOUS
  <2>3. SubSeq(q, 1, i - 1) \in Seq(T) /\ SubSeq(q, i + 1, Len(q)) \in Seq(T)
    BY <2>2
  <2>4. Cleaned(SubSeq(q, 1, i - 1), s, id) \in Seq(T)
    BY <2>3, CleanedLeaves
  <2> QED BY <2>1, <2>2, <2>3, <2>4
<1> QED BY <1>1, <1>2, FirstMatch

\* A pop from a matcher whose numbers rise answers exactly when the number is there,
\* and leaves exactly the higher numbers.
LEMMA PopRising ==
  ASSUME NEW T, NEW q \in Seq(T), NEW s, NEW id \in Int, Rising(q, s)
  PROVE  /\ Rising(Rest(q, s, id), s)
         /\ \A k \in DOMAIN Rest(q, s, id) :
              /\ Rest(q, s, id)[k].sequenceId > id
              /\ \E i \in DOMAIN q : Rest(q, s, id)[k] = q[i]
         /\ \A i \in DOMAIN q : q[i].sequenceId > id =>
              \E k \in DOMAIN Rest(q, s, id) : Rest(q, s, id)[k] = q[i]
         /\ \A i \in DOMAIN q : q[i].sequenceId = id =>
              Result(q, s, id) = [valid |-> TRUE, time |-> q[i].time]
         /\ (\A i \in DOMAIN q : q[i].sequenceId # id) => Result(q, s, id) = NoMatch
<1> DEFINE r == Rest(q, s, id)
<1>1. \A i \in DOMAIN q : /\ q[i].source = s /\ q[i].sequenceId \in Int
                          /\ Outdated(q[i], s, id) <=> q[i].sequenceId < id
  BY DEF Rising, Outdated
<1>2. CASE NoneFits(q, s, id)
  <2>1. /\ r \in Seq(T) /\ Rising(r, s)
        /\ \A k \in DOMAIN r : \E i \in DOMAIN q : r[k] = q[i] /\ ~Outdated(q[i], s, id)
        /\ \A i \in DOMAIN q : ~Outdated(q[i], s, id) => \E k \in DOMAIN r : r[k] = q[i]
    BY <1>2, CleanedLeaves DEF NoneFits
  <2> HIDE DEF r
  <2>2. \A i \in DOMAIN q : ~Outdated(q[i], s, id) <=> q[i].sequenceId > id
    BY <1>1, <1>2 DEF NoneFits
  <2> QED BY <1>1, <1>2, <2>1, <2>2 DEF r, NoneFits
<1>3. CASE \E i \in DOMAIN q : FirstFits(q, s, id, i)
  <2>1. PICK i \in DOMAIN q :
              /\ q[i].source = s /\ q[i].sequenceId = id
              /\ Result(q, s, id) = [valid |-> TRUE, time |-> q[i].time]
              /\ Rest(q, s, id) = Cleaned(SubSeq(q, 1, i - 1), s, id)
                                    \o SubSeq(q, i + 1, Len(q))
    BY <1>3 DEF FirstFits
  <2>2. PICK a, b, c : /\ a = SubSeq(q, 1, i - 1) /\ b = SubSeq(q, i + 1, Len(q))
                       /\ c = Cleaned(a, s, id)
    OBVIOUS
  <2>3. /\ a \in Seq(T) /\ Len(a) = i - 1 /\ DOMAIN a = 1 .. (i - 1)
        /\ \A k \in 1 .. (i - 1) : a[k] = q[k]
    BY <2>2
  <2>4. /\ b \in Seq(T) /\ Len(b) = Len(q) - i /\ DOMAIN b = 1 .. (Len(q) - i)
        /\ \A k \in 1 .. (Len(q) - i) : b[k] = q[i + k]
    BY <2>2
  <2>5. /\ c \in Seq(T)
        /\ \A k \in DOMAIN c : \E j \in DOMAIN a : c[k] = a[j] /\ ~Outdated(a[j], s, id)
    BY <2>2, <2>3, CleanedLeaves
  <2>6. ASSUME NEW j \in DOMAIN a PROVE Outdated(a[j], s, id)
    <3>1. j \in DOMAIN q /\ j < i /\ a[j] = q[j]
      BY <2>3
    <3> QED BY <3>1, <2>1, <1>1 DEF Rising
  <2>7. c = <<>>
    BY <2>5, <2>6
  <2>8. r = b
    BY <2>1, <2>2, <2>4, <2>7
  <2>9. ASSUME NEW k \in DOMAIN b
        PROVE  i + k \in DOMAIN q /\ i < i + k /\ b[k] = q[i + k] /\ b[k].sequenceId > id
    <3>1. i + k \in DOMAIN q /\ i < i + k /\ b[k] = q[i + k]
      BY <2>4
    <3> QED BY <3>1, <2>1, <1>1 DEF Rising
  <2>10. Rising(b, s)
    <3>1. \A k, l \in DOMAIN b : k < l => i + k < i + l
      BY <2>4
    <3> QED BY <1>1, <2>9, <3>1 DEF Rising
  <2>11. ASSUME NEW j \in DOMAIN q, q[j].sequenceId > id PROVE \E k \in DOMAIN b : b[k] = q[j]
    <3>1. j # i /\ ~(j < i)
      BY <2>1, <2>11, <1>1 DEF Rising
    <3>2. j - i \in DOMAIN b /\ b[j - i] = q[i + (j - i)] /\ i + (j - i) = j
      BY <3>1, <2>4
    <3> QED BY <3>2
  <2>12. \A j \in DOMAIN q : q[j].sequenceId = id => j = i
    <3>1. SUFFICES ASSUME NEW j \in DOMAIN q, q[j].sequenceId = id, j # i PROVE FALSE
      OBVIOUS
    <3>2. i < j \/ j < i
      BY <3>1
    <3> QED BY <3>1, <3>2, <2>1 DEF Rising
  <2>13. \A k \in DOMAIN b : b[k].sequenceId > id /\ \E j \in DOMAIN q : b[k] = q[j]
    BY <2>9
  <2> HIDE DEF r
  <2> QED BY <2>1, <2>8, <2>10, <2>11, <2>12, <2>13 DEF r
<1> QED BY <1>2, <1>3, FirstMatch

-----------------------------------------------------------------------------
(* The types of frames, services and queues *)

PortOrNone == Ports \cup {NoPort}

TimeT == [time : Int, epoch : Int]

EntryT == [source : PortOrNone, sequenceId : Nat, time : Int]

FrameT ==
  [type : FrameTypes, source : Ports, seq : Nat, twoStep : BOOLEAN, origin : Int,
   corr : Int, stamp : TimeT, requester : PortOrNone, reqEgress : Int, receipt : Int,
   rx : PortOrNone, clean : BOOLEAN, epoch : Int]

NicT(n) ==
  [syncFu : Seq(EntryT), delayReqResp : Seq(EntryT), pdelayReqResp : Seq(EntryT),
   pdelayRespFu : Seq(EntryT), asymmetry : [PortsOf(n) -> Int],
   peerMeanPathDelay : [PortsOf(n) -> Int]]

\* A frame of mechanism m: who sends it, and which ports it leaves by.
Genuine(m, f) ==
  /\ f.type \in {"SYNC", "FOLLOW_UP", "DELAY_RESP"} => f.source = MasterPort
  /\ f.type = "DELAY_REQ" => f.source = SlavePort
  /\ f.type = "DELAY_RESP" => f.requester = SlavePort
  /\ f.type \in {"PDELAY_RESP", "PDELAY_RESP_FU"} => f.requester = Peer[f.source]
  /\ f.type \in Delays => m = "E2E"
  /\ f.type \in PDelays => m = "P2P"

LeavesBy(f, p) ==
  IF f.type \in PDelays THEN p = f.source ELSE p \in Down <=> f.type # "DELAY_REQ"

\* The frames in the queues of a port; a triggered Follow_Up comes from no port.
OnWire(m, p) == {f \in FrameT : Genuine(m, f) /\ LeavesBy(f, p)}

InEgress(m, p) ==
  {f \in OnWire(m, p) : \/ f.source = p \/ f.type = "FOLLOW_UP"
                        \/ f.rx \in PortsOf(p[1]) \ {p}}

InIngress(m, p) == {f \in OnWire(m, Peer[p]) : f.rx = p}

\* What the NIC control asks the stack for, and what the stack tells it.
Requests(n) ==
  {r \in [what : {"TRIG_SFU"}, port : PortsOf(n) \cap Down, frame : FrameT] :
     r.port # MasterPort /\ r.frame.type = "SYNC" /\ r.frame.source = MasterPort}

Updates(n) == [what : {"PATH_DELAY"}, port : PortsOf(n), delay : Int]

Messages(n) == Requests(n) \cup Updates(n)

\* What a handler of the MAC p leaves of a frame.
SameFrame(g, f) ==
  /\ g.type = f.type /\ g.source = f.source /\ g.seq = f.seq
  /\ g.requester = f.requester /\ g.rx = f.rx /\ g.stamp = f.stamp
  /\ g.clean = f.clean /\ g.epoch = f.epoch
  /\ g.reqEgress = f.reqEgress /\ g.receipt = f.receipt

SameTables(nic2, nic1) ==
  /\ nic2.asymmetry = nic1.asymmetry /\ nic2.peerMeanPathDelay = nic1.peerMeanPathDelay

MacOf(m, two, p) ==
  [id |-> p, clockType |-> ClockType(p[1]), mechanism |-> m, twoStep |-> two]

-----------------------------------------------------------------------------

LEMMA PushTyped ==
  ASSUME NEW n, NEW ctl \in NicT(n), NEW m \in Matchers, NEW s \in PortOrNone,
         NEW seq \in Nat, NEW time \in Int
  PROVE  /\ Push(ctl, m, s, seq, time) \in NicT(n)
         /\ SameTables(Push(ctl, m, s, seq, time), ctl)
         /\ m = "syncFu" =>
              Push(ctl, m, s, seq, time).syncFu = Append(ctl.syncFu, Entry(s, seq, time))
         /\ m # "syncFu" => Push(ctl, m, s, seq, time).syncFu = ctl.syncFu
<1>1. Entry(s, seq, time) \in EntryT
  BY DEF Entry, EntryT
<1>2. PICK e \in EntryT : e = Entry(s, seq, time)
  BY <1>1
<1>3. PICK r \in Seq(EntryT) : r = Append(ctl[m], e)
  <2>1. ctl[m] \in Seq(EntryT)
    BY DEF NicT, Matchers
  <2>2. Append(ctl[m], e) \in Seq(EntryT)
    BY <2>1
  <2> QED BY <2>2
<1>4. Push(ctl, m, s, seq, time) = [ctl EXCEPT ![m] = r]
  BY <1>2, <1>3 DEF Push, push
<1>5. CASE m = "syncFu"
  BY <1>2, <1>3, <1>5, <1>4 DEF NicT, SameTables
<1>6. CASE m = "delayReqResp"
  BY <1>3, <1>6, <1>4 DEF NicT, SameTables
<1>7. CASE m = "pdelayReqResp"
  BY <1>3, <1>7, <1>4 DEF NicT, SameTables
<1>8. CASE m = "pdelayRespFu"
  BY <1>3, <1>8, <1>4 DEF NicT, SameTables
<1> QED BY <1>5, <1>6, <1>7, <1>8 DEF Matchers

LEMMA PoppedTyped ==
  ASSUME NEW n, NEW ctl \in NicT(n), NEW m \in Matchers, NEW s, NEW seq
  PROVE  /\ Popped(ctl, m, s, seq) \in NicT(n)
         /\ SameTables(Popped(ctl, m, s, seq), ctl)
         /\ m = "syncFu" => Popped(ctl, m, s, seq).syncFu = Rest(ctl.syncFu, s, seq)
         /\ m # "syncFu" => Popped(ctl, m, s, seq).syncFu = ctl.syncFu
         /\ Found(ctl, m, s, seq) \in Int /\ HasMatch(ctl, m, s, seq) \in BOOLEAN
<1>1. ctl[m] \in Seq(EntryT)
  BY DEF NicT, Matchers
<1>2. \A e \in EntryT : e.time \in Int
  BY DEF EntryT
<1>3. /\ Rest(ctl[m], s, seq) \in Seq(EntryT)
      /\ Result(ctl[m], s, seq).time \in Int /\ Result(ctl[m], s, seq).valid \in BOOLEAN
  BY <1>1, <1>2, PopTyped
<1>4. PICK r \in Seq(EntryT) : r = Rest(ctl[m], s, seq)
  BY <1>3
<1>5. Popped(ctl, m, s, seq) = [ctl EXCEPT ![m] = r]
  BY <1>4 DEF Popped
<1>6. CASE m = "syncFu"
  BY <1>3, <1>4, <1>5, <1>6 DEF NicT, SameTables, Found, HasMatch
<1>7. CASE m = "delayReqResp"
  BY <1>3, <1>5, <1>7 DEF NicT, SameTables, Found, HasMatch
<1>8. CASE m = "pdelayReqResp"
  BY <1>3, <1>5, <1>8 DEF NicT, SameTables, Found, HasMatch
<1>9. CASE m = "pdelayRespFu"
  BY <1>3, <1>5, <1>9 DEF NicT, SameTables, Found, HasMatch
<1> QED BY <1>6, <1>7, <1>8, <1>9 DEF Matchers

-----------------------------------------------------------------------------
(* What a MAC does with a frame that leaves *)

OutT(n) == [frame : FrameT, nic : NicT(n), requ : {"NONE", "TRIG_SFU"}, failed : BOOLEAN]

\* An outcome of the frame f and the NIC control ctl of node n.
Outcome(out, f, ctl, n) ==
  out \in OutT(n) /\ SameFrame(out.frame, f) /\ SameTables(out.nic, ctl)

LEMMA OutTyped ==
  ASSUME NEW n, NEW f \in FrameT, NEW g \in FrameT, NEW ctl \in NicT(n), NEW tab \in NicT(n),
         SameFrame(g, f), SameTables(tab, ctl)
  PROVE  Outcome(Out(g, tab), f, ctl, n) /\ Out(g, tab).frame = g /\ Out(g, tab).nic = tab
           /\ Out(g, tab).requ = "NONE" /\ ~Out(g, tab).failed
BY DEF Out, Outcome, OutT

LEMMA ExpectTyped ==
  ASSUME NEW n, NEW f, NEW ctl, NEW out, Outcome(out, f, ctl, n), NEW c \in BOOLEAN
  PROVE  /\ Outcome(Expect(c, out), f, ctl, n)
         /\ Expect(c, out).frame = out.frame /\ Expect(c, out).nic = out.nic
         /\ Expect(c, out).requ = out.requ
         /\ Expect(c, out).failed <=> (out.failed \/ ~c)
BY DEF Expect, Outcome, OutT

LEMMA Corrects ==
  ASSUME NEW f \in FrameT, NEW c \in Int
  PROVE  /\ AddCorrection(f, c) \in FrameT /\ SameFrame(AddCorrection(f, c), f)
         /\ AddCorrection(f, c).corr = f.corr + c /\ AddCorrection(f, c).origin = f.origin
         /\ AddCorrection(f, c).twoStep = f.twoStep
BY DEF AddCorrection, FrameT, SameFrame

LEMMA SetsOrigin ==
  ASSUME NEW f \in FrameT, NEW t \in Int
  PROVE  /\ [f EXCEPT !.origin = t] \in FrameT /\ SameFrame([f EXCEPT !.origin = t], f)
         /\ [f EXCEPT !.origin = t].origin = t /\ [f EXCEPT !.origin = t].corr = f.corr
         /\ [f EXCEPT !.origin = t].twoStep = f.twoStep
BY DEF FrameT, SameFrame

LEMMA SetsTwoStep ==
  ASSUME NEW f \in FrameT
  PROVE  /\ [f EXCEPT !.twoStep = TRUE] \in FrameT
         /\ SameFrame([f EXCEPT !.twoStep = TRUE], f)
         /\ [f EXCEPT !.twoStep = TRUE].origin = f.origin
         /\ [f EXCEPT !.twoStep = TRUE].corr = f.corr
         /\ [f EXCEPT !.twoStep = TRUE].twoStep
BY DEF FrameT, SameFrame

LEMMA SameItself == \A f : SameFrame(f, f)
BY DEF SameFrame

LEMMA TablesStay == \A ctl : SameTables(ctl, ctl)
BY DEF SameTables

LEMMA ResidenceTyped ==
  ASSUME NEW n, NEW ctl \in NicT(n), NEW f \in FrameT, NEW q \in PortsOf(n),
         NEW clk \in TimeT, NEW mac
  PROVE  CalcResidenceTime(mac, ctl, f, q, clk) \in Int
<1>1. ctl.peerMeanPathDelay[q] \in Int
  BY DEF NicT
<1>2. clk.time \in Int /\ f.stamp.time \in Int
  BY DEF TimeT, FrameT
<1> QED BY <1>1, <1>2 DEF CalcResidenceTime

\* Own frames.
LEMMA OwnSync ==
  ASSUME NEW p \in Ports, NEW m, NEW two \in BOOLEAN, NEW n, n = p[1], NEW ctl \in NicT(n),
         NEW f \in FrameT, NEW clk \in TimeT,
         NEW out, out = HandleEgressOwnSync(MacOf(m, two, p), ctl, f, clk)
  PROVE  /\ Outcome(out, f, ctl, n) /\ out.requ = "NONE"
         /\ out.failed <=> two # f.twoStep
         /\ out.frame.twoStep = f.twoStep /\ out.frame.corr = f.corr
         /\ IF two
            THEN /\ out.nic.syncFu = Append(ctl.syncFu, Entry(f.source, f.seq, clk.time))
            ELSE out.nic = ctl /\ out.frame.origin = clk.time
<1>1. /\ clk.time \in Int /\ f.source \in PortOrNone /\ f.seq \in Nat /\ f.twoStep \in BOOLEAN
      /\ "syncFu" \in Matchers
  BY DEF TimeT, FrameT, PortOrNone, Matchers
<1>2. PICK s \in PortOrNone, seq \in Nat, t \in Int, k \in Matchers :
        s = f.source /\ seq = f.seq /\ t = clk.time /\ k = "syncFu"
  BY <1>1
<1>3. PICK tab : tab = Push(ctl, k, s, seq, t)
  OBVIOUS
<1>4. /\ tab \in NicT(n) /\ SameTables(tab, ctl)
      /\ tab.syncFu = Append(ctl.syncFu, Entry(s, seq, t))
  <2>1. /\ Push(ctl, k, s, seq, t) \in NicT(n) /\ SameTables(Push(ctl, k, s, seq, t), ctl)
        /\ k = "syncFu" =>
             Push(ctl, k, s, seq, t).syncFu = Append(ctl.syncFu, Entry(s, seq, t))
    BY PushTyped
  <2> QED BY <2>1, <1>2, <1>3
<1>5. PICK g : g = [f EXCEPT !.origin = t]
  OBVIOUS
<1>6. /\ g \in FrameT /\ SameFrame(g, f) /\ g.origin = t /\ g.corr = f.corr
      /\ g.twoStep = f.twoStep
  BY <1>5, SetsOrigin
<1>7. PICK c \in BOOLEAN : c = (two = f.twoStep)
  OBVIOUS
<1>8. PICK o : o = IF two THEN Out(f, tab) ELSE Out(g, ctl)
  OBVIOUS
<1>9. out = Expect(c, o)
  BY <1>2, <1>3, <1>5, <1>7, <1>8 DEF HandleEgressOwnSync, MacOf
<1>10. /\ Outcome(o, f, ctl, n) /\ o.requ = "NONE" /\ ~o.failed
       /\ IF two THEN o.frame = f /\ o.nic = tab ELSE o.frame = g /\ o.nic = ctl
  <2>1. CASE two
    <3>1. /\ Outcome(Out(f, tab), f, ctl, n) /\ Out(f, tab).frame = f /\ Out(f, tab).nic = tab
          /\ Out(f, tab).requ = "NONE" /\ ~Out(f, tab).failed
      BY <1>4, OutTyped, SameItself
    <3> QED BY <3>1, <2>1, <1>8
  <2>2. CASE ~two
    <3>1. /\ Outcome(Out(g, ctl), f, ctl, n) /\ Out(g, ctl).frame = g
          /\ Out(g, ctl).nic = ctl /\ Out(g, ctl).requ = "NONE" /\ ~Out(g, ctl).failed
      BY <1>6, OutTyped, TablesStay
    <3> QED BY <3>1, <2>2, <1>8
  <2> QED BY <2>1, <2>2
<1>11. /\ Outcome(out, f, ctl, n) /\ out.frame = o.frame /\ out.nic = o.nic
       /\ out.requ = o.requ
       /\ out.failed <=> (o.failed \/ ~c)
  BY <1>9, <1>10, ExpectTyped
<1>12. out.failed <=> two # f.twoStep
  BY <1>1, <1>7, <1>10, <1>11
<1>13. out.frame.twoStep = f.twoStep /\ out.frame.corr = f.corr
  BY <1>6, <1>10, <1>11
<1>14. Outcome(out, f, ctl, n) /\ out.requ = "NONE"
  BY <1>10, <1>11
<1>15. CASE two
  BY <1>2, <1>4, <1>10, <1>11, <1>12, <1>13, <1>14, <1>15
<1>16. CASE ~two
  BY <1>2, <1>6, <1>10, <1>11, <1>12, <1>13, <1>14, <1>16
<1> QED BY <1>15, <1>16

LEMMA OwnFollowUp ==
  ASSUME NEW p \in Ports, NEW m, NEW two \in BOOLEAN, NEW n, n = p[1], NEW ctl \in NicT(n),
         NEW f \in FrameT, NEW clk \in TimeT,
         NEW out, out = HandleEgressOwnFollowUp(MacOf(m, two, p), ctl, f, clk)
  PROVE  /\ Outcome(out, f, ctl, n) /\ out.requ = "NONE"
         /\ out.failed <=> ~two
         /\ out.nic.syncFu = Rest(ctl.syncFu, f.source, f.seq)
         /\ out.frame.corr = f.corr
         /\ Result(ctl.syncFu, f.source, f.seq).valid =>
              out.frame.origin = Result(ctl.syncFu, f.source, f.seq).time
<1>1. "syncFu" \in Matchers
  BY DEF Matchers
<1>2. PICK tab : tab = Popped(ctl, "syncFu", f.source, f.seq)
  OBVIOUS
<1>3. PICK t : t = Result(ctl.syncFu, f.source, f.seq).time
  OBVIOUS
<1>4. /\ tab \in NicT(n) /\ SameTables(tab, ctl) /\ t \in Int
      /\ tab.syncFu = Rest(ctl.syncFu, f.source, f.seq)
  BY <1>1, <1>2, <1>3, PoppedTyped DEF Found
<1>5. PICK g : g = IF Result(ctl.syncFu, f.source, f.seq).valid
                   THEN [f EXCEPT !.origin = t] ELSE f
  OBVIOUS
<1>6. g \in FrameT /\ SameFrame(g, f) /\ g.corr = f.corr
      /\ (Result(ctl.syncFu, f.source, f.seq).valid => g.origin = t)
  BY <1>4, <1>5, SetsOrigin, SameItself
<1>7. out = Expect(two, Out(g, tab))
  BY <1>2, <1>3, <1>5 DEF HandleEgressOwnFollowUp, MacOf, HasMatch, Found
<1>8. /\ Outcome(Out(g, tab), f, ctl, n) /\ Out(g, tab).frame = g /\ Out(g, tab).nic = tab
      /\ Out(g, tab).requ = "NONE" /\ ~Out(g, tab).failed
  BY <1>4, <1>6, OutTyped
<1> QED BY <1>3, <1>4, <1>6, <1>7, <1>8, ExpectTyped

\* An outcome that requests nothing.
LEMMA Expected ==
  ASSUME NEW n, NEW f \in FrameT, NEW ctl \in NicT(n), NEW g \in FrameT, NEW tab \in NicT(n),
         SameFrame(g, f), SameTables(tab, ctl), NEW c, NEW out, out = Expect(c, Out(g, tab))
  PROVE  /\ Outcome(out, f, ctl, n)
         /\ out.frame = g
         /\ out.nic = tab
         /\ out.requ = "NONE"
         /\ out.failed <=> ~c
<1>1. PICK b \in BOOLEAN : b <=> ~c
  OBVIOUS
<1>2. out = [frame |-> g, nic |-> tab, requ |-> "NONE", failed |-> b]
  BY <1>1, Zenon DEF Expect, Out
<1>3. out \in OutT(n)
  BY <1>1, <1>2 DEF OutT
<1>4. out.frame = g /\ out.nic = tab /\ out.requ = "NONE" /\ out.failed = b
  BY <1>2
<1> QED BY <1>1, <1>3, <1>4 DEF Outcome

\* Nothing of the matcher of Syncs is touched.
Untouched(out, f, ctl, n) ==
  Outcome(out, f, ctl, n) /\ out.requ = "NONE" /\ out.nic.syncFu = ctl.syncFu

LEMMA OwnDelayReq ==
  ASSUME NEW p \in Ports, NEW m, NEW two \in BOOLEAN, NEW n, n = p[1], NEW ctl \in NicT(n),
         NEW f \in FrameT, NEW clk \in TimeT,
         NEW out, \/ out = HandleEgressOwnDelayReq(MacOf(m, two, p), ctl, f, clk)
                  \/ out = HandleEgressOwnPDelayReq(MacOf(m, two, p), ctl, f, clk)
  PROVE  Untouched(out, f, ctl, n)
<1>1. /\ clk.time \in Int /\ f.seq \in Nat /\ p \in PortOrNone
      /\ {"delayReqResp", "pdelayReqResp"} \subseteq Matchers
  BY DEF TimeT, FrameT, PortOrNone, Matchers
<1>2. PICK a \in Int : a = -ctl.asymmetry[p]
  <2>1. p \in PortsOf(n) /\ ctl.asymmetry \in [PortsOf(n) -> Int]
    BY DEF PortsOf, NicT
  <2> QED BY <2>1
<1>3. PICK g : g = AddCorrection(f, a)
  OBVIOUS
<1>4. g \in FrameT /\ SameFrame(g, f)
  BY <1>3, Corrects
<1>5. PICK k, c :
        k \in Matchers \ {"syncFu"} /\ out = Expect(c, Out(g, Push(ctl, k, p, f.seq, clk.time)))
  BY <1>1, <1>2, <1>3 DEF HandleEgressOwnDelayReq, HandleEgressOwnPDelayReq, MacOf
<1>6. PICK tab : tab = Push(ctl, k, p, f.seq, clk.time)
  OBVIOUS
<1>7. tab \in NicT(n) /\ SameTables(tab, ctl) /\ tab.syncFu = ctl.syncFu
  BY <1>1, <1>5, <1>6, PushTyped
<1> QED BY <1>4, <1>5, <1>6, <1>7, Expected DEF Untouched

\* A pop that leaves the matcher of Syncs alone.
LEMMA PopElsewhere ==
  ASSUME NEW n, NEW ctl \in NicT(n), NEW k \in Matchers \ {"syncFu"}, NEW s, NEW seq
  PROVE  /\ Popped(ctl, k, s, seq) \in NicT(n)
         /\ SameTables(Popped(ctl, k, s, seq), ctl)
         /\ Popped(ctl, k, s, seq).syncFu = ctl.syncFu
         /\ Found(ctl, k, s, seq) \in Int
BY PoppedTyped

LEMMA OwnDelayResp ==
  ASSUME NEW p \in Ports, NEW m, NEW two \in BOOLEAN, NEW n, n = p[1], NEW ctl \in NicT(n),
         NEW f \in FrameT, NEW clk \in TimeT,
         NEW out, out = HandleEgressOwnDelayResp(MacOf(m, two, p), ctl, f, clk)
  PROVE  Untouched(out, f, ctl, n)
<1>1. PICK c : out = Expect(c, Out(f, ctl))
  BY DEF HandleEgressOwnDelayResp
<1> QED BY <1>1, Expected, SameItself, TablesStay DEF Untouched

LEMMA OwnPDelayResp ==
  ASSUME NEW p \in Ports, NEW m, NEW two \in BOOLEAN, NEW n, n = p[1], NEW ctl \in NicT(n),
         NEW f \in FrameT, NEW clk \in TimeT,
         NEW out, out = HandleEgressOwnPDelayResp(MacOf(m, two, p), ctl, f, clk)
  PROVE  Untouched(out, f, ctl, n)
<1>1. /\ clk.time \in Int /\ f.seq \in Nat /\ f.requester \in PortOrNone
      /\ "pdelayRespFu" \in Matchers \ {"syncFu"}
  BY DEF TimeT, FrameT, PortOrNone, Matchers
<1>2. PICK k \in Matchers \ {"syncFu"} : k = "pdelayRespFu"
  BY <1>1
<1>3. PICK rest, found : /\ rest = Popped(ctl, k, f.requester, f.seq)
                         /\ found = Found(ctl, k, f.requester, f.seq)
  OBVIOUS
<1>4. /\ rest \in NicT(n) /\ SameTables(rest, ctl) /\ rest.syncFu = ctl.syncFu
      /\ found \in Int
  BY <1>3, PopElsewhere
<1>5. PICK e \in Int : e = clk.time - found
  BY <1>1, <1>4
<1>6. PICK tab : tab = Push(rest, k, f.requester, f.seq, e)
  OBVIOUS
<1>7. tab \in NicT(n) /\ SameTables(tab, rest) /\ tab.syncFu = rest.syncFu
  BY <1>1, <1>4, <1>6, PushTyped
<1>8. PICK g : g = AddCorrection(f, e)
  OBVIOUS
<1>9. g \in FrameT /\ SameFrame(g, f)
  BY <1>8, Corrects
<1>10. PICK c : \/ out = Expect(c, Out(f, rest))
                \/ out = Expect(c, Out(f, tab))
                \/ out = Expect(c, Out(g, rest))
  BY <1>2, <1>3, <1>5, <1>6, <1>8, Zenon DEF HandleEgressOwnPDelayResp
<1>11. SameTables(tab, ctl)
  BY <1>4, <1>7 DEF SameTables
<1>12. CASE out = Expect(c, Out(f, rest))
  BY <1>4, <1>12, Expected, SameItself DEF Untouched
<1>13. CASE out = Expect(c, Out(f, tab))
  BY <1>4, <1>7, <1>11, <1>13, Expected, SameItself DEF Untouched
<1>14. CASE out = Expect(c, Out(g, rest))
  BY <1>4, <1>9, <1>14, Expected DEF Untouched
<1> QED BY <1>10, <1>12, <1>13, <1>14

LEMMA OwnPDelayRespFU ==
  ASSUME NEW p \in Ports, NEW m, NEW two \in BOOLEAN, NEW n, n = p[1], NEW ctl \in NicT(n),
         NEW f \in FrameT, NEW clk \in TimeT,
         NEW out, out = HandleEgressOwnPDelayRespFU(MacOf(m, two, p), ctl, f, clk)
  PROVE  Untouched(out, f, ctl, n)
<1>1. PICK k \in Matchers \ {"syncFu"} : k = "pdelayRespFu"
  BY DEF Matchers
<1>2. PICK rest, found : /\ rest = Popped(ctl, k, f.requester, f.seq)
                         /\ found = Found(ctl, k, f.requester, f.seq)
  OBVIOUS
<1>3. /\ rest \in NicT(n) /\ SameTables(rest, ctl) /\ rest.syncFu = ctl.syncFu
      /\ found \in Int
  BY <1>2, PopElsewhere
<1>4. PICK h : h = [f EXCEPT !.origin = 0]
  OBVIOUS
<1>5. h \in FrameT /\ SameFrame(h, f)
  BY <1>4, SetsOrigin
<1>6. PICK g : g = AddCorrection(h, found)
  OBVIOUS
<1>7. g \in FrameT /\ SameFrame(g, h)
  BY <1>3, <1>5, <1>6, Corrects
<1>8. SameFrame(g, f)
  BY <1>5, <1>7 DEF SameFrame
<1>9. PICK c : out = Expect(c, Out(g, rest))
  BY <1>1, <1>2, <1>4, <1>6 DEF HandleEgressOwnPDelayRespFU
<1> QED BY <1>3, <1>7, <1>8, <1>9, Expected DEF Untouched

\* Frames of other clocks that a MAC sends on.
LEMMA ForeignSync ==
  ASSUME NEW p \in Ports, NEW m, NEW two \in BOOLEAN, NEW n, n = p[1], NEW ctl \in NicT(n),
         NEW f \in FrameT, NEW clk \in TimeT, f.rx \in PortsOf(n),
         ClockType(n) = "TRANSPARENT",
         NEW res, res = CalcResidenceTime(MacOf(m, two, p), ctl, f, f.rx, clk),
         NEW out, out = HandleEgressForeignSync(MacOf(m, two, p), ctl, f, clk)
  PROVE  /\ Outcome(out, f, ctl, n) /\ res \in Int
         /\ out.requ = "TRIG_SFU" <=> two /\ ~f.twoStep
         /\ out.frame.origin = f.origin
         /\ IF two
            THEN /\ out.frame.twoStep /\ out.frame.corr = f.corr
                 /\ out.nic.syncFu = Append(ctl.syncFu,
                      Entry(f.source, f.seq, res + ctl.asymmetry[f.rx]))
            ELSE /\ out.frame.twoStep = f.twoStep /\ out.frame.corr = f.corr + res
                 /\ out.nic = ctl
<1>1. /\ f.source \in PortOrNone /\ f.seq \in Nat /\ f.twoStep \in BOOLEAN
      /\ ctl.asymmetry[f.rx] \in Int
  <2>1. ctl.asymmetry \in [PortsOf(n) -> Int]
    BY DEF NicT
  <2> QED BY <2>1 DEF FrameT, PortOrNone
<1>2. res \in Int
  BY ResidenceTyped
<1>3. PICK s \in PortOrNone, seq \in Nat, t \in Int, k \in Matchers :
        s = f.source /\ seq = f.seq /\ t = res + ctl.asymmetry[f.rx] /\ k = "syncFu"
  BY <1>1, <1>2 DEF Matchers
<1>4. PICK tab : tab = Push(ctl, k, s, seq, t)
  OBVIOUS
<1>5. /\ tab \in NicT(n) /\ SameTables(tab, ctl)
      /\ tab.syncFu = Append(ctl.syncFu, Entry(s, seq, t))
  <2>1. /\ Push(ctl, k, s, seq, t) \in NicT(n) /\ SameTables(Push(ctl, k, s, seq, t), ctl)
        /\ k = "syncFu" =>
             Push(ctl, k, s, seq, t).syncFu = Append(ctl.syncFu, Entry(s, seq, t))
    BY PushTyped
  <2> QED BY <2>1, <1>3, <1>4
<1>6. PICK g, h : g = [f EXCEPT !.twoStep = TRUE] /\ h = AddCorrection(f, res)
  OBVIOUS
<1>7. /\ g \in FrameT /\ SameFrame(g, f) /\ g.origin = f.origin /\ g.corr = f.corr /\ g.twoStep
      /\ h \in FrameT /\ SameFrame(h, f) /\ h.origin = f.origin /\ h.corr = f.corr + res
      /\ h.twoStep = f.twoStep
  BY <1>2, <1>6, SetsTwoStep, Corrects
<1>8. PICK r : r = IF f.twoStep THEN "NONE" ELSE "TRIG_SFU"
  OBVIOUS
<1>9. PICK c : c <=> (~Ordinary(MacOf(m, two, p))
                         /\ NotNegative(MacOf(m, two, p), ctl, f, f.rx, clk))
  OBVIOUS
<1>10. CASE two
  <2>1. PICK o : o = [Out(g, tab) EXCEPT !.requ = r]
    OBVIOUS
  <2>2. /\ Outcome(Out(g, tab), f, ctl, n) /\ Out(g, tab).frame = g /\ Out(g, tab).nic = tab
        /\ ~Out(g, tab).failed
    BY <1>5, <1>7, OutTyped
  <2>3. /\ o \in OutT(n)
        /\ o.frame = g
        /\ o.nic = tab
        /\ o.requ = r
    BY <2>1, <2>2, <1>8 DEF Outcome, OutT
  <2>4. Outcome(o, f, ctl, n)
    BY <2>3, <1>5, <1>7 DEF Outcome
  <2>5. PICK b \in BOOLEAN : b <=> c
    OBVIOUS
  <2>6. out = Expect(b, o)
    <3>1. Transparent(MacOf(m, two, p)) /\ MacOf(m, two, p).twoStep
      BY <1>10 DEF Transparent, MacOf
    <3>2. out = Expect(c, [Out(g, tab) EXCEPT !.requ = r])
      BY <1>3, <1>4, <1>6, <1>8, <1>9, <3>1, Zenon DEF HandleEgressForeignSync
    <3> QED BY <2>1, <2>5, <3>2, Zenon DEF Expect
  <2>7. /\ Outcome(out, f, ctl, n)
        /\ out.frame = g
        /\ out.nic = tab
        /\ out.requ = r
    BY <2>3, <2>4, <2>6, ExpectTyped
  <2> QED BY <2>7, <1>1, <1>2, <1>3, <1>5, <1>7, <1>8, <1>10
<1>11. CASE ~two
  <2>1. out = Expect(c, Out(h, ctl))
    <3>1. ~MacOf(m, two, p).twoStep
      BY <1>11 DEF MacOf
    <3> QED BY <1>6, <1>9, <3>1, Zenon DEF HandleEgressForeignSync
  <2>2. /\ Outcome(out, f, ctl, n)
        /\ out.frame = h
        /\ out.nic = ctl
        /\ out.requ = "NONE"
    BY <2>1, <1>7, Expected, TablesStay
  <2> QED BY <2>2, <1>2, <1>7, <1>11
<1> QED BY <1>10, <1>11

LEMMA ForeignFollowUp ==
  ASSUME NEW p \in Ports, NEW m, NEW two \in BOOLEAN, NEW n, n = p[1], NEW ctl \in NicT(n),
         NEW f \in FrameT, NEW clk \in TimeT,
         NEW out, out = HandleEgressForeignFollowUp(MacOf(m, two, p), ctl, f, clk)
  PROVE  /\ Outcome(out, f, ctl, n) /\ out.requ = "NONE"
         /\ out.frame.origin = f.origin
         /\ IF two
            THEN /\ out.frame.corr = f.corr + Result(ctl.syncFu, f.source, f.seq).time
                 /\ out.nic.syncFu = Rest(ctl.syncFu, f.source, f.seq)
            ELSE out.frame.corr = f.corr /\ out.nic = ctl
<1>1. PICK k \in Matchers : k = "syncFu"
  BY DEF Matchers
<1>2. PICK tab, t : /\ tab = Popped(ctl, k, f.source, f.seq)
                    /\ t = Result(ctl.syncFu, f.source, f.seq).time
  OBVIOUS
<1>3. /\ tab \in NicT(n) /\ SameTables(tab, ctl) /\ t \in Int
      /\ tab.syncFu = Rest(ctl.syncFu, f.source, f.seq)
  <2>1. /\ Popped(ctl, k, f.source, f.seq) \in NicT(n)
        /\ SameTables(Popped(ctl, k, f.source, f.seq), ctl)
        /\ k = "syncFu" => Popped(ctl, k, f.source, f.seq).syncFu
                             = Rest(ctl.syncFu, f.source, f.seq)
        /\ Found(ctl, k, f.source, f.seq) \in Int
    BY PoppedTyped
  <2>2. Found(ctl, k, f.source, f.seq) = t
    BY <1>1, <1>2 DEF Found
  <2> QED BY <2>1, <2>2, <1>1, <1>2
<1>4. PICK g : g = AddCorrection(f, t)
  OBVIOUS
<1>5. g \in FrameT /\ SameFrame(g, f) /\ g.corr = f.corr + t /\ g.origin = f.origin
  BY <1>3, <1>4, Corrects
<1>6. PICK c : out = Expect(c, IF two THEN Out(g, tab) ELSE Out(f, ctl))
  BY <1>1, <1>2, <1>4 DEF HandleEgressForeignFollowUp, MacOf, Found
<1>7. CASE two
  <2>1. out = Expect(c, Out(g, tab))
    BY <1>6, <1>7
  <2> QED BY <2>1, <1>2, <1>3, <1>5, <1>7, Expected
<1>8. CASE ~two
  <2>1. out = Expect(c, Out(f, ctl))
    BY <1>6, <1>8
  <2> QED BY <2>1, <1>8, Expected, SameItself, TablesStay
<1> QED BY <1>7, <1>8

LEMMA ForeignDelayReq ==
  ASSUME NEW p \in Ports, NEW m, NEW two \in BOOLEAN, NEW n, n = p[1], NEW ctl \in NicT(n),
         NEW f \in FrameT, NEW clk \in TimeT, f.rx \in PortsOf(n),
         NEW out, out = HandleEgressForeignDelayReq(MacOf(m, two, p), ctl, f, clk)
  PROVE  Untouched(out, f, ctl, n)
<1>1. /\ f.source \in PortOrNone /\ f.seq \in Nat /\ ctl.asymmetry[p] \in Int
  <2>1. ctl.asymmetry \in [PortsOf(n) -> Int] /\ p \in PortsOf(n)
    BY DEF NicT, PortsOf
  <2> QED BY <2>1 DEF FrameT, PortOrNone
<1>2. PICK t \in Int :
        t = CalcResidenceTime(MacOf(m, two, p), ctl, f, f.rx, clk) - ctl.asymmetry[p]
  BY <1>1, ResidenceTyped
<1>3. PICK k \in Matchers \ {"syncFu"} : k = "delayReqResp"
  BY DEF Matchers
<1>4. PICK tab, g : tab = Push(ctl, k, f.source, f.seq, t) /\ g = AddCorrection(f, t)
  OBVIOUS
<1>5. tab \in NicT(n) /\ SameTables(tab, ctl) /\ tab.syncFu = ctl.syncFu
  BY <1>1, <1>4, PushTyped
<1>6. g \in FrameT /\ SameFrame(g, f)
  BY <1>4, Corrects
<1>7. PICK c : out = Expect(c, Out(f, tab)) \/ out = Expect(c, Out(g, ctl))
  <2>1. MacOf(m, two, p).id = p
    BY DEF MacOf
  <2> QED BY <2>1, <1>2, <1>3, <1>4, Zenon DEF HandleEgressForeignDelayReq
<1>8. CASE out = Expect(c, Out(f, tab))
  BY <1>5, <1>8, Expected, SameItself DEF Untouched
<1>9. CASE out = Expect(c, Out(g, ctl))
  BY <1>6, <1>9, Expected, TablesStay DEF Untouched
<1> QED BY <1>7, <1>8, <1>9

LEMMA ForeignDelayResp ==
  ASSUME NEW p \in Ports, NEW m, NEW two \in BOOLEAN, NEW n, n = p[1], NEW ctl \in NicT(n),
         NEW f \in FrameT, NEW clk \in TimeT,
         NEW out, out = HandleEgressForeignDelayResp(MacOf(m, two, p), ctl, f, clk)
  PROVE  Untouched(out, f, ctl, n)
<1>1. PICK k \in Matchers \ {"syncFu"} : k = "delayReqResp"
  BY DEF Matchers
<1>2. PICK rest, found : /\ rest = Popped(ctl, k, f.requester, f.seq)
                         /\ found = Found(ctl, k, f.requester, f.seq)
  OBVIOUS
<1>3. /\ rest \in NicT(n) /\ SameTables(rest, ctl) /\ rest.syncFu = ctl.syncFu
      /\ found \in Int
  BY <1>2, PopElsewhere
<1>4. PICK g : g = AddCorrection(f, found)
  OBVIOUS
<1>5. g \in FrameT /\ SameFrame(g, f)
  BY <1>3, <1>4, Corrects
<1>6. PICK c : out = Expect(c, Out(g, rest)) \/ out = Expect(c, Out(f, ctl))
  BY <1>1, <1>2, <1>4, Zenon DEF HandleEgressForeignDelayResp
<1>7. CASE out = Expect(c, Out(g, rest))
  BY <1>3, <1>5, <1>7, Expected DEF Untouched
<1>8. CASE out = Expect(c, Out(f, ctl))
  BY <1>8, Expected, SameItself, TablesStay DEF Untouched
<1> QED BY <1>6, <1>7, <1>8

\* What a frame in the egress queue of p becomes: only a Sync or a Follow_Up touches the
\* matcher of Syncs, and only a Sync that passes through makes the MAC ask for a Follow_Up.
LEMMA EgressTyped ==
  ASSUME NEW p \in Ports, NEW m, NEW two \in BOOLEAN, NEW n, n = p[1], NEW ctl \in NicT(n),
         NEW f \in InEgress(m, p), NEW clk \in TimeT,
         NEW out, out = HandleEgress(MacOf(m, two, p), ctl, f, clk)
  PROVE  /\ Outcome(out, f, ctl, n)
         /\ f.type \notin {"SYNC", "FOLLOW_UP"} => Untouched(out, f, ctl, n)
         /\ out.requ # "NONE" => f.type = "SYNC" /\ f.source # p /\ out.requ = "TRIG_SFU"
<1>1. f \in FrameT /\ LeavesBy(f, p) /\ f.type \in FrameTypes
      /\ (f.source = p \/ f.type = "FOLLOW_UP" \/ f.rx \in PortsOf(p[1]) \ {p})
      /\ f.twoStep \in BOOLEAN /\ Genuine(m, f)
  BY DEF InEgress, OnWire, FrameT
<1>2. MacOf(m, two, p).id = p
  BY DEF MacOf
<1>3. f.type \in PDelays => f.source = p
  BY <1>1 DEF LeavesBy
<1>4. CASE f.source = p
  <2>1. out = HandleEgressOwnPtp(MacOf(m, two, p), ctl, f, clk)
    BY <1>2, <1>4 DEF HandleEgress
  <2>2. CASE f.type = "SYNC"
    <3>1. out = HandleEgressOwnSync(MacOf(m, two, p), ctl, f, clk)
      BY <2>1, <2>2 DEF HandleEgressOwnPtp
    <3>2. Outcome(out, f, ctl, n)
      BY <3>1, <1>1, OwnSync
    <3>3. out.requ = "NONE"
      BY <3>1, <1>1, OwnSync
    <3> QED BY <3>2, <3>3, <2>2
  <2>3. CASE f.type = "FOLLOW_UP"
    <3>1. out = HandleEgressOwnFollowUp(MacOf(m, two, p), ctl, f, clk)
      BY <2>1, <2>3 DEF HandleEgressOwnPtp
    <3> QED BY <3>1, <1>1, <2>3, OwnFollowUp
  <2>4. CASE f.type \notin {"SYNC", "FOLLOW_UP"}
    <3>1. \/ out = HandleEgressOwnDelayReq(MacOf(m, two, p), ctl, f, clk)
          \/ out = HandleEgressOwnDelayResp(MacOf(m, two, p), ctl, f, clk)
          \/ out = HandleEgressOwnPDelayReq(MacOf(m, two, p), ctl, f, clk)
          \/ out = HandleEgressOwnPDelayResp(MacOf(m, two, p), ctl, f, clk)
          \/ out = HandleEgressOwnPDelayRespFU(MacOf(m, two, p), ctl, f, clk)
      BY <2>1, <2>4, <1>1 DEF HandleEgressOwnPtp, FrameTypes, Delays, PDelays
    <3>2. Untouched(out, f, ctl, n)
      BY <3>1, <1>1, OwnDelayReq, OwnDelayResp, OwnPDelayResp, OwnPDelayRespFU
    <3> QED BY <3>2, <2>4 DEF Untouched
  <2> QED BY <2>2, <2>3, <2>4
<1>5. CASE f.source # p
  <2>1. out = HandleEgressForeignPtp(MacOf(m, two, p), ctl, f, clk)
    BY <1>2, <1>5 DEF HandleEgress
  <2>2. f.type \in {"SYNC", "FOLLOW_UP", "DELAY_REQ", "DELAY_RESP"}
    BY <1>1, <1>3, <1>5 DEF FrameTypes, Delays
  <2>3. f.type # "FOLLOW_UP" => f.rx \in PortsOf(n) \ {p}
    BY <1>1, <1>5
  <2>4. CASE f.type = "SYNC"
    <3>1. out = HandleEgressForeignSync(MacOf(m, two, p), ctl, f, clk)
      BY <2>1, <2>4 DEF HandleEgressForeignPtp
    <3>2. ClockType(n) = "TRANSPARENT"
      <4>1. f.rx \in PortsOf(n) /\ f.rx # p /\ p \in PortsOf(n)
        BY <2>3, <2>4 DEF PortsOf
      <4> QED BY <4>1, NetworkAssumption DEF ClockType
    <3>3. PICK res : res = CalcResidenceTime(MacOf(m, two, p), ctl, f, f.rx, clk)
      OBVIOUS
    <3>4. Outcome(out, f, ctl, n) /\ (out.requ = "TRIG_SFU" <=> two /\ ~f.twoStep)
      BY <3>1, <3>2, <3>3, <2>3, <2>4, <1>1, ForeignSync
    <3>5. out.requ \in {"NONE", "TRIG_SFU"}
      BY <3>4 DEF Outcome, OutT
    <3> QED BY <3>4, <3>5, <1>5, <2>4
  <2>5. CASE f.type = "FOLLOW_UP"
    <3>1. out = HandleEgressForeignFollowUp(MacOf(m, two, p), ctl, f, clk)
      BY <2>1, <2>5 DEF HandleEgressForeignPtp
    <3> QED BY <3>1, <1>1, <2>5, ForeignFollowUp
  <2>6. CASE f.type \in {"DELAY_REQ", "DELAY_RESP"}
    <3>1. \/ out = HandleEgressForeignDelayReq(MacOf(m, two, p), ctl, f, clk)
          \/ out = HandleEgressForeignDelayResp(MacOf(m, two, p), ctl, f, clk)
      BY <2>1, <2>6 DEF HandleEgressForeignPtp
    <3>2. Untouched(out, f, ctl, n)
      BY <3>1, <1>1, <2>3, <2>6, ForeignDelayReq, ForeignDelayResp
    <3> QED BY <3>2, <2>6 DEF Untouched
  <2> QED BY <2>2, <2>4, <2>5, <2>6
<1> QED BY <1>4, <1>5

-----------------------------------------------------------------------------
(* What a MAC does with a frame that arrives *)

\* What arrives is what was on the wire, and came in by p.
Arrived(g, f, p) ==
  /\ g \in FrameT /\ g.type = f.type /\ g.source = f.source /\ g.seq = f.seq
  /\ g.requester = f.requester /\ g.twoStep = f.twoStep /\ g.origin = f.origin
  /\ g.clean = f.clean /\ g.epoch = f.epoch /\ g.rx = p

LEMMA ArrivedTyped ==
  ASSUME NEW m, NEW p \in Ports, NEW f \in OnWire(m, Peer[p]), NEW g, Arrived(g, f, p)
  PROVE  g \in InIngress(m, p)
BY DEF Arrived, InIngress, OnWire, Genuine, LeavesBy

LEMMA Names ==
  ASSUME NEW p \in Ports, NEW f \in FrameT, NEW g, g = [f EXCEPT !.rx = p]
  PROVE  Arrived(g, f, p) /\ g.corr = f.corr /\ g.stamp = f.stamp
BY DEF Arrived, FrameT, PortOrNone

LEMMA Stamps ==
  ASSUME NEW p \in Ports, NEW f, NEW g, Arrived(g, f, p), NEW clk \in TimeT,
         NEW h, h = TimestampOnIngress(g, clk)
  PROVE  Arrived(h, f, p) /\ h.corr = g.corr /\ h.stamp = clk
BY DEF Arrived, FrameT, TimestampOnIngress

LEMMA CorrectsArrived ==
  ASSUME NEW p \in Ports, NEW f, NEW g, Arrived(g, f, p), NEW c \in Int,
         NEW h, h = AddCorrection(g, c)
  PROVE  Arrived(h, f, p) /\ h.corr = g.corr + c /\ h.stamp = g.stamp
BY DEF Arrived, FrameT, AddCorrection

\* The outcome leaves the matcher of Syncs alone.
Enters(out, f, p, ctl) ==
  /\ Arrived(out.frame, f, p)
  /\ out.nic \in NicT(p[1]) /\ SameTables(out.nic, ctl) /\ out.nic.syncFu = ctl.syncFu

LEMMA AnsweredEnters ==
  ASSUME NEW p \in Ports, NEW m, NEW two, NEW ctl \in NicT(p[1]), NEW f, NEW g,
         Arrived(g, f, p), NEW k \in Matchers \ {"syncFu"},
         NEW out, out = Answered(MacOf(m, two, p), ctl, k, g)
  PROVE  Enters(out, f, p, ctl)
<1>1. PICK n : n = p[1]
  OBVIOUS
<1>2. PICK tab, found : /\ tab = Popped(ctl, k, p, g.seq)
                        /\ found = Found(ctl, k, p, g.seq)
  OBVIOUS
<1>3. tab \in NicT(n) /\ SameTables(tab, ctl) /\ tab.syncFu = ctl.syncFu /\ found \in Int
  <2>1. ctl \in NicT(n)
    BY <1>1
  <2> QED BY <2>1, <1>2, PopElsewhere
<1>4. PICK h : h = [g EXCEPT !.reqEgress = found]
  OBVIOUS
<1>5. Arrived(h, f, p)
  BY <1>3, <1>4 DEF Arrived, FrameT
<1>6. out = Out(g, ctl) \/ out = Out(h, tab) \/ out = Out(g, tab)
  <2>1. MacOf(m, two, p).id = p
    BY DEF MacOf
  <2> QED BY <2>1, <1>2, <1>4, Zenon DEF Answered
<1>7. out.frame \in {g, h} /\ out.nic \in {ctl, tab}
  BY <1>6 DEF Out
<1> QED BY <1>1, <1>3, <1>5, <1>7, TablesStay DEF Enters

\* A Sync is stamped, and corrected unless the Follow_Up of a transparent clock will be.
Taken(out, f, p, ctl, two, clk) ==
  /\ Enters(out, f, p, ctl)
  /\ f.type = "SYNC" =>
       /\ out.frame.stamp = clk /\ out.nic = ctl
       /\ out.frame.corr = f.corr
            + IF ClockType(p[1]) = "ORDINARY" \/ ~two THEN ctl.asymmetry[p] ELSE 0
  /\ f.type = "FOLLOW_UP" => out.frame.corr = f.corr /\ out.nic = ctl

LEMMA IngressTyped ==
  ASSUME NEW p \in Ports, NEW m, NEW two \in BOOLEAN, NEW ctl \in NicT(p[1]),
         NEW f \in OnWire(m, Peer[p]), NEW clk \in TimeT,
         NEW out, out = HandleIngress(MacOf(m, two, p), ctl, f, clk)
  PROVE  Taken(out, f, p, ctl, two, clk)
<1>1. f \in FrameT /\ f.type \in FrameTypes /\ f.corr \in Int
  BY DEF OnWire, FrameT
<1>2. PICK g : g = [f EXCEPT !.rx = p]
  OBVIOUS
<1>3. Arrived(g, f, p) /\ g.corr = f.corr /\ g.type = f.type
  BY <1>1, <1>2, Names DEF Arrived
<1>4. PICK n : n = p[1] /\ ctl \in NicT(n)
  OBVIOUS
<1>5. ctl.asymmetry[p] \in Int
  <2>1. ctl.asymmetry \in [PortsOf(n) -> Int] /\ p \in PortsOf(n)
    BY <1>4 DEF NicT, PortsOf
  <2> QED BY <2>1
<1>6. PICK mac : mac = MacOf(m, two, p)
  OBVIOUS
<1>7. mac.id = p /\ mac.clockType = ClockType(n) /\ mac.twoStep = two
  BY <1>4, <1>6 DEF MacOf
<1>8. PICK s : s = TimestampOnIngress(g, clk)
  OBVIOUS
<1>9. Arrived(s, f, p) /\ s.corr = f.corr /\ s.stamp = clk
  BY <1>3, <1>8, Stamps
<1>10. [f EXCEPT !.rx = mac.id] = g
  BY <1>2, <1>7
<1>11. CASE f.type = "SYNC"
  <2>1. PICK a \in Int : a = IF Ordinary(mac) \/ (Transparent(mac) /\ ~mac.twoStep)
                             THEN ctl.asymmetry[p] ELSE 0
    BY <1>5
  <2>2. a = IF ClockType(n) = "ORDINARY" \/ ~two THEN ctl.asymmetry[p] ELSE 0
    BY <2>1, <1>7 DEF Ordinary, Transparent, ClockType
  <2>3. PICK c, h : c = AddCorrection(g, a) /\ h = TimestampOnIngress(c, clk)
    OBVIOUS
  <2>4. Arrived(c, f, p) /\ c.corr = f.corr + a
    BY <2>1, <2>3, <1>3, CorrectsArrived
  <2>5. Arrived(h, f, p) /\ h.corr = f.corr + a /\ h.stamp = clk
    BY <2>3, <2>4, Stamps
  <2>6. out = Out(h, ctl)
    <3>1. out = HandleIngressSync(mac, ctl, g, clk)
      BY <1>3, <1>6, <1>10, <1>11 DEF HandleIngress
    <3> QED BY <3>1, <2>1, <2>3, <1>7, Zenon DEF HandleIngressSync
  <2>7. out.frame = h /\ out.nic = ctl
    BY <2>6 DEF Out
  <2> QED BY <2>2, <2>5, <2>7, <1>4, <1>11, TablesStay DEF Enters, Taken
<1>12. CASE f.type = "FOLLOW_UP" \/ f.type = "PDELAY_RESP_FU"
  <2>1. out = Out(g, ctl)
    BY <1>3, <1>6, <1>10, <1>12 DEF HandleIngress
  <2>2. out.frame = g /\ out.nic = ctl
    BY <2>1 DEF Out
  <2> QED BY <2>2, <1>3, <1>4, <1>12, TablesStay DEF Enters, Taken
<1>13. CASE f.type = "DELAY_REQ"
  <2>1. out = Out(s, ctl)
    BY <1>3, <1>6, <1>8, <1>10, <1>13 DEF HandleIngress
  <2>2. out.frame = s /\ out.nic = ctl
    BY <2>1 DEF Out
  <2> QED BY <2>2, <1>4, <1>9, <1>13, TablesStay DEF Enters, Taken
<1>14. CASE f.type = "DELAY_RESP"
  <2>1. out = Answered(mac, ctl, "delayReqResp", g)
    BY <1>3, <1>6, <1>10, <1>14 DEF HandleIngress, HandleIngressDelayResp
  <2>2. "delayReqResp" \in Matchers \ {"syncFu"}
    BY DEF Matchers
  <2>3. Enters(out, f, p, ctl)
    BY <2>1, <2>2, <1>3, <1>6, AnsweredEnters
  <2> QED BY <2>3, <1>14 DEF Taken
<1>15. CASE f.type = "PDELAY_REQ"
  <2>1. PICK k \in Matchers \ {"syncFu"} : k = "pdelayRespFu"
    BY DEF Matchers
  <2>2. g.source \in PortOrNone /\ g.seq \in Nat /\ clk.time \in Int
    BY <1>3 DEF Arrived, FrameT, PortOrNone, TimeT
  <2>3. PICK tab : tab = Push(ctl, k, g.source, g.seq, clk.time)
    OBVIOUS
  <2>4. tab \in NicT(n) /\ SameTables(tab, ctl) /\ tab.syncFu = ctl.syncFu
    BY <2>2, <2>3, <1>4, PushTyped
  <2>5. out = Out(g, tab)
    BY <2>1, <2>3, <1>3, <1>6, <1>10, <1>15 DEF HandleIngress, HandleIngressPDelayReq
  <2>6. out.frame = g /\ out.nic = tab
    BY <2>5 DEF Out
  <2> QED BY <2>4, <2>6, <1>3, <1>4, <1>15 DEF Enters, Taken
<1>16. CASE f.type = "PDELAY_RESP"
  <2>1. PICK c : c = AddCorrection(s, ctl.asymmetry[p])
    OBVIOUS
  <2>2. Arrived(c, f, p)
    BY <2>1, <1>5, <1>9, CorrectsArrived
  <2>3. PICK k \in Matchers \ {"syncFu"} : k = "pdelayReqResp"
    BY DEF Matchers
  <2>4. out = Answered(mac, ctl, k, c)
    BY <2>1, <2>3, <1>3, <1>6, <1>7, <1>8, <1>10, <1>16
       DEF HandleIngress, HandleIngressPDelayResp
  <2>5. Enters(out, f, p, ctl)
    BY <2>2, <2>4, <1>6, AnsweredEnters
  <2> QED BY <2>5, <1>16 DEF Taken
<1> QED BY <1>1, <1>11, <1>12, <1>13, <1>14, <1>15, <1>16
        DEF FrameTypes, Delays, PDelays

-----------------------------------------------------------------------------
(* The types of the network *)

SyncT ==
  [sequId : Nat, syncIngress : TimeT, syncCorr : Int, syncSequID : Int, clean : BOOLEAN]

TimesT ==
  [time1 : Int, corr1 : Int, time2 : Int, corr2 : Int, known : BOOLEAN, clean : BOOLEAN,
   epoch : Int]

MatcherT == [sequ1 : Int, sequ2 : Int, times : TimesT, mostRecent : TimesT]

DelayT ==
  [sequId : Nat, requSequId : Nat, syncTimes : TimesT, requEpoch : Int, twoStep : BOOLEAN,
   triggerStart : BOOLEAN, started : BOOLEAN, matcher : MatcherT]

PDelayT ==
  [sequId : Nat, requSequId : Nat, respSequID : Int, reqEgress : Int, respIngress : Int,
   requestReceipt : Int, respCorr : Int, clean : BOOLEAN]

JudgedT == [error : Int, clean : BOOLEAN]

LeftT == [syncs : Nat, requests : Nat, jumps : Nat, losses : Nat, waits : Nat]

WireT == [frame : FrameT, left : Nat]

ConfigTyped == config \in [mechanism : {"E2E", "P2P"}, twoStep : [Nodes -> BOOLEAN]]

ClocksTyped == now \in Nat /\ clock \in [Nodes -> [offset : Int, epoch : Nat]]

NicTyped ==
  /\ nic = [n \in Nodes |-> nic[n]]
  /\ \A n \in Nodes : /\ nic[n] \in NicT(n)
                      /\ \A p \in PortsOf(n) : nic[n].asymmetry[p] = Asymmetry[p]

IngressTyping ==
  /\ ingress \in [Ports -> Seq(FrameT)]
  /\ \A p \in Ports : ingress[p] \in Seq(InIngress(config.mechanism, p))

EgressTyping ==
  /\ egress \in [Ports -> Seq(FrameT)]
  /\ \A p \in Ports : egress[p] \in Seq(InEgress(config.mechanism, p))

\* A wire carries frames in order, none of which is late.
WireTyping ==
  /\ wire \in [Ports -> Seq(WireT)]
  /\ \A p \in Ports : \A i \in DOMAIN wire[p] :
       /\ wire[p][i].frame \in OnWire(config.mechanism, p)
       /\ wire[p][i].left <= LinkDelay[p]
       /\ \A j \in DOMAIN wire[p] : j <= i => wire[p][j].left <= wire[p][i].left

ControlTyped ==
  /\ control = [n \in Nodes |-> control[n]]
  /\ \A n \in Nodes : control[n] \in Seq(Messages(n))

ServicesTyped ==
  /\ sync \in [{MasterPort, SlavePort} -> SyncT] /\ delay \in DelayT
  /\ pdelay \in [Ports -> PDelayT]

ResultsTyped ==
  /\ estimate \in Int /\ portEstimate \in [Ports -> Int] /\ failed \in BOOLEAN
  /\ sample \in JudgedT /\ measure \in JudgedT /\ used \in Int
  /\ trusted \in [Ports -> BOOLEAN] /\ lost \in BOOLEAN /\ left \in LeftT

Typed ==
  /\ ConfigTyped /\ ClocksTyped /\ NicTyped /\ IngressTyping /\ EgressTyping /\ WireTyping
  /\ ControlTyped /\ ServicesTyped /\ ResultsTyped

LEMMA TypedTypes == Typed => TypeOK
<1>1. SUFFICES ASSUME Typed PROVE TypeOK
  OBVIOUS
<1>2. now \in Nat /\ clock \in [Nodes -> [offset : Int, epoch : Nat]]
  BY <1>1 DEF Typed, ClocksTyped
<1>3. delay.requSequId \in Nat /\ \A p \in Ports : pdelay[p].requSequId \in Nat
  BY <1>1 DEF Typed, ServicesTyped, DelayT, PDelayT
<1>4. ASSUME NEW p \in Ports, NEW i \in DOMAIN egress[p] PROVE egress[p][i].type \in FrameTypes
  <2>1. egress[p] \in Seq(FrameT)
    BY <1>1 DEF Typed, EgressTyping
  <2>2. egress[p][i] \in FrameT
    BY <2>1, <1>4
  <2> QED BY <2>2 DEF FrameT
<1>5. ASSUME NEW p \in Ports, NEW i \in DOMAIN wire[p]
      PROVE  wire[p][i].left \in 0 .. LinkDelay[p]
  <2>1. wire[p] \in Seq(WireT) /\ wire[p][i].left <= LinkDelay[p]
    BY <1>1, <1>5 DEF Typed, WireTyping
  <2>2. wire[p][i] \in WireT
    BY <2>1, <1>5
  <2>3. LinkDelay[p] \in Nat
    BY NetworkAssumption
  <2> QED BY <2>1, <2>2, <2>3 DEF WireT
<1> QED BY <1>2, <1>3, <1>4, <1>5 DEF TypeOK

LEMMA PortTypes ==
  /\ MasterPort \in Ports /\ SlavePort \in Ports /\ MasterPort # SlavePort
  /\ MasterPort[1] \in Nodes /\ SlavePort[1] \in Nodes
  /\ \A p \in Ports : p[1] \in Nodes /\ p \in PortsOf(p[1]) /\ Peer[p] \in Ports
BY NetworkAssumption DEF Nodes, PortsOf

LEMMA TypedInit == Init => Typed
<1>1. SUFFICES ASSUME Init PROVE Typed
  OBVIOUS
<1>2. ConfigTyped
  BY <1>1 DEF Init, ConfigTyped
<1>3. ClocksTyped
  BY <1>1, NetworkAssumption DEF Init, ClocksTyped
<1>4. NicTyped
  <2>1. nic = [n \in Nodes |-> NicCtrl([p \in PortsOf(n) |-> Asymmetry[p]])]
    BY <1>1 DEF Init
  <2>2. ASSUME NEW n \in Nodes
        PROVE  /\ nic[n] \in NicT(n)
               /\ \A p \in PortsOf(n) : nic[n].asymmetry[p] = Asymmetry[p]
    <3>1. PICK a : a = [p \in PortsOf(n) |-> Asymmetry[p]]
      OBVIOUS
    <3>2. a \in [PortsOf(n) -> Int]
      BY <3>1, NetworkAssumption DEF PortsOf
    <3>3. nic[n] = NicCtrl(a)
      BY <2>1, <3>1
    <3>4. <<>> \in Seq(EntryT)
      OBVIOUS
    <3>5. [p \in DOMAIN a |-> 0] \in [PortsOf(n) -> Int]
      BY <3>2
    <3> QED BY <3>1, <3>2, <3>3, <3>4, <3>5 DEF NicCtrl, NicT
  <2> QED BY <2>1, <2>2 DEF NicTyped
<1>5. IngressTyping /\ EgressTyping /\ WireTyping /\ ControlTyped
  BY <1>1 DEF Init, IngressTyping, EgressTyping, WireTyping, ControlTyped
<1>6. ServicesTyped
  <2>1. PICK g \in Garbage : /\ sync = [p \in {MasterPort, SlavePort} |-> AppSync(g)]
                             /\ delay = AppDelay(g)
                             /\ pdelay = [p \in Ports |-> AppPDelay(g)]
    BY <1>1 DEF Init
  <2>2. g \in Int
    BY NetworkAssumption
  <2>3. AppSync(g) \in SyncT
    BY <2>2 DEF AppSync, SyncT, NoTime, TimeT
  <2>4. NoTimes \in TimesT
    BY DEF NoTimes, TimesT
  <2>5. AppDelay(g) \in DelayT
    BY <2>2, <2>4 DEF AppDelay, DelayT, TimestampMatcher, MatcherT
  <2>6. AppPDelay(g) \in PDelayT
    BY <2>2 DEF AppPDelay, PDelayT
  <2> QED BY <2>1, <2>3, <2>5, <2>6 DEF ServicesTyped
<1>7. ResultsTyped
  <2>1. left \in LeftT
    BY <1>1, NetworkAssumption DEF Init, LeftT
  <2>2. sample \in JudgedT /\ measure \in JudgedT
    BY <1>1 DEF Init, Judged, JudgedT
  <2>3. /\ estimate = 0 /\ portEstimate = [p \in Ports |-> 0] /\ failed = FALSE /\ used = -1
        /\ trusted = [p \in Ports |-> TRUE] /\ lost = FALSE
    BY <1>1 DEF Init
  <2>4. trusted \in [Ports -> BOOLEAN] /\ portEstimate \in [Ports -> Int]
    BY <2>3
  <2>5. failed \in BOOLEAN /\ lost \in BOOLEAN
    BY <2>3, Zenon
  <2>6. estimate \in Int /\ used \in Int
    BY <1>1 DEF Init
  <2> QED BY <2>1, <2>2, <2>4, <2>5, <2>6, Zenon DEF ResultsTyped
<1> QED BY <1>2, <1>3, <1>4, <1>5, <1>6, <1>7 DEF Typed

-----------------------------------------------------------------------------
(* The types stay as they are *)

LEMMA SeqOf == \A T, U : T \subseteq U => Seq(T) \subseteq Seq(U)
OBVIOUS

LEMMA OnWireOnPort == \A m, p : InEgress(m, p) \subseteq FrameT /\ InIngress(m, p) \subseteq FrameT
BY DEF InEgress, InIngress, OnWire

LEMMA FrameTyped ==
  ASSUME NEW type \in FrameTypes, NEW source \in Ports, NEW seq \in Nat, NEW two \in BOOLEAN,
         NEW f, f = Frame(type, source, seq, two)
  PROVE  /\ f \in FrameT /\ f.type = type /\ f.source = source /\ f.seq = seq
         /\ f.twoStep = two /\ f.requester = NoPort /\ f.clean /\ f.corr = 0 /\ f.rx = NoPort
BY DEF Frame, FrameT, NoTime, TimeT, PortOrNone

\* Own frames and Follow_Ups may wait in the queue of a port.
LEMMA OwnFrames ==
  ASSUME NEW p \in Ports, NEW m, NEW f \in FrameT, Genuine(m, f), LeavesBy(f, p),
         f.source = p \/ f.type = "FOLLOW_UP"
  PROVE  f \in InEgress(m, p)
BY DEF InEgress, OnWire

LEMMA Issued ==
  ASSUME EgressTyping, config' = config, NEW p \in Ports,
         NEW frames \in Seq(InEgress(config.mechanism, p)), Issue(p, frames)
  PROVE  EgressTyping'
<1>1. PICK S : S = InEgress(config.mechanism, p)
  OBVIOUS
<1>2. egress[p] \in Seq(S) /\ frames \in Seq(S) /\ egress \in [Ports -> Seq(FrameT)]
      /\ egress' = [egress EXCEPT ![p] = @ \o frames] /\ S \subseteq FrameT
  BY <1>1, OnWireOnPort DEF EgressTyping, Issue
<1>3. egress[p] \o frames \in Seq(S)
  BY <1>2
<1>4. egress[p] \o frames \in Seq(FrameT)
  BY <1>2, <1>3, SeqOf
<1>5. egress' \in [Ports -> Seq(FrameT)]
  BY <1>2, <1>4
<1>6. ASSUME NEW q \in Ports PROVE egress'[q] \in Seq(InEgress(config.mechanism, q))
  <2>1. CASE q = p
    BY <2>1, <1>1, <1>2, <1>3
  <2>2. CASE q # p
    BY <2>2, <1>2 DEF EgressTyping
  <2> QED BY <2>1, <2>2
<1> QED BY <1>5, <1>6 DEF EgressTyping

LEMMA SpendTyped ==
  ASSUME left \in LeftT, NEW w \in {"syncs", "requests", "jumps", "losses", "waits"}, Spend(w)
  PROVE  left' \in LeftT
<1>1. left[w] > 0 /\ left' = [left EXCEPT ![w] = @ - 1]
  BY DEF Spend
<1>2. left[w] \in Nat
  BY DEF LeftT
<1>3. left[w] - 1 \in Nat
  BY <1>1, <1>2
<1> QED BY <1>1, <1>3 DEF LeftT

LEMMA SendSyncTyped == Typed /\ SendSync => Typed'
<1>1. SUFFICES ASSUME Typed, SendSync PROVE Typed'
  OBVIOUS
<1>2. PICK s \in SyncT : s = sync[MasterPort]
  BY <1>1 DEF Typed, ServicesTyped
<1>3. PICK two \in BOOLEAN : two = config.twoStep[MasterPort[1]]
  BY <1>1, PortTypes DEF Typed, ConfigTyped
<1>4. PICK f, g : f = CreateSyncFrame(s, MasterPort, two) /\ g = CreateFollowUpFrame(f)
  OBVIOUS
<1>5. f \in InEgress(config.mechanism, MasterPort)
  <2>1. s.sequId \in Nat /\ "SYNC" \in FrameTypes
    BY DEF SyncT, FrameTypes
  <2>2. f \in FrameT /\ f.type = "SYNC" /\ f.source = MasterPort
    BY <1>4, <2>1, PortTypes, FrameTyped DEF CreateSyncFrame
  <2>3. Genuine(config.mechanism, f) /\ LeavesBy(f, MasterPort)
    BY <2>2, NetworkAssumption DEF Genuine, LeavesBy, Delays, PDelays
  <2> QED BY <2>2, <2>3, PortTypes, OwnFrames
<1>6. g \in InEgress(config.mechanism, MasterPort)
  <2>1. f \in FrameT /\ "FOLLOW_UP" \in FrameTypes
    BY <1>5, OnWireOnPort DEF FrameTypes
  <2>2. f.source \in Ports /\ f.seq \in Nat /\ f.twoStep \in BOOLEAN /\ f.origin \in Int
    BY <2>1 DEF FrameT
  <2>3. f.source = MasterPort
    BY <1>4, <2>2 DEF CreateSyncFrame, Frame
  <2>4. PICK h : h = Frame("FOLLOW_UP", f.source, f.seq, FALSE)
    OBVIOUS
  <2>5. h \in FrameT /\ h.type = "FOLLOW_UP" /\ h.source = MasterPort
    BY <2>1, <2>2, <2>3, <2>4 DEF Frame, FrameT, NoTime, TimeT, PortOrNone
  <2>6. g = [h EXCEPT !.origin = f.origin]
    BY <1>4, <2>4 DEF CreateFollowUpFrame
  <2>7. g \in FrameT /\ g.type = "FOLLOW_UP" /\ g.source = MasterPort
    BY <2>2, <2>5, <2>6, SetsOrigin DEF SameFrame
  <2>8. Genuine(config.mechanism, g) /\ LeavesBy(g, MasterPort)
    BY <2>7, NetworkAssumption DEF Genuine, LeavesBy, Delays, PDelays
  <2> QED BY <2>7, <2>8, PortTypes, OwnFrames
<1>7. SyncFrames(s, MasterPort, two) \in Seq(InEgress(config.mechanism, MasterPort))
  <2>1. <<f, g>> \in Seq(InEgress(config.mechanism, MasterPort))
        /\ <<f>> \in Seq(InEgress(config.mechanism, MasterPort))
    BY <1>5, <1>6
  <2> QED BY <2>1, <1>4 DEF SyncFrames
<1>8. config' = config /\ Issue(MasterPort, SyncFrames(s, MasterPort, two))
  BY <1>1, <1>2, <1>3 DEF SendSync
<1>9. EgressTyping'
  BY <1>1, <1>7, <1>8, PortTypes, Issued DEF Typed
<1>10. ServicesTyped'
  <2>1. sync' = [sync EXCEPT ![MasterPort].sequId = @ + 1] /\ UNCHANGED <<delay, pdelay>>
    BY <1>1 DEF SendSync
  <2>2. [s EXCEPT !.sequId = @ + 1] \in SyncT
    BY DEF SyncT
  <2> QED BY <1>1, <1>2, <2>1, <2>2 DEF Typed, ServicesTyped
<1>11. left' \in LeftT
  BY <1>1, SpendTyped DEF Typed, ResultsTyped, SendSync
<1>12. ResultsTyped'
  BY <1>1, <1>11 DEF Typed, ResultsTyped, SendSync
<1>13. /\ ConfigTyped' /\ ClocksTyped' /\ NicTyped' /\ IngressTyping' /\ WireTyping'
       /\ ControlTyped'
  BY <1>1 DEF Typed, ConfigTyped, ClocksTyped, NicTyped, IngressTyping, WireTyping,
              ControlTyped, SendSync
<1> QED BY <1>9, <1>10, <1>12, <1>13 DEF Typed

LEMMA SendDelayReqTyped == Typed /\ SendDelayReq => Typed'
<1>1. SUFFICES ASSUME Typed, SendDelayReq PROVE Typed'
  OBVIOUS
<1>2. delay \in DelayT
  BY <1>1 DEF Typed, ServicesTyped
<1>3. PICK f : f = CreateDelayReqFrame(delay, SlavePort)
  OBVIOUS
<1>4. f \in InEgress(config.mechanism, SlavePort)
  <2>1. delay.sequId \in Nat /\ "DELAY_REQ" \in FrameTypes
    BY <1>2 DEF DelayT, FrameTypes, Delays
  <2>2. f \in FrameT /\ f.type = "DELAY_REQ" /\ f.source = SlavePort
    <3>1. PICK two \in BOOLEAN : two = FALSE
      OBVIOUS
    <3>2. f = Frame("DELAY_REQ", SlavePort, delay.sequId, two)
      BY <1>3, <3>1 DEF CreateDelayReqFrame
    <3> QED BY <2>1, <3>2, PortTypes, FrameTyped
  <2>3. Genuine(config.mechanism, f) /\ LeavesBy(f, SlavePort)
    BY <1>1, <2>2, NetworkAssumption DEF SendDelayReq, E2E, Genuine, LeavesBy, Delays, PDelays
  <2> QED BY <2>2, <2>3, PortTypes, OwnFrames
<1>5. <<f>> \in Seq(InEgress(config.mechanism, SlavePort))
  BY <1>4
<1>6. EgressTyping'
  <2>1. config' = config /\ Issue(SlavePort, <<f>>)
    BY <1>1, <1>3 DEF SendDelayReq
  <2> QED BY <2>1, <1>1, <1>5, PortTypes, Issued DEF Typed
<1>7. ServicesTyped'
  <2>1. clock[SlavePort[1]].epoch \in Int
    BY <1>1, PortTypes DEF Typed, ClocksTyped
  <2>2. delay' \in DelayT
    <3>1. delay.matcher.mostRecent \in TimesT
      BY <1>2 DEF DelayT, MatcherT
    <3>2. delay' = DelayRequested(delay, clock[SlavePort[1]].epoch)
      BY <1>1 DEF SendDelayReq
    <3>3. PICK k \in Nat : k = delay.sequId
      BY <1>2 DEF DelayT
    <3>4. PICK d \in DelayT : d = delay
      BY <1>2
    <3>5. PICK t \in TimesT, e \in Int :
            t = delay.matcher.mostRecent /\ e = clock[SlavePort[1]].epoch
      BY <3>1, <2>1
    <3>6. delay' = [d EXCEPT !.requSequId = k, !.sequId = k + 1, !.syncTimes = t,
                             !.requEpoch = e]
      BY <3>2, <3>3, <3>4, <3>5 DEF DelayRequested, DelayT
    <3>7. [d EXCEPT !.requSequId = k, !.sequId = k + 1, !.syncTimes = t, !.requEpoch = e]
            \in DelayT
      <4>1. k + 1 \in Nat
        OBVIOUS
      <4> QED BY <4>1 DEF DelayT
    <3> QED BY <3>6, <3>7
  <2> QED BY <1>1, <2>2 DEF Typed, ServicesTyped, SendDelayReq
<1>8. left' \in LeftT
  BY <1>1, SpendTyped DEF Typed, ResultsTyped, SendDelayReq
<1>9. ResultsTyped'
  BY <1>1, <1>8 DEF Typed, ResultsTyped, SendDelayReq
<1>10. /\ ConfigTyped' /\ ClocksTyped' /\ NicTyped' /\ IngressTyping' /\ WireTyping'
       /\ ControlTyped'
  BY <1>1 DEF Typed, ConfigTyped, ClocksTyped, NicTyped, IngressTyping, WireTyping,
              ControlTyped, SendDelayReq
<1> QED BY <1>6, <1>7, <1>9, <1>10 DEF Typed

LEMMA SendPDelayReqTyped == ASSUME NEW p \in Ports PROVE Typed /\ SendPDelayReq(p) => Typed'
<1>1. SUFFICES ASSUME Typed, SendPDelayReq(p) PROVE Typed'
  OBVIOUS
<1>2. PICK s \in PDelayT : s = pdelay[p]
  BY <1>1 DEF Typed, ServicesTyped
<1>3. PICK f : f = CreatePDelayReqFrame(s, p)
  OBVIOUS
<1>4. f \in InEgress(config.mechanism, p)
  <2>1. s.sequId \in Nat /\ "PDELAY_REQ" \in FrameTypes
    BY <1>2 DEF PDelayT, FrameTypes, PDelays
  <2>2. f \in FrameT /\ f.type = "PDELAY_REQ" /\ f.source = p
    <3>1. PICK two \in BOOLEAN : two = FALSE
      OBVIOUS
    <3>2. f = Frame("PDELAY_REQ", p, s.sequId, two)
      BY <1>3, <3>1 DEF CreatePDelayReqFrame
    <3> QED BY <2>1, <3>2, FrameTyped
  <2>3. config.mechanism = "P2P"
    BY <1>1 DEF SendPDelayReq, E2E, Typed, ConfigTyped
  <2>4. Genuine(config.mechanism, f) /\ LeavesBy(f, p)
    BY <2>2, <2>3 DEF Genuine, LeavesBy, Delays, PDelays
  <2> QED BY <2>2, <2>4, OwnFrames
<1>5. <<f>> \in Seq(InEgress(config.mechanism, p))
  BY <1>4
<1>6. EgressTyping'
  <2>1. config' = config /\ Issue(p, <<f>>)
    BY <1>1, <1>2, <1>3 DEF SendPDelayReq
  <2> QED BY <2>1, <1>1, <1>5, Issued DEF Typed
<1>7. ServicesTyped'
  <2>1. PDelayRequested(s) \in PDelayT
    <3>1. PICK k \in Nat : k = s.sequId
      BY DEF PDelayT
    <3>2. k + 1 \in Nat
      OBVIOUS
    <3>3. PDelayRequested(s) = [s EXCEPT !.requSequId = k, !.sequId = k + 1]
      BY <3>1 DEF PDelayRequested, PDelayT
    <3> QED BY <3>2, <3>3 DEF PDelayT
  <2> QED BY <1>1, <1>2, <2>1 DEF Typed, ServicesTyped, SendPDelayReq
<1>8. left' \in LeftT
  BY <1>1, SpendTyped DEF Typed, ResultsTyped, SendPDelayReq
<1>9. ResultsTyped'
  BY <1>1, <1>8 DEF Typed, ResultsTyped, SendPDelayReq
<1>10. /\ ConfigTyped' /\ ClocksTyped' /\ NicTyped' /\ IngressTyping' /\ WireTyping'
       /\ ControlTyped'
  BY <1>1 DEF Typed, ConfigTyped, ClocksTyped, NicTyped, IngressTyping, WireTyping,
              ControlTyped, SendPDelayReq
<1> QED BY <1>6, <1>7, <1>9, <1>10 DEF Typed

LEMMA ReadingTyped == Typed => \A n \in Nodes : Reading(n) \in TimeT
BY DEF Typed, ClocksTyped, Reading, TimeT

LEMMA MacIs ==
  Typed => \A p \in Ports : /\ Mac(p) = MacOf(config.mechanism, config.twoStep[p[1]], p)
                            /\ config.twoStep[p[1]] \in BOOLEAN
                            /\ nic[p[1]] \in NicT(p[1])
BY PortTypes DEF Typed, ConfigTyped, NicTyped, Mac, MacOf

\* A handler keeps the tables of the NIC control.
LEMMA NicStays ==
  ASSUME NicTyped, NEW p \in Ports, NEW tab \in NicT(p[1]), SameTables(tab, nic[p[1]]),
         nic' = [nic EXCEPT ![p[1]] = tab]
  PROVE  NicTyped'
<1>1. PICK n \in Nodes : n = p[1]
  BY PortTypes
<1>2. \A k \in Nodes : nic'[k] = IF k = n THEN tab ELSE nic[k]
  BY <1>1 DEF NicTyped
<1>3. nic' = [k \in Nodes |-> nic'[k]]
  BY <1>1 DEF NicTyped
<1>4. ASSUME NEW k \in Nodes
      PROVE  nic'[k] \in NicT(k) /\ \A q \in PortsOf(k) : nic'[k].asymmetry[q] = Asymmetry[q]
  BY <1>1, <1>2 DEF NicTyped, SameTables
<1> QED BY <1>3, <1>4 DEF NicTyped

\* The first frame of an egress queue, and what its handler makes of it.
LEMMA FirstOut ==
  ASSUME Typed, NEW p \in Ports, egress[p] # <<>>, NEW f, f = Head(egress[p]),
         NEW out, out = HandleEgress(Mac(p), nic[p[1]], f, Reading(p[1]))
  PROVE  /\ f \in InEgress(config.mechanism, p)
         /\ Outcome(out, f, nic[p[1]], p[1])
         /\ f.type \notin {"SYNC", "FOLLOW_UP"} => Untouched(out, f, nic[p[1]], p[1])
         /\ out.requ # "NONE" => f.type = "SYNC" /\ f.source # p /\ out.requ = "TRIG_SFU"
<1>1. f \in InEgress(config.mechanism, p)
  <2>1. egress[p] \in Seq(InEgress(config.mechanism, p))
    BY DEF Typed, EgressTyping
  <2> QED BY <2>1
<1>2. PICK two \in BOOLEAN, n \in Nodes, clk \in TimeT :
        two = config.twoStep[p[1]] /\ n = p[1] /\ clk = Reading(p[1])
  BY PortTypes, MacIs, ReadingTyped
<1>3. PICK ctl \in NicT(n) : ctl = nic[p[1]]
  BY <1>2, MacIs
<1>4. out = HandleEgress(MacOf(config.mechanism, two, p), ctl, f, clk)
  BY <1>2, <1>3, MacIs
<1>5. /\ Outcome(out, f, ctl, n)
      /\ f.type \notin {"SYNC", "FOLLOW_UP"} => Untouched(out, f, ctl, n)
      /\ out.requ # "NONE" => f.type = "SYNC" /\ f.source # p /\ out.requ = "TRIG_SFU"
  BY <1>1, <1>2, <1>4, EgressTyped
<1> QED BY <1>1, <1>2, <1>3, <1>5

LEMMA TransmitTyped == ASSUME NEW p \in Ports PROVE Typed /\ Transmit(p) => Typed'
<1>1. SUFFICES ASSUME Typed, Transmit(p) PROVE Typed'
  OBVIOUS
<1>2. PICK f : f = Head(egress[p])
  OBVIOUS
<1>3. PICK out : out = HandleEgress(Mac(p), nic[p[1]], f, Reading(p[1]))
  OBVIOUS
<1>4. PICK clean \in BOOLEAN : clean = StaysClean(p, f, f.source # p)
  <2>1. StaysClean(p, f, f.source # p) \in BOOLEAN
    BY DEF StaysClean
  <2> QED BY <2>1
<1>5. PICK g : g = [out.frame EXCEPT !.clean = clean]
  OBVIOUS
<1>6. /\ egress[p] # <<>>
      /\ failed' = out.failed
      /\ nic' = [nic EXCEPT ![p[1]] = out.nic]
      /\ wire' = [wire EXCEPT ![p] = Append(@, [frame |-> g, left |-> LinkDelay[p]])]
      /\ control' = IF out.requ = "NONE" THEN control
                    ELSE [control EXCEPT ![p[1]] =
                            Append(@, [what |-> out.requ, port |-> p, frame |-> out.frame])]
      /\ egress' = [egress EXCEPT ![p] = Tail(@)]
  BY <1>1, <1>2, <1>3, <1>4, <1>5 DEF Transmit
<1>7. UNCHANGED <<config, now, clock, ingress, sync, delay, pdelay, estimate,
                  portEstimate, sample, measure, used, trusted, lost, left>>
  BY <1>1 DEF Transmit
<1>8. /\ f \in InEgress(config.mechanism, p) /\ Outcome(out, f, nic[p[1]], p[1])
      /\ out.requ # "NONE" => f.type = "SYNC" /\ f.source # p /\ out.requ = "TRIG_SFU"
  BY <1>1, <1>2, <1>3, <1>6, FirstOut
<1>9. /\ out.frame \in FrameT /\ SameFrame(out.frame, f) /\ out.nic \in NicT(p[1])
      /\ SameTables(out.nic, nic[p[1]]) /\ out.failed \in BOOLEAN
  BY <1>8 DEF Outcome, OutT
<1>10. NicTyped'
  BY <1>1, <1>6, <1>9, NicStays DEF Typed
<1>11. EgressTyping'
  <2>1. /\ egress[p] \in Seq(FrameT) /\ egress[p] \in Seq(InEgress(config.mechanism, p))
        /\ egress \in [Ports -> Seq(FrameT)]
    BY <1>1 DEF Typed, EgressTyping
  <2>2. /\ Tail(egress[p]) \in Seq(FrameT)
        /\ Tail(egress[p]) \in Seq(InEgress(config.mechanism, p))
    BY <2>1, <1>6
  <2>3. egress' \in [Ports -> Seq(FrameT)]
    BY <1>6, <2>1, <2>2
  <2>4. ASSUME NEW q \in Ports PROVE egress'[q] \in Seq(InEgress(config.mechanism, q))
    BY <1>1, <1>6, <2>1, <2>2 DEF Typed, EgressTyping
  <2> QED BY <1>7, <2>3, <2>4 DEF EgressTyping
<1>12. WireTyping'
  <2>1. g \in OnWire(config.mechanism, p)
    <3>1. g \in FrameT /\ g.type = f.type /\ g.source = f.source /\ g.requester = f.requester
      BY <1>5, <1>9 DEF FrameT, SameFrame
    <3>2. Genuine(config.mechanism, f) /\ LeavesBy(f, p)
      BY <1>8 DEF InEgress, OnWire
    <3> QED BY <3>1, <3>2 DEF OnWire, Genuine, LeavesBy
  <2>2. g \in FrameT /\ LinkDelay[p] \in Nat
    BY <2>1, NetworkAssumption DEF OnWire
  <2>3. PICK e \in WireT : e.frame = g /\ e.left = LinkDelay[p]
                             /\ wire' = [wire EXCEPT ![p] = Append(@, e)]
    <3>1. [frame |-> g, left |-> LinkDelay[p]] \in WireT
      BY <2>2 DEF WireT
    <3> QED BY <3>1, <1>6
  <2>4. PICK w \in Seq(WireT) : w = wire[p]
    BY <1>1 DEF Typed, WireTyping
  <2>5. Append(w, e) \in Seq(WireT)
    BY <2>3, <2>4
  <2>6. wire' \in [Ports -> Seq(WireT)] /\ \A q \in Ports : wire'[q] =
                                              IF q = p THEN Append(w, e) ELSE wire[q]
    BY <1>1, <2>3, <2>4, <2>5 DEF Typed, WireTyping
  <2>7. ASSUME NEW i \in DOMAIN Append(w, e)
        PROVE  /\ Append(w, e)[i].frame \in OnWire(config.mechanism, p)
               /\ Append(w, e)[i].left <= LinkDelay[p]
               /\ \A j \in DOMAIN Append(w, e) : j <= i =>
                    Append(w, e)[j].left <= Append(w, e)[i].left
    <3>1. \A k \in DOMAIN w : /\ w[k].frame \in OnWire(config.mechanism, p)
                              /\ w[k].left <= LinkDelay[p]
                              /\ \A j \in DOMAIN w : j <= k => w[j].left <= w[k].left
      BY <1>1, <2>4 DEF Typed, WireTyping
    <3>2. CASE i \in DOMAIN w
      <4>1. Append(w, e)[i] = w[i]
        BY <3>2, <2>3, <2>4
      <4>2. \A j \in DOMAIN Append(w, e) : j <= i => j \in DOMAIN w /\ Append(w, e)[j] = w[j]
        BY <3>2, <2>3, <2>4
      <4> QED BY <3>1, <3>2, <4>1, <4>2
    <3>3. CASE i \notin DOMAIN w
      <4>1. i = Len(w) + 1 /\ Append(w, e)[i] = e
        BY <3>3, <2>3, <2>4
      <4>2. ASSUME NEW j \in DOMAIN Append(w, e) PROVE Append(w, e)[j].left <= e.left
        <5>1. CASE j = Len(w) + 1
          <6>1. e.left \in Nat
            BY <2>3 DEF WireT
          <6>2. Append(w, e)[j] = e
            BY <5>1, <2>3, <2>4
          <6> QED BY <6>1, <6>2
        <5>2. CASE j # Len(w) + 1
          <6>1. j \in DOMAIN w /\ Append(w, e)[j] = w[j]
            BY <5>2, <2>3, <2>4
          <6> QED BY <6>1, <3>1, <2>3
        <5> QED BY <5>1, <5>2
      <4>3. e.left <= LinkDelay[p]
        BY <2>2, <2>3
      <4> QED BY <2>1, <2>3, <4>1, <4>2, <4>3
    <3> QED BY <3>2, <3>3
  <2>8. ASSUME NEW q \in Ports, NEW i \in DOMAIN wire'[q]
        PROVE  /\ wire'[q][i].frame \in OnWire(config.mechanism, q)
               /\ wire'[q][i].left <= LinkDelay[q]
               /\ \A j \in DOMAIN wire'[q] : j <= i => wire'[q][j].left <= wire'[q][i].left
    <3>1. CASE q = p
      BY <3>1, <2>6, <2>7, <2>8
    <3>2. CASE q # p
      BY <3>2, <2>6, <2>8, <1>1 DEF Typed, WireTyping
    <3> QED BY <3>1, <3>2
  <2> QED BY <1>7, <2>6, <2>8 DEF WireTyping
<1>13. ControlTyped'
  <2>1. CASE out.requ = "NONE"
    BY <1>1, <1>6, <2>1 DEF Typed, ControlTyped
  <2>2. CASE out.requ # "NONE"
    <3>1. PICK n \in Nodes : n = p[1]
      BY PortTypes
    <3>2. PICK r : r = [what |-> out.requ, port |-> p, frame |-> out.frame]
      OBVIOUS
    <3>3. r \in Messages(n)
      <4>1. f.type = "SYNC" /\ f.source # p /\ out.requ = "TRIG_SFU"
        BY <1>8, <2>2
      <4>2. f.source = MasterPort /\ p \in Down
        BY <1>8, <4>1 DEF InEgress, OnWire, Genuine, LeavesBy, PDelays
      <4>3. r \in [what : {"TRIG_SFU"}, port : PortsOf(n) \cap Down, frame : FrameT]
        BY <1>9, <3>1, <3>2, <4>1, <4>2 DEF PortsOf
      <4> QED BY <1>9, <3>2, <4>1, <4>2, <4>3 DEF Messages, Requests, SameFrame
    <3>4. control[n] \in Seq(Messages(n))
      BY <1>1 DEF Typed, ControlTyped
    <3>5. Append(control[n], r) \in Seq(Messages(n))
      BY <3>3, <3>4
    <3>6. control' = [control EXCEPT ![n] = Append(@, r)]
      BY <1>6, <2>2, <3>1, <3>2
    <3>7. control' = [k \in Nodes |-> control'[k]] /\ \A k \in Nodes :
            control'[k] = IF k = n THEN Append(control[n], r) ELSE control[k]
      BY <1>1, <3>6 DEF Typed, ControlTyped
    <3>8. ASSUME NEW k \in Nodes PROVE control'[k] \in Seq(Messages(k))
      BY <1>1, <3>5, <3>7 DEF Typed, ControlTyped
    <3> QED BY <3>7, <3>8 DEF ControlTyped
  <2> QED BY <2>1, <2>2
<1>14. ResultsTyped'
  BY <1>1, <1>6, <1>7, <1>9 DEF Typed, ResultsTyped
<1>15. ConfigTyped' /\ ClocksTyped' /\ IngressTyping' /\ ServicesTyped'
  BY <1>1, <1>7 DEF Typed, ConfigTyped, ClocksTyped, IngressTyping, ServicesTyped
<1> QED BY <1>10, <1>11, <1>12, <1>13, <1>14, <1>15 DEF Typed

LEMMA OnPeersWire ==
  ASSUME Typed, NEW p \in Ports, Arrives(p)
  PROVE  /\ wire[Peer[p]] \in Seq(WireT) /\ wire[Peer[p]] # <<>>
         /\ Head(wire[Peer[p]]).frame \in OnWire(config.mechanism, Peer[p])
<1>1. Peer[p] \in Ports /\ wire[Peer[p]] # <<>>
  BY PortTypes DEF Arrives
<1>2. wire[Peer[p]] \in Seq(WireT)
  BY <1>1 DEF Typed, WireTyping
<1>3. 1 \in DOMAIN wire[Peer[p]] /\ Head(wire[Peer[p]]) = wire[Peer[p]][1]
  BY <1>1, <1>2
<1>4. wire[Peer[p]][1].frame \in OnWire(config.mechanism, Peer[p])
  BY <1>1, <1>3 DEF Typed, WireTyping
<1> QED BY <1>1, <1>2, <1>3, <1>4

LEMMA WireShortens ==
  ASSUME WireTyping, config' = config, NEW q \in Ports, wire[q] # <<>>,
         wire' = [wire EXCEPT ![q] = Tail(@)]
  PROVE  WireTyping'
<1>1. PICK w \in Seq(WireT) : w = wire[q] /\ w # <<>>
  BY DEF WireTyping
<1>2. Tail(w) \in Seq(WireT) /\ \A i \in DOMAIN Tail(w) : i + 1 \in DOMAIN w /\ Tail(w)[i] = w[i + 1]
  BY <1>1
<1>3. wire' \in [Ports -> Seq(WireT)]
        /\ \A p \in Ports : wire'[p] = IF p = q THEN Tail(w) ELSE wire[p]
  BY <1>1, <1>2 DEF WireTyping
<1>4. ASSUME NEW p \in Ports, NEW i \in DOMAIN wire'[p]
      PROVE  /\ wire'[p][i].frame \in OnWire(config.mechanism, p)
             /\ wire'[p][i].left <= LinkDelay[p]
             /\ \A j \in DOMAIN wire'[p] : j <= i => wire'[p][j].left <= wire'[p][i].left
  <2>1. CASE p = q
    <3>1. \A k \in DOMAIN w : /\ w[k].frame \in OnWire(config.mechanism, q)
                              /\ w[k].left <= LinkDelay[q]
                              /\ \A j \in DOMAIN w : j <= k => w[j].left <= w[k].left
      BY <1>1 DEF WireTyping
    <3>2. wire'[p] = Tail(w)
      BY <1>3, <2>1
    <3>3. \A j \in DOMAIN Tail(w) : j \in Int /\ (j <= i => j + 1 <= i + 1)
      BY <1>1, <1>4, <3>2
    <3> QED BY <1>2, <1>4, <2>1, <3>1, <3>2, <3>3
  <2>2. CASE p # q
    BY <1>3, <1>4, <2>2 DEF WireTyping
  <2> QED BY <2>1, <2>2
<1> QED BY <1>3, <1>4 DEF WireTyping

\* The first frame of a wire, and what the MAC at its end makes of it.
LEMMA FirstIn ==
  ASSUME Typed, NEW p \in Ports, Arrives(p),
         NEW f, f = [Head(wire[Peer[p]]).frame EXCEPT !.epoch = clock[p[1]].epoch],
         NEW out, out = HandleIngress(Mac(p), nic[p[1]], f, Reading(p[1]))
  PROVE  /\ f \in OnWire(config.mechanism, Peer[p])
         /\ Enters(out, f, p, nic[p[1]]) /\ out.frame \in InIngress(config.mechanism, p)
         /\ Taken(out, f, p, nic[p[1]], config.twoStep[p[1]], Reading(p[1]))
         /\ nic[p[1]].asymmetry[p] = Asymmetry[p]
<1>1. PICK g \in OnWire(config.mechanism, Peer[p]) : g = Head(wire[Peer[p]]).frame
  BY OnPeersWire
<1>2. f \in OnWire(config.mechanism, Peer[p])
  <2>1. clock[p[1]].epoch \in Int
    BY PortTypes DEF Typed, ClocksTyped
  <2>2. f = [g EXCEPT !.epoch = clock[p[1]].epoch]
    BY <1>1
  <2>3. g \in FrameT /\ Genuine(config.mechanism, g) /\ LeavesBy(g, Peer[p])
    BY DEF OnWire
  <2>4. f \in FrameT /\ f.type = g.type /\ f.source = g.source /\ f.requester = g.requester
    BY <2>1, <2>2, <2>3 DEF FrameT
  <2> QED BY <2>3, <2>4 DEF OnWire, Genuine, LeavesBy
<1>3. PICK two \in BOOLEAN, clk \in TimeT, ctl \in NicT(p[1]) :
        /\ two = config.twoStep[p[1]] /\ clk = Reading(p[1]) /\ ctl = nic[p[1]]
  BY PortTypes, MacIs, ReadingTyped
<1>4. out = HandleIngress(MacOf(config.mechanism, two, p), ctl, f, clk)
  BY <1>3, MacIs
<1>5. Taken(out, f, p, ctl, two, clk)
  BY <1>2, <1>4, IngressTyped
<1>6. ctl.asymmetry[p] = Asymmetry[p]
  BY <1>3, PortTypes DEF Typed, NicTyped
<1>7. out.frame \in InIngress(config.mechanism, p)
  BY <1>2, <1>5, ArrivedTyped DEF Enters, Taken
<1> QED BY <1>2, <1>3, <1>5, <1>6, <1>7 DEF Taken

LEMMA ReceiveTyped == ASSUME NEW p \in Ports PROVE Typed /\ Receive(p) => Typed'
<1>1. SUFFICES ASSUME Typed, Receive(p) PROVE Typed'
  OBVIOUS
<1>2. PICK f : f = [Head(wire[Peer[p]]).frame EXCEPT !.epoch = clock[p[1]].epoch]
  OBVIOUS
<1>3. PICK out : out = HandleIngress(Mac(p), nic[p[1]], f, Reading(p[1]))
  OBVIOUS
<1>4. /\ Arrives(p)
      /\ \/ UNCHANGED <<nic, ingress>>
         \/ /\ nic' = [nic EXCEPT ![p[1]] = out.nic]
            /\ ingress' = [ingress EXCEPT ![p] = Append(@, out.frame)]
      /\ wire' = [wire EXCEPT ![Peer[p]] = Tail(@)]
  BY <1>1, <1>2, <1>3 DEF Receive
<1>5. UNCHANGED <<config, now, clock, egress, control, sync, delay, pdelay, estimate,
                  portEstimate, failed, sample, measure, used, trusted, lost, left>>
  BY <1>1 DEF Receive
<1>6. Enters(out, f, p, nic[p[1]]) /\ out.frame \in InIngress(config.mechanism, p)
  BY <1>1, <1>2, <1>3, <1>4, FirstIn
<1>7. NicTyped' /\ IngressTyping'
  <2>1. CASE UNCHANGED <<nic, ingress>>
    BY <2>1, <1>1, <1>5 DEF Typed, NicTyped, IngressTyping
  <2>2. CASE /\ nic' = [nic EXCEPT ![p[1]] = out.nic]
             /\ ingress' = [ingress EXCEPT ![p] = Append(@, out.frame)]
    <3>1. NicTyped'
      BY <1>1, <1>6, <2>2, NicStays DEF Typed, Enters
    <3>2. /\ ingress[p] \in Seq(InIngress(config.mechanism, p))
          /\ ingress \in [Ports -> Seq(FrameT)]
      BY <1>1 DEF Typed, IngressTyping
    <3>3. Append(ingress[p], out.frame) \in Seq(InIngress(config.mechanism, p))
      BY <1>6, <3>2
    <3>4. Append(ingress[p], out.frame) \in Seq(FrameT)
      BY <3>3, OnWireOnPort, SeqOf
    <3>5. ingress' \in [Ports -> Seq(FrameT)] /\ \A q \in Ports :
            ingress'[q] = IF q = p THEN Append(ingress[p], out.frame) ELSE ingress[q]
      BY <2>2, <3>2, <3>4
    <3>6. ASSUME NEW q \in Ports PROVE ingress'[q] \in Seq(InIngress(config.mechanism, q))
      BY <1>1, <3>3, <3>5 DEF Typed, IngressTyping
    <3> QED BY <1>5, <3>1, <3>5, <3>6 DEF IngressTyping
  <2> QED BY <1>4, <2>1, <2>2
<1>8. WireTyping'
  BY <1>1, <1>4, <1>5, OnPeersWire, PortTypes, WireShortens DEF Typed
<1>9. /\ ConfigTyped' /\ ClocksTyped' /\ EgressTyping' /\ ControlTyped' /\ ServicesTyped'
      /\ ResultsTyped'
  BY <1>1, <1>5 DEF Typed, ConfigTyped, ClocksTyped, EgressTyping, ControlTyped,
                    ServicesTyped, ResultsTyped
<1> QED BY <1>7, <1>8, <1>9 DEF Typed

LEMMA LoseTyped == ASSUME NEW p \in Ports PROVE Typed /\ Lose(p) => Typed'
<1>1. SUFFICES ASSUME Typed, Lose(p) PROVE Typed'
  OBVIOUS
<1>2. Arrives(p) /\ config' = config /\ wire' = [wire EXCEPT ![Peer[p]] = Tail(@)]
  BY <1>1 DEF Lose
<1>3. WireTyping'
  BY <1>1, <1>2, OnPeersWire, PortTypes, WireShortens DEF Typed
<1>4. left' \in LeftT
  BY <1>1, SpendTyped DEF Typed, ResultsTyped, Lose
<1>5. lost' \in BOOLEAN
  BY <1>1 DEF Lose
<1>6. ResultsTyped'
  BY <1>1, <1>4, <1>5 DEF Typed, ResultsTyped, Lose
<1>7. /\ ConfigTyped' /\ ClocksTyped' /\ NicTyped' /\ IngressTyping' /\ EgressTyping'
      /\ ControlTyped' /\ ServicesTyped'
  BY <1>1 DEF Typed, ConfigTyped, ClocksTyped, NicTyped, IngressTyping, EgressTyping,
              ControlTyped, ServicesTyped, Lose
<1> QED BY <1>3, <1>6, <1>7 DEF Typed

LEMMA ElapseTyped == Typed /\ Elapse => Typed'
<1>1. SUFFICES ASSUME Typed, Elapse PROVE Typed'
  OBVIOUS
<1>2. /\ \A p \in Ports : ~Arrives(p)
      /\ wire' = [p \in Ports |->
                    [i \in DOMAIN wire[p] |-> [wire[p][i] EXCEPT !.left = @ - 1]]]
      /\ config' = config /\ now' = now + 1
  BY <1>1 DEF Elapse
<1>3. ASSUME NEW p \in Ports
      PROVE  /\ wire'[p] \in Seq(WireT)
             /\ \A i \in DOMAIN wire'[p] :
                  /\ wire'[p][i].frame \in OnWire(config.mechanism, p)
                  /\ wire'[p][i].left <= LinkDelay[p]
                  /\ \A j \in DOMAIN wire'[p] : j <= i => wire'[p][j].left <= wire'[p][i].left
  <2>1. PICK w \in Seq(WireT) : w = wire[p]
    BY <1>1 DEF Typed, WireTyping
  <2>2. \A k \in DOMAIN w : /\ w[k].frame \in OnWire(config.mechanism, p)
                            /\ w[k].left <= LinkDelay[p]
                            /\ \A j \in DOMAIN w : j <= k => w[j].left <= w[k].left
    BY <1>1, <2>1 DEF Typed, WireTyping
  <2>3. ASSUME NEW k \in DOMAIN w PROVE w[k] \in WireT /\ w[k].left \in Nat /\ w[k].left # 0
    <3>1. \A j \in DOMAIN w : w[j] \in WireT
      BY <2>1
    <3>2. \A j \in DOMAIN w : w[j].left \in Nat
      BY <3>1 DEF WireT
    <3>3. 1 \in DOMAIN w /\ 1 <= k /\ w # <<>>
      BY <2>1, <2>3
    <3>4. w[1].left <= w[k].left
      BY <2>2, <2>3, <3>3
    <3>5. w[1].left # 0
      <4>1. Peer[p] \in Ports /\ Peer[Peer[p]] = p
        BY NetworkAssumption
      <4>2. ~Arrives(Peer[p])
        BY <4>1, <1>2
      <4> QED BY <4>1, <4>2, <3>3, <2>1 DEF Arrives
    <3> QED BY <2>3, <3>1, <3>2, <3>3, <3>4, <3>5
  <2>4. PICK v : v = wire'[p]
    OBVIOUS
  <2>5. /\ DOMAIN v = DOMAIN w
        /\ \A i \in DOMAIN w : v[i] = [w[i] EXCEPT !.left = @ - 1]
    BY <1>2, <2>1, <2>4
  <2>6. \A i \in DOMAIN w : v[i] \in WireT /\ v[i].frame = w[i].frame /\ v[i].left = w[i].left - 1
    BY <2>3, <2>5 DEF WireT
  <2>7. v \in Seq(WireT)
    <3>1. v = [i \in 1 .. Len(w) |-> [w[i] EXCEPT !.left = @ - 1]]
      BY <1>2, <2>1, <2>4
    <3>2. v \in [1 .. Len(w) -> WireT] /\ Len(w) \in Nat
      <4>1. DOMAIN w = 1 .. Len(w) /\ Len(w) \in Nat
        OBVIOUS
      <4>2. \A i \in 1 .. Len(w) : [w[i] EXCEPT !.left = @ - 1] \in WireT
        BY <2>5, <2>6, <4>1
      <4> QED BY <3>1, <4>1, <4>2
    <3> QED BY <3>2
  <2>8. LinkDelay[p] \in Nat
    BY NetworkAssumption
  <2> QED BY <2>2, <2>3, <2>4, <2>5, <2>6, <2>7, <2>8
<1>4. wire' \in [Ports -> Seq(WireT)]
  BY <1>2, <1>3
<1>5. WireTyping'
  BY <1>2, <1>3, <1>4 DEF WireTyping
<1>6. ClocksTyped'
  BY <1>1, <1>2 DEF Typed, ClocksTyped, Elapse
<1>7. left' \in LeftT
  BY <1>1, SpendTyped DEF Typed, ResultsTyped, Elapse
<1>8. ResultsTyped'
  BY <1>1, <1>7 DEF Typed, ResultsTyped, Elapse
<1>9. /\ ConfigTyped' /\ NicTyped' /\ IngressTyping' /\ EgressTyping' /\ ControlTyped'
      /\ ServicesTyped'
  BY <1>1 DEF Typed, ConfigTyped, NicTyped, IngressTyping, EgressTyping, ControlTyped,
              ServicesTyped, Elapse
<1> QED BY <1>5, <1>6, <1>8, <1>9 DEF Typed

LEMMA EmptiedControl ==
  ASSUME ControlTyped, NEW n \in Nodes, control[n] # <<>>, control' = [control EXCEPT ![n] = Tail(@)]
  PROVE  ControlTyped' /\ Head(control[n]) \in Messages(n)
<1>1. control[n] \in Seq(Messages(n))
  BY DEF ControlTyped
<1>2. Tail(control[n]) \in Seq(Messages(n)) /\ Head(control[n]) \in Messages(n)
  BY <1>1
<1>3. control' = [k \in Nodes |-> control'[k]] /\ \A k \in Nodes :
        control'[k] = IF k = n THEN Tail(control[n]) ELSE control[k]
  BY DEF ControlTyped
<1>4. ASSUME NEW k \in Nodes PROVE control'[k] \in Seq(Messages(k))
  BY <1>2, <1>3 DEF ControlTyped
<1> QED BY <1>2, <1>3, <1>4 DEF ControlTyped

\* A triggered Follow_Up is that of the Sync.
LEMMA FollowUpOf ==
  ASSUME NEW s \in FrameT, NEW f, f = CreateFollowUpFrame(s)
  PROVE  /\ f \in FrameT /\ f.type = "FOLLOW_UP" /\ f.source = s.source /\ f.seq = s.seq
         /\ f.origin = s.origin /\ f.corr = 0 /\ f.twoStep = FALSE /\ f.clean
<1>1. s.source \in Ports /\ s.seq \in Nat /\ s.twoStep \in BOOLEAN /\ s.origin \in Int
      /\ "FOLLOW_UP" \in FrameTypes
  BY DEF FrameT, FrameTypes
<1>2. PICK h : h = Frame("FOLLOW_UP", s.source, s.seq, FALSE)
  OBVIOUS
<1>3. /\ h \in FrameT /\ h.type = "FOLLOW_UP" /\ h.source = s.source /\ h.seq = s.seq
      /\ h.twoStep = FALSE /\ h.clean /\ h.corr = 0
  BY <1>1, <1>2 DEF Frame, FrameT, NoTime, TimeT, PortOrNone
<1>4. f = [h EXCEPT !.origin = s.origin]
  BY <1>2 DEF CreateFollowUpFrame
<1> QED BY <1>1, <1>3, <1>4, SetsOrigin DEF SameFrame

LEMMA ControlStepTyped == ASSUME NEW n \in Nodes PROVE Typed /\ Control(n) => Typed'
<1>1. SUFFICES ASSUME Typed, Control(n) PROVE Typed'
  OBVIOUS
<1>2. PICK m : m = Head(control[n])
  OBVIOUS
<1>3. /\ control[n] # <<>> /\ control' = [control EXCEPT ![n] = Tail(@)]
      /\ UNCHANGED <<config, now, clock, ingress, wire, sync, delay, pdelay, estimate,
                     portEstimate, failed, sample, measure, used, trusted, lost, left>>
  BY <1>1 DEF Control
<1>4. ControlTyped' /\ m \in Messages(n)
  BY <1>1, <1>2, <1>3, EmptiedControl DEF Typed
<1>5. CASE m.what = "PATH_DELAY"
  <2>1. /\ nic' = [nic EXCEPT ![n].peerMeanPathDelay[m.port] = m.delay]
        /\ egress' = egress
    BY <1>1, <1>2, <1>5 DEF Control
  <2>2. m.port \in PortsOf(n) /\ m.delay \in Int
    <3>1. m \in Updates(n)
      BY <1>4, <1>5 DEF Messages, Requests
    <3> QED BY <3>1 DEF Updates
  <2>3. PICK ctl \in NicT(n) : ctl = nic[n]
    BY <1>1 DEF Typed, NicTyped
  <2>4. PICK r : r = [ctl.peerMeanPathDelay EXCEPT ![m.port] = m.delay]
    OBVIOUS
  <2>5. r \in [PortsOf(n) -> Int]
    BY <2>2, <2>3, <2>4 DEF NicT
  <2>6. PICK tab : tab = [ctl EXCEPT !.peerMeanPathDelay = r]
    OBVIOUS
  <2>7. tab \in NicT(n) /\ tab.asymmetry = ctl.asymmetry
    BY <2>3, <2>5, <2>6 DEF NicT
  <2>8. nic' = [nic EXCEPT ![n] = tab]
    BY <2>1, <2>3, <2>4, <2>6
  <2>9. nic' = [k \in Nodes |-> nic'[k]] /\ \A k \in Nodes :
          nic'[k] = IF k = n THEN tab ELSE nic[k]
    BY <1>1, <2>8 DEF Typed, NicTyped
  <2>10. ASSUME NEW k \in Nodes
         PROVE  /\ nic'[k] \in NicT(k)
                /\ \A q \in PortsOf(k) : nic'[k].asymmetry[q] = Asymmetry[q]
    BY <1>1, <2>3, <2>7, <2>9 DEF Typed, NicTyped
  <2>11. NicTyped'
    BY <2>9, <2>10 DEF NicTyped
  <2>12. EgressTyping'
    BY <1>1, <1>3, <2>1 DEF Typed, EgressTyping
  <2> QED BY <1>1, <1>3, <1>4, <2>11, <2>12
          DEF Typed, ConfigTyped, ClocksTyped, IngressTyping, WireTyping, ServicesTyped,
              ResultsTyped
<1>6. CASE m.what # "PATH_DELAY"
  <2>1. m \in Requests(n)
    BY <1>4, <1>6 DEF Messages, Updates
  <2>2. /\ m.what = "TRIG_SFU" /\ m.port \in Ports /\ m.port \in Down /\ m.frame \in FrameT
        /\ m.frame.source = MasterPort
    BY <2>1 DEF Requests, PortsOf
  <2>3. PICK f : f = CreateFollowUpFrame(m.frame)
    OBVIOUS
  <2>4. Issue(m.port, <<f>>) /\ nic' = nic
    BY <1>1, <1>2, <1>6, <2>2, <2>3 DEF Control
  <2>5. f \in FrameT /\ f.type = "FOLLOW_UP" /\ f.source = MasterPort
    BY <2>2, <2>3, FollowUpOf
  <2>6. Genuine(config.mechanism, f) /\ LeavesBy(f, m.port)
    BY <2>2, <2>5 DEF Genuine, LeavesBy, Delays, PDelays
  <2>7. f \in InEgress(config.mechanism, m.port)
    BY <2>2, <2>5, <2>6, OwnFrames
  <2>8. <<f>> \in Seq(InEgress(config.mechanism, m.port))
    BY <2>7
  <2>9. EgressTyping'
    BY <1>1, <1>3, <2>2, <2>4, <2>8, Issued DEF Typed
  <2> QED BY <1>1, <1>3, <1>4, <2>4, <2>9
          DEF Typed, ConfigTyped, ClocksTyped, NicTyped, IngressTyping, WireTyping,
              ServicesTyped, ResultsTyped
<1> QED BY <1>5, <1>6

LEMMA PDelayBumps == \A s \in PDelayT : PDelayTimeJump(s) \in PDelayT
<1>1. SUFFICES ASSUME NEW s \in PDelayT PROVE PDelayTimeJump(s) \in PDelayT
  OBVIOUS
<1>2. PICK k \in Nat : k = s.sequId
  BY DEF PDelayT
<1>3. PDelayTimeJump(s) = [s EXCEPT !.requSequId = k, !.sequId = k + 1]
  BY <1>2 DEF PDelayTimeJump, PDelayT
<1>4. k + 1 \in Nat
  OBVIOUS
<1> QED BY <1>3, <1>4 DEF PDelayT

LEMMA DelayBumps == \A d \in DelayT : DelayTimeJump(d) \in DelayT
<1>1. SUFFICES ASSUME NEW d \in DelayT PROVE DelayTimeJump(d) \in DelayT
  OBVIOUS
<1>2. PICK k \in Nat : k = d.sequId
  BY DEF DelayT
<1>3. DelayTimeJump(d) = [d EXCEPT !.requSequId = k, !.sequId = k + 1]
  BY <1>2 DEF DelayTimeJump, DelayT
<1>4. k + 1 \in Nat
  OBVIOUS
<1> QED BY <1>3, <1>4 DEF DelayT

LEMMA JumpTyped ==
  ASSUME Typed, NEW n \in Nodes, NEW delta \in Int, Jump(n, delta)
  PROVE  /\ clock' \in [Nodes -> [offset : Int, epoch : Nat]]
         /\ pdelay' \in [Ports -> PDelayT]
<1>1. clock' \in [Nodes -> [offset : Int, epoch : Nat]]
  <2>1. PICK c \in [offset : Int, epoch : Nat] : c = clock[n]
    BY DEF Typed, ClocksTyped
  <2>2. [offset |-> c.offset + delta, epoch |-> c.epoch + 1] \in [offset : Int, epoch : Nat]
    OBVIOUS
  <2>3. clock' = [clock EXCEPT ![n] = [offset |-> c.offset + delta, epoch |-> c.epoch + 1]]
    BY <2>1 DEF Jump
  <2> QED BY <2>2, <2>3 DEF Typed, ClocksTyped
<1>2. pdelay' \in [Ports -> PDelayT]
  <2>1. pdelay \in [Ports -> PDelayT]
    BY DEF Typed, ServicesTyped
  <2> QED BY <2>1, PDelayBumps DEF Jump
<1> QED BY <1>1, <1>2

LEMMA JumpTransparentTyped ==
  ASSUME NEW n \in Nodes PROVE Typed /\ JumpTransparent(n) => Typed'
<1>1. SUFFICES ASSUME Typed, JumpTransparent(n) PROVE Typed'
  OBVIOUS
<1>2. PICK delta \in Jumps : Jump(n, delta)
  BY <1>1 DEF JumpTransparent
<1>3. delta \in Int
  BY NetworkAssumption
<1>4. /\ clock' \in [Nodes -> [offset : Int, epoch : Nat]]
      /\ pdelay' \in [Ports -> PDelayT]
  BY <1>1, <1>2, <1>3, JumpTyped
<1>5. left' \in LeftT
  BY <1>1, SpendTyped DEF Typed, ResultsTyped, JumpTransparent
<1>6. ResultsTyped'
  BY <1>1, <1>5 DEF Typed, ResultsTyped, JumpTransparent
<1>7. ClocksTyped' /\ ServicesTyped'
  BY <1>1, <1>4 DEF Typed, ClocksTyped, ServicesTyped, JumpTransparent
<1>8. /\ ConfigTyped' /\ NicTyped' /\ IngressTyping' /\ EgressTyping' /\ WireTyping'
      /\ ControlTyped'
  BY <1>1 DEF Typed, ConfigTyped, NicTyped, IngressTyping, EgressTyping, WireTyping,
              ControlTyped, JumpTransparent
<1> QED BY <1>6, <1>7, <1>8 DEF Typed

-----------------------------------------------------------------------------
(* What becomes of a frame inside a node *)

\* A frame is sent on only by a transparent clock, to the port it did not come from.
LEMMA SentOnward ==
  ASSUME NEW m, NEW p \in Ports, NEW f \in InIngress(m, p), NEW q \in Ports, q[1] = p[1],
         GateOf(q[2]) \in Dispatch(ClockType(p[1]), Gates(p[1]), f.type, GateOf(p[2]))
  PROVE  q # p /\ ClockType(p[1]) = "TRANSPARENT" /\ f \in InEgress(m, q)
<1>1. q[2] \in Nat /\ p[2] \in Nat /\ p = <<p[1], p[2]>> /\ q = <<q[1], q[2]>>
  BY NetworkAssumption
<1>2. GateOf(q[2]) = q[2] + 1 /\ GateOf(p[2]) = p[2] + 1
  BY <1>1 DEF GateOf, InternalPort
<1>3. GateOf(q[2]) # InternalPort
  BY <1>1, <1>2 DEF InternalPort
<1>4. /\ ClockType(p[1]) # "ORDINARY" /\ f.type \notin PDelays
      /\ GateOf(q[2]) # GateOf(p[2])
  BY <1>3 DEF Dispatch, PDelays
<1>5. q # p /\ ClockType(p[1]) = "TRANSPARENT"
  BY <1>4 DEF ClockType
<1>6. PICK up \in Ports \ Down, down \in Down : PortsOf(p[1]) = {up, down}
  <2>1. p[1] \in Nodes \ {MasterPort[1], SlavePort[1]}
    BY <1>5, PortTypes DEF ClockType
  <2> QED BY <2>1, NetworkAssumption
<1>7. p \in PortsOf(p[1]) /\ q \in PortsOf(p[1])
  BY DEF PortsOf
<1>8. q \in Down <=> p \notin Down
  BY <1>5, <1>6, <1>7
<1>9. Peer[p] \in Down <=> p \notin Down
  BY NetworkAssumption
<1>10. f \in FrameT /\ Genuine(m, f) /\ LeavesBy(f, Peer[p]) /\ f.rx = p
  BY DEF InIngress, OnWire
<1>11. LeavesBy(f, q)
  BY <1>4, <1>8, <1>9, <1>10 DEF LeavesBy
<1>12. f.rx \in PortsOf(q[1]) \ {q}
  BY <1>5, <1>7, <1>10
<1> QED BY <1>5, <1>10, <1>11, <1>12 DEF InEgress, OnWire

LEMMA AnswerTyped ==
  ASSUME NEW p \in Ports, NEW f \in InIngress(config.mechanism, p), ConfigTyped
  PROVE  Answer(p, f) \in Seq(InEgress(config.mechanism, p))
<1>1. PICK S : S = InEgress(config.mechanism, p)
  OBVIOUS
<1>2. /\ f \in FrameT /\ Genuine(config.mechanism, f) /\ LeavesBy(f, Peer[p])
  BY DEF InIngress, OnWire
<1>3. /\ f.source \in Ports /\ f.seq \in Nat /\ f.stamp.time \in Int /\ f.corr \in Int
      /\ f.clean \in BOOLEAN /\ f.epoch \in Int
  BY <1>2 DEF FrameT, TimeT
<1>4. CASE f.type = "DELAY_REQ" /\ p = MasterPort
  <2>1. PICK r : r = CreateDelayRespFrame(f, p)
    OBVIOUS
  <2>2. PICK two \in BOOLEAN : two = FALSE
    OBVIOUS
  <2>3. PICK h : h = Frame("DELAY_RESP", p, f.seq, two)
    OBVIOUS
  <2>4. h \in FrameT /\ h.type = "DELAY_RESP" /\ h.source = p
    <3>1. "DELAY_RESP" \in FrameTypes
      BY DEF FrameTypes, Delays
    <3> QED BY <3>1, <1>3, <2>3, FrameTyped
  <2>5. r = [h EXCEPT !.receipt = f.stamp.time, !.requester = f.source, !.corr = f.corr,
                      !.clean = f.clean]
    BY <2>1, <2>2, <2>3 DEF CreateDelayRespFrame
  <2>6. r \in FrameT /\ r.type = "DELAY_RESP" /\ r.source = p /\ r.requester = f.source
    BY <1>3, <2>4, <2>5 DEF FrameT, PortOrNone
  <2>7. f.source = SlavePort /\ config.mechanism = "E2E"
    BY <1>2, <1>4 DEF Genuine, Delays
  <2>8. Genuine(config.mechanism, r) /\ LeavesBy(r, p)
    BY <1>4, <2>6, <2>7, NetworkAssumption DEF Genuine, LeavesBy, Delays, PDelays
  <2>9. r \in S
    BY <1>1, <2>6, <2>8, OwnFrames
  <2>10. <<r>> \in Seq(S)
    BY <2>9
  <2> QED BY <1>1, <1>4, <2>1, <2>10 DEF Answer
<1>5. CASE f.type = "PDELAY_REQ"
  <2>1. PICK two \in BOOLEAN : two = config.twoStep[p[1]]
    BY PortTypes DEF ConfigTyped
  <2>2. f.source = Peer[p] /\ config.mechanism = "P2P"
    BY <1>2, <1>5 DEF Genuine, LeavesBy, PDelays
  <2>3. ASSUME NEW b \in BOOLEAN PROVE CreatePDelayRespFrame(f, p, b) \in S
    <3>1. PICK h : h = Frame("PDELAY_RESP", p, f.seq, b)
      OBVIOUS
    <3>2. h \in FrameT /\ h.type = "PDELAY_RESP" /\ h.source = p
      <4>1. "PDELAY_RESP" \in FrameTypes
        BY DEF FrameTypes, PDelays
      <4> QED BY <4>1, <3>1, <1>3, FrameTyped
    <3>3. PICK c \in Int : c = IF b THEN 0 ELSE f.corr
      BY <1>3
    <3>4. PICK r : r = CreatePDelayRespFrame(f, p, b)
      OBVIOUS
    <3>5. r = [h EXCEPT !.requester = f.source, !.corr = c, !.clean = f.clean,
                        !.epoch = f.epoch]
      BY <3>1, <3>3, <3>4 DEF CreatePDelayRespFrame
    <3>6. r \in FrameT /\ r.type = "PDELAY_RESP" /\ r.source = p /\ r.requester = f.source
      BY <1>3, <3>2, <3>5 DEF FrameT, PortOrNone
    <3>7. Genuine(config.mechanism, r) /\ LeavesBy(r, p)
      BY <2>2, <3>6 DEF Genuine, LeavesBy, Delays, PDelays
    <3> QED BY <1>1, <3>4, <3>6, <3>7, OwnFrames
  <2>4. CreatePDelayRespFUFrame(f, p) \in S
    <3>1. PICK b \in BOOLEAN : b = TRUE
      OBVIOUS
    <3>2. PICK h : h = Frame("PDELAY_RESP_FU", p, f.seq, b)
      OBVIOUS
    <3>3. h \in FrameT /\ h.type = "PDELAY_RESP_FU" /\ h.source = p
      <4>1. "PDELAY_RESP_FU" \in FrameTypes
        BY DEF FrameTypes, PDelays
      <4> QED BY <4>1, <3>2, <1>3, FrameTyped
    <3>4. PICK r : r = CreatePDelayRespFUFrame(f, p)
      OBVIOUS
    <3>5. r = [h EXCEPT !.requester = f.source, !.corr = f.corr]
      BY <3>1, <3>2, <3>4 DEF CreatePDelayRespFUFrame
    <3>6. r \in FrameT /\ r.type = "PDELAY_RESP_FU" /\ r.source = p /\ r.requester = f.source
      BY <1>3, <3>3, <3>5 DEF FrameT, PortOrNone
    <3>7. Genuine(config.mechanism, r) /\ LeavesBy(r, p)
      BY <2>2, <3>6 DEF Genuine, LeavesBy, Delays, PDelays
    <3> QED BY <1>1, <3>4, <3>6, <3>7, OwnFrames
  <2>5. PICK x, y, z : /\ x = CreatePDelayRespFrame(f, p, TRUE)
                       /\ y = CreatePDelayRespFUFrame(f, p)
                       /\ z = CreatePDelayRespFrame(f, p, FALSE)
    OBVIOUS
  <2>6. x \in S /\ y \in S /\ z \in S
    <3>1. TRUE \in BOOLEAN /\ FALSE \in BOOLEAN
      OBVIOUS
    <3> QED BY <3>1, <2>3, <2>4, <2>5, Zenon
  <2>7. <<x, y>> \in Seq(S) /\ <<z>> \in Seq(S)
    BY <2>6
  <2>8. PDelayAnswer(f, p, two) \in Seq(S)
    BY <2>5, <2>7 DEF PDelayAnswer
  <2>9. Answer(p, f) = PDelayAnswer(f, p, config.twoStep[p[1]])
    BY <1>5 DEF Answer
  <2> QED BY <1>1, <2>1, <2>8, <2>9
<1>6. CASE ~(f.type = "DELAY_REQ" /\ p = MasterPort) /\ f.type # "PDELAY_REQ"
  <2>1. Answer(p, f) = <<>>
    BY <1>6, Zenon DEF Answer
  <2> QED BY <2>1
<1> QED BY <1>4, <1>5, <1>6

LEMMA FirstWaiting ==
  ASSUME Typed, NEW p \in Ports, ingress[p] # <<>>
  PROVE  Head(ingress[p]) \in InIngress(config.mechanism, p) /\ Head(ingress[p]) \in FrameT
<1>1. ingress[p] \in Seq(InIngress(config.mechanism, p))
  BY DEF Typed, IngressTyping
<1>2. Head(ingress[p]) \in InIngress(config.mechanism, p)
  BY <1>1
<1> QED BY <1>2, OnWireOnPort

LEMMA DeliverEgress ==
  ASSUME Typed, NEW p \in Ports, Deliver(p) PROVE EgressTyping' /\ IngressTyping'
<1>1. PICK f : f = Head(ingress[p])
  OBVIOUS
<1>2. ingress[p] # <<>> /\ config' = config /\ ingress' = [ingress EXCEPT ![p] = Tail(@)]
  BY DEF Deliver
<1>3. f \in InIngress(config.mechanism, p)
  BY <1>1, <1>2, FirstWaiting
<1>4. PICK gates : gates = Dispatch(ClockType(p[1]), Gates(p[1]), f.type, GateOf(p[2]))
  OBVIOUS
<1>5. egress' = [q \in Ports |-> egress[q]
                   \o (IF q[1] = p[1] /\ GateOf(q[2]) \in gates THEN <<f>> ELSE <<>>)
                   \o (IF q = p /\ InternalPort \in gates THEN Answer(p, f) ELSE <<>>)]
  BY <1>1, <1>4 DEF Deliver
<1>6. ASSUME NEW q \in Ports
      PROVE egress'[q] \in Seq(InEgress(config.mechanism, q)) /\ egress'[q] \in Seq(FrameT)
  <2>1. PICK a, b :
          /\ a = IF q[1] = p[1] /\ GateOf(q[2]) \in gates THEN <<f>> ELSE <<>>
          /\ b = IF q = p /\ InternalPort \in gates THEN Answer(p, f) ELSE <<>>
    OBVIOUS
  <2>2. PICK S : S = InEgress(config.mechanism, q)
    OBVIOUS
  <2>3. a \in Seq(S)
    <3>1. CASE q[1] = p[1] /\ GateOf(q[2]) \in gates
      <4>1. f \in S
        BY <1>3, <1>4, <2>2, <3>1, SentOnward
      <4> QED BY <4>1, <3>1, <2>1
    <3>2. CASE ~(q[1] = p[1] /\ GateOf(q[2]) \in gates)
      BY <2>1, <3>2
    <3> QED BY <3>1, <3>2
  <2>4. b \in Seq(S)
    <3>1. CASE q = p /\ InternalPort \in gates
      <4>1. Answer(p, f) \in Seq(InEgress(config.mechanism, p))
        BY <1>3, AnswerTyped DEF Typed
      <4> QED BY <4>1, <3>1, <2>1, <2>2
    <3>2. CASE ~(q = p /\ InternalPort \in gates)
      BY <2>1, <3>2
    <3> QED BY <3>1, <3>2
  <2>5. egress[q] \in Seq(S)
    BY <2>2 DEF Typed, EgressTyping
  <2>6. egress'[q] = egress[q] \o a \o b
    BY <1>5, <2>1
  <2>7. egress[q] \o a \in Seq(S)
    BY <2>3, <2>5
  <2>8. egress'[q] \in Seq(S)
    BY <2>4, <2>6, <2>7
  <2> QED BY <2>2, <2>8, OnWireOnPort, SeqOf
<1>7. egress' \in [Ports -> Seq(FrameT)]
  BY <1>5, <1>6
<1>8. EgressTyping'
  BY <1>2, <1>6, <1>7 DEF EgressTyping
<1>9. IngressTyping'
  <2>1. /\ ingress[p] \in Seq(FrameT) /\ ingress[p] \in Seq(InIngress(config.mechanism, p))
        /\ ingress \in [Ports -> Seq(FrameT)]
    BY DEF Typed, IngressTyping
  <2>2. /\ Tail(ingress[p]) \in Seq(FrameT)
        /\ Tail(ingress[p]) \in Seq(InIngress(config.mechanism, p))
    BY <1>2, <2>1
  <2>3. ingress' \in [Ports -> Seq(FrameT)] /\ \A q \in Ports :
          ingress'[q] = IF q = p THEN Tail(ingress[p]) ELSE ingress[q]
    BY <1>2, <2>1, <2>2
  <2>4. ASSUME NEW q \in Ports PROVE ingress'[q] \in Seq(InIngress(config.mechanism, q))
    BY <2>2, <2>3 DEF Typed, IngressTyping
  <2> QED BY <1>2, <2>3, <2>4 DEF IngressTyping
<1> QED BY <1>8, <1>9

-----------------------------------------------------------------------------
(* What the stack makes of a frame *)

LEMMA MatchedTyped == \A m \in MatcherT : Matched(m) \in MatcherT
BY DEF Matched, MatcherT

LEMMA PushFirstTyped ==
  ASSUME NEW m \in MatcherT, NEW time \in Int, NEW corr \in Int, NEW seq \in Int
  PROVE  PushFirst(m, time, corr, seq) \in MatcherT
<1>1. PICK t \in TimesT : t = m.times
  BY DEF MatcherT
<1>2. PICK b \in BOOLEAN : b = TRUE
  OBVIOUS
<1>3. PICK u : u = [t EXCEPT !.time1 = time, !.corr1 = corr, !.known = b]
  OBVIOUS
<1>4. u \in TimesT
  BY <1>3 DEF TimesT
<1>5. PICK k : k = [m EXCEPT !.sequ1 = seq, !.times = u]
  OBVIOUS
<1>6. k \in MatcherT
  BY <1>4, <1>5 DEF MatcherT
<1>7. k = [m EXCEPT !.sequ1 = seq, !.times.time1 = time, !.times.corr1 = corr,
                    !.times.known = TRUE]
  BY <1>1, <1>2, <1>3, <1>5 DEF MatcherT, TimesT
<1>8. PushFirst(m, time, corr, seq) = Matched(k)
  BY <1>7 DEF PushFirst
<1> QED BY <1>6, <1>8, MatchedTyped

LEMMA PushSecondTyped ==
  ASSUME NEW m \in MatcherT, NEW f \in FrameT PROVE PushSecond(m, f) \in MatcherT
<1>1. PICK t \in TimesT : t = m.times
  BY DEF MatcherT
<1>2. PICK seq \in Int, time \in Int, corr \in Int, clean \in BOOLEAN, epoch \in Int :
        /\ seq = f.seq /\ time = f.stamp.time /\ corr = f.corr /\ clean = f.clean
        /\ epoch = f.stamp.epoch
  BY DEF FrameT, TimeT
<1>3. PICK u : u = [t EXCEPT !.time2 = time, !.corr2 = corr, !.clean = clean, !.epoch = epoch]
  OBVIOUS
<1>4. u \in TimesT
  BY <1>3 DEF TimesT
<1>5. PICK k : k = [m EXCEPT !.sequ2 = seq, !.times = u]
  OBVIOUS
<1>6. k \in MatcherT
  BY <1>4, <1>5 DEF MatcherT
<1>7. k = [m EXCEPT !.sequ2 = f.seq, !.times.time2 = f.stamp.time, !.times.corr2 = f.corr,
                    !.times.clean = f.clean, !.times.epoch = f.stamp.epoch]
  BY <1>1, <1>2, <1>3, <1>5 DEF MatcherT, TimesT
<1>8. PushSecond(m, f) = Matched(k)
  BY <1>7 DEF PushSecond
<1> QED BY <1>6, <1>8, MatchedTyped

LEMMA DelayHandled ==
  ASSUME NEW d \in DelayT, NEW f \in FrameT
  PROVE  DelayHandleSync(d, f) \in DelayT /\ DelayHandleFollowUp(d, f) \in DelayT
<1>1. PICK m \in MatcherT : m = d.matcher
  BY DEF DelayT
<1>2. f.origin \in Int /\ f.seq \in Int /\ f.corr \in Int /\ f.twoStep \in BOOLEAN /\ 0 \in Int
  BY DEF FrameT
<1>3. DelayHandleSync(d, f) \in DelayT
  <2>1. PICK first \in MatcherT :
          first = IF f.twoStep THEN m ELSE PushFirst(m, f.origin, 0, f.seq)
    BY <1>2, PushFirstTyped
  <2>2. PICK second \in MatcherT : second = PushSecond(first, f)
    BY PushSecondTyped
  <2>3. PICK b \in BOOLEAN : b = (d.started \/ d.triggerStart)
    OBVIOUS
  <2>4. PICK off \in BOOLEAN : off = FALSE
    OBVIOUS
  <2>5. DelayHandleSync(d, f) =
          [d EXCEPT !.twoStep = f.twoStep, !.matcher = second, !.started = b,
                    !.triggerStart = off]
    BY <1>1, <2>1, <2>2, <2>3, <2>4, Zenon DEF DelayHandleSync
  <2> QED BY <1>2, <2>5 DEF DelayT
<1>4. DelayHandleFollowUp(d, f) \in DelayT
  <2>1. CASE d.twoStep
    <3>1. PICK first \in MatcherT : first = PushFirst(m, f.origin, f.corr, f.seq)
      BY <1>2, PushFirstTyped
    <3>2. DelayHandleFollowUp(d, f) = [d EXCEPT !.matcher = first]
      BY <1>1, <2>1, <3>1 DEF DelayHandleFollowUp
    <3> QED BY <3>2 DEF DelayT
  <2>2. CASE ~d.twoStep
    BY <2>2 DEF DelayHandleFollowUp
  <2> QED BY <2>1, <2>2
<1> QED BY <1>3, <1>4

\* What a frame may change of the state of the services.
HandledTyped ==
  /\ clock' \in [Nodes -> [offset : Int, epoch : Nat]]
  /\ sync' \in [{MasterPort, SlavePort} -> SyncT] /\ delay' \in DelayT
  /\ pdelay' \in [Ports -> PDelayT]
  /\ control' = [n \in Nodes |-> control'[n]]
  /\ \A n \in Nodes : control'[n] \in Seq(Messages(n))
  /\ estimate' \in Int /\ portEstimate' \in [Ports -> Int]
  /\ sample' \in JudgedT /\ measure' \in JudgedT /\ used' \in Int
  /\ trusted' \in [Ports -> BOOLEAN] /\ left' \in LeftT

LEMMA OffsetTyped ==
  ASSUME NEW a \in Int, NEW b \in Int, NEW c \in Int, NEW d \in Int, NEW e \in Int
  PROVE  OffsetFromMaster(a, b, c, d, e) \in Int
BY DEF OffsetFromMaster

LEMMA JudgedTyped == \A e \in Int, b \in BOOLEAN : Judged(e, b) \in JudgedT
BY DEF Judged, JudgedT

\* What SynchronizeClock may change.
Adjusted ==
  /\ clock' \in [Nodes -> [offset : Int, epoch : Nat]] /\ pdelay' \in [Ports -> PDelayT]
  /\ delay' \in DelayT /\ sample' \in JudgedT /\ left' \in LeftT

LEMMA SyncAdjusts ==
  ASSUME Typed, NEW f \in FrameT, NEW raw \in Int, NEW clean \in BOOLEAN,
         \/ LET H(d) == IF E2E THEN DelayHandleSync(d, f) ELSE d
            IN  Synchronize(raw, clean, H)
         \/ LET H(d) == IF E2E THEN DelayHandleFollowUp(d, f) ELSE d
            IN  Synchronize(raw, clean, H)
  PROVE  Adjusted
<1>1. PICK error \in Int : sample' = Judged(error, clean)
  <2>1. /\ clock[SlavePort[1]].offset \in Int /\ clock[MasterPort[1]].offset \in Int
        /\ PathDelay \in Int /\ MeanDelay[SlavePort] \in Int /\ estimate \in Int
        /\ portEstimate[SlavePort] \in Int
    BY PortTypes, NetworkAssumption DEF Typed, ClocksTyped, ResultsTyped, PathDelay
  <2> QED BY <2>1 DEF Synchronize
<1>2. sample' \in JudgedT
  BY <1>1, JudgedTyped
<1>3. delay \in DelayT /\ DelayTimeJump(delay) \in DelayT
  BY DelayBumps DEF Typed, ServicesTyped
<1>4. \/ /\ UNCHANGED <<clock, pdelay, left>>
         /\ delay' \in {delay, DelayHandleSync(delay, f), DelayHandleFollowUp(delay, f)}
      \/ /\ Spend("jumps") /\ Jump(SlavePort[1], -raw)
         /\ delay' \in {DelayTimeJump(delay), DelayHandleSync(DelayTimeJump(delay), f),
                         DelayHandleFollowUp(DelayTimeJump(delay), f)}
  BY Zenon DEF Synchronize
<1>5. delay' \in DelayT
  BY <1>3, <1>4, DelayHandled
<1>6. CASE UNCHANGED <<clock, pdelay, left>>
  BY <1>2, <1>5, <1>6 DEF Adjusted, Typed, ClocksTyped, ServicesTyped, ResultsTyped
<1>7. CASE Spend("jumps") /\ Jump(SlavePort[1], -raw)
  <2>1. -raw \in Int
    OBVIOUS
  <2>2. /\ clock' \in [Nodes -> [offset : Int, epoch : Nat]] /\ pdelay' \in [Ports -> PDelayT]
    BY <1>7, <2>1, PortTypes, JumpTyped
  <2>3. left' \in LeftT
    BY <1>7, SpendTyped DEF Typed, ResultsTyped
  <2> QED BY <1>2, <1>5, <2>2, <2>3 DEF Adjusted
<1> QED BY <1>4, <1>6, <1>7

LEMMA HandleSyncTyped ==
  ASSUME Typed, NEW f \in FrameT, HandleSync(f)
  PROVE  Adjusted /\ sync' \in [{MasterPort, SlavePort} -> SyncT] /\ used' \in Int
<1>1. PICK s \in SyncT : s = sync[SlavePort]
  BY DEF Typed, ServicesTyped
<1>2. /\ f.stamp \in TimeT /\ f.corr \in Int /\ f.seq \in Int /\ f.clean \in BOOLEAN
      /\ f.origin \in Int /\ f.stamp.time \in Int
  BY DEF FrameT, TimeT
<1>3. sync' \in [{MasterPort, SlavePort} -> SyncT]
  <2>1. SyncStored(s, f) \in SyncT
    BY <1>2 DEF SyncStored, SyncT
  <2>2. sync' = [sync EXCEPT ![SlavePort] = SyncStored(s, f)]
    BY <1>1 DEF HandleSync
  <2> QED BY <2>1, <2>2 DEF Typed, ServicesTyped
<1>4. CASE Associated(sync[SlavePort], f)
  <2>1. PICK raw \in Int :
          raw = OffsetFromMaster(f.stamp.time, f.origin,
                  IF E2E THEN estimate ELSE portEstimate[SlavePort], f.corr, 0)
    <3>1. PICK d \in Int, z \in Int :
            d = (IF E2E THEN estimate ELSE portEstimate[SlavePort]) /\ z = 0
      BY PortTypes DEF Typed, ResultsTyped
    <3> QED BY <1>2, <3>1, OffsetTyped
  <2>2. PICK clean \in BOOLEAN :
          clean = (f.clean /\ f.stamp.epoch = clock[SlavePort[1]].epoch)
    OBVIOUS
  <2>3. LET H(d) == IF E2E THEN DelayHandleSync(d, f) ELSE d IN Synchronize(raw, clean, H)
    BY <1>4, <2>1, <2>2, Zenon DEF HandleSync
  <2>4. Adjusted
    BY <2>3, SyncAdjusts
  <2>5. used' = f.seq
    BY <1>4 DEF HandleSync
  <2> QED BY <1>2, <1>3, <2>4, <2>5
<1>5. CASE ~Associated(sync[SlavePort], f)
  <2>1. /\ delay' = IF E2E THEN DelayHandleSync(delay, f) ELSE delay
        /\ UNCHANGED <<clock, pdelay, left, sample, used>>
    BY <1>5 DEF HandleSync
  <2>2. delay' \in DelayT
    BY <2>1, DelayHandled DEF Typed, ServicesTyped
  <2> QED BY <1>3, <2>1, <2>2 DEF Adjusted, Typed, ClocksTyped, ServicesTyped, ResultsTyped
<1> QED BY <1>4, <1>5

LEMMA HandleFollowUpTyped ==
  ASSUME Typed, NEW f \in FrameT, HandleFollowUp(f)
  PROVE  Adjusted /\ sync' = sync /\ used' \in Int
<1>1. PICK s \in SyncT : s = sync[SlavePort]
  BY DEF Typed, ServicesTyped
<1>2. /\ s.syncIngress.time \in Int /\ s.syncCorr \in Int /\ s.clean \in BOOLEAN
      /\ f.origin \in Int /\ f.corr \in Int /\ f.seq \in Int
  BY DEF FrameT, TimeT, SyncT
<1>3. sync' = sync
  BY DEF HandleFollowUp
<1>4. CASE Associated(sync[SlavePort], f)
  <2>1. PICK raw \in Int :
          raw = OffsetFromMaster(s.syncIngress.time, f.origin,
                  IF E2E THEN estimate ELSE portEstimate[SlavePort], s.syncCorr, f.corr)
    <3>1. PICK d \in Int : d = (IF E2E THEN estimate ELSE portEstimate[SlavePort])
      BY PortTypes DEF Typed, ResultsTyped
    <3> QED BY <1>2, <3>1, OffsetTyped
  <2>2. PICK clean \in BOOLEAN :
          clean = (s.clean /\ s.syncIngress.epoch = clock[SlavePort[1]].epoch)
    OBVIOUS
  <2>3. LET H(d) == IF E2E THEN DelayHandleFollowUp(d, f) ELSE d
        IN  Synchronize(raw, clean, H)
    BY <1>1, <1>4, <2>1, <2>2, Zenon DEF HandleFollowUp
  <2>4. Adjusted
    BY <2>3, SyncAdjusts
  <2>5. used' = f.seq
    BY <1>4 DEF HandleFollowUp
  <2> QED BY <1>2, <1>3, <2>4, <2>5
<1>5. CASE ~Associated(sync[SlavePort], f)
  <2>1. /\ delay' = IF E2E THEN DelayHandleFollowUp(delay, f) ELSE delay
        /\ UNCHANGED <<clock, pdelay, left, sample, used>>
    BY <1>5 DEF HandleFollowUp
  <2>2. delay' \in DelayT
    BY <2>1, DelayHandled DEF Typed, ServicesTyped
  <2> QED BY <1>3, <2>1, <2>2 DEF Adjusted, Typed, ClocksTyped, ServicesTyped, ResultsTyped
<1> QED BY <1>4, <1>5

LEMMA HalfTyped == \A n \in Int : n \div 2 \in Int
OBVIOUS

LEMMA SetPeerDelayTyped ==
  ASSUME Typed, NEW p \in Ports, NEW roundTrip \in Int, NEW clean \in BOOLEAN,
         SetPeerDelay(p, roundTrip, clean)
  PROVE  /\ portEstimate' \in [Ports -> Int] /\ measure' \in JudgedT
         /\ trusted' \in [Ports -> BOOLEAN]
         /\ control' = [n \in Nodes |-> control'[n]]
         /\ \A n \in Nodes : control'[n] \in Seq(Messages(n))
<1>1. PICK d \in Int : d = roundTrip \div 2
  BY HalfTyped
<1>2. PICK n \in Nodes : n = p[1]
  BY PortTypes
<1>3. PICK r : r = [what |-> "PATH_DELAY", port |-> p, delay |-> d]
  OBVIOUS
<1>4. /\ portEstimate' = [portEstimate EXCEPT ![p] = d]
      /\ control' = [control EXCEPT ![n] = Append(@, r)]
      /\ measure' = Judged(d - MeanDelay[p], clean)
      /\ trusted' = [trusted EXCEPT ![p] = @ /\ clean]
  BY <1>1, <1>2, <1>3 DEF SetPeerDelay
<1>5. portEstimate' \in [Ports -> Int]
  BY <1>4 DEF Typed, ResultsTyped
<1>6. measure' \in JudgedT
  <2>1. d - MeanDelay[p] \in Int
    BY NetworkAssumption
  <2> QED BY <2>1, <1>4, JudgedTyped
<1>7. trusted' \in [Ports -> BOOLEAN]
  <2>1. PICK b \in BOOLEAN : b = (trusted[p] /\ clean)
    OBVIOUS
  <2>2. trusted' = [trusted EXCEPT ![p] = b]
    BY <1>4, <2>1, Zenon
  <2> QED BY <2>2 DEF Typed, ResultsTyped
<1>8. r \in Messages(n)
  BY <1>2, <1>3, PortTypes DEF Messages, Updates
<1>9. control[n] \in Seq(Messages(n))
  BY DEF Typed, ControlTyped
<1>10. Append(control[n], r) \in Seq(Messages(n))
  BY <1>8, <1>9
<1>11. control' = [k \in Nodes |-> control'[k]] /\ \A k \in Nodes :
         control'[k] = IF k = n THEN Append(control[n], r) ELSE control[k]
  BY <1>4 DEF Typed, ControlTyped
<1>12. ASSUME NEW k \in Nodes PROVE control'[k] \in Seq(Messages(k))
  BY <1>10, <1>11 DEF Typed, ControlTyped
<1> QED BY <1>5, <1>6, <1>7, <1>11, <1>12

LEMMA PeerRoundTripTyped ==
  ASSUME NEW a \in Int, NEW b \in Int, NEW c \in Int, NEW d \in Int, NEW e \in Int, NEW g \in Int
  PROVE  PeerRoundTrip(a, b, c, d, e, g) \in Int
BY DEF PeerRoundTrip

LEMMA HandlePDelayTyped ==
  ASSUME Typed, NEW p \in Ports, NEW f \in FrameT,
         HandlePDelayResp(p, f) \/ HandlePDelayRespFU(p, f)
  PROVE  /\ pdelay' \in [Ports -> PDelayT]
         /\ portEstimate' \in [Ports -> Int] /\ measure' \in JudgedT
         /\ trusted' \in [Ports -> BOOLEAN]
         /\ control' = [n \in Nodes |-> control'[n]]
         /\ \A n \in Nodes : control'[n] \in Seq(Messages(n))
<1>1. PICK s \in PDelayT : s = pdelay[p]
  BY DEF Typed, ServicesTyped
<1>2. /\ f.reqEgress \in Int /\ f.stamp.time \in Int /\ f.receipt \in Int /\ f.corr \in Int
      /\ f.seq \in Int /\ f.clean \in BOOLEAN /\ f.origin \in Int /\ f.twoStep \in BOOLEAN
  BY DEF FrameT, TimeT
<1>3. pdelay \in [Ports -> PDelayT]
  BY DEF Typed, ServicesTyped
<1>4. CASE HandlePDelayResp(p, f) /\ f.twoStep
  <2>1. PDelayStored(s, f) \in PDelayT
    BY <1>2 DEF PDelayStored, PDelayT
  <2>2. /\ pdelay' = [pdelay EXCEPT ![p] = PDelayStored(s, f)]
        /\ UNCHANGED <<portEstimate, control, measure, trusted>>
    BY <1>1, <1>4 DEF HandlePDelayResp
  <2> QED BY <1>3, <2>1, <2>2 DEF Typed, ResultsTyped, ControlTyped
<1>5. CASE HandlePDelayResp(p, f) /\ ~f.twoStep
  <2>1. PICK t \in Int : t = PeerRoundTrip(f.reqEgress, f.stamp.time, f.receipt, 0, f.corr, 0)
    <3>1. PICK z \in Int : z = 0
      OBVIOUS
    <3> QED BY <1>2, <3>1, PeerRoundTripTyped
  <2>2. SetPeerDelay(p, t, f.clean) /\ pdelay' = pdelay
    BY <1>5, <2>1 DEF HandlePDelayResp
  <2> QED BY <1>2, <1>3, <2>2, SetPeerDelayTyped
<1>6. CASE HandlePDelayRespFU(p, f)
  <2>1. /\ s.reqEgress \in Int /\ s.respIngress \in Int /\ s.requestReceipt \in Int
        /\ s.respCorr \in Int /\ s.clean \in BOOLEAN
    BY DEF PDelayT
  <2>2. PICK t \in Int : t = PeerRoundTrip(s.reqEgress, s.respIngress, s.requestReceipt,
                                           f.origin, s.respCorr, f.corr)
    BY <1>2, <2>1, PeerRoundTripTyped
  <2>3. SetPeerDelay(p, t, s.clean) /\ pdelay' = pdelay
    BY <1>1, <1>6, <2>2 DEF HandlePDelayRespFU
  <2> QED BY <2>1, <1>3, <2>3, SetPeerDelayTyped
<1> QED BY <1>4, <1>5, <1>6

LEMMA HandleDelayRespTyped ==
  ASSUME Typed, NEW f \in FrameT, HandleDelayResp(f)
  PROVE  estimate' \in Int /\ measure' \in JudgedT
<1>1. CASE DelayExpected(delay, f, SlavePort, MasterPort)
  <2>1. PICK t \in TimesT : t = delay.syncTimes
    BY DEF Typed, ServicesTyped, DelayT
  <2>2. RoundTrip(t, f) \in Int
    BY DEF RoundTrip, TimesT, FrameT
  <2>3. PICK d \in Int : d = RoundTrip(t, f) \div 2
    BY <2>2, HalfTyped
  <2>4. PICK b \in BOOLEAN :
          b = (t.known /\ t.clean /\ t.epoch = delay.requEpoch /\ f.clean)
    OBVIOUS
  <2>5. estimate' = d /\ measure' = Judged(d - PathDelay, b)
    BY <1>1, <2>1, <2>3, <2>4, Zenon DEF HandleDelayResp
  <2>6. d - PathDelay \in Int
    BY PortTypes, NetworkAssumption DEF PathDelay
  <2> QED BY <2>5, <2>6, JudgedTyped
<1>2. CASE ~DelayExpected(delay, f, SlavePort, MasterPort)
  BY <1>2 DEF HandleDelayResp, Typed, ResultsTyped
<1> QED BY <1>1, <1>2

LEMMA HandleTyped ==
  ASSUME Typed, NEW p \in Ports, NEW f \in FrameT, HandlePtpFrame(p, f)
  PROVE  HandledTyped
<1> USE DEF HandledTyped
<1>1. CASE /\ HandleSync(f)
           /\ UNCHANGED <<control, estimate, portEstimate, measure, trusted>>
  BY <1>1, HandleSyncTyped DEF Adjusted, Typed, ControlTyped, ResultsTyped
<1>2. CASE /\ HandleFollowUp(f)
           /\ UNCHANGED <<control, estimate, portEstimate, measure, trusted>>
  BY <1>2, HandleFollowUpTyped DEF Adjusted, Typed, ControlTyped, ResultsTyped, ServicesTyped
<1>3. CASE /\ HandleDelayResp(f)
           /\ UNCHANGED <<clock, pdelay, left, sync, delay, control, portEstimate, sample,
                          used, trusted>>
  BY <1>3, HandleDelayRespTyped
     DEF Typed, ControlTyped, ResultsTyped, ServicesTyped, ClocksTyped
<1>4. CASE /\ HandlePDelayResp(p, f) \/ HandlePDelayRespFU(p, f)
           /\ UNCHANGED <<clock, left, sync, delay, estimate, sample, used>>
  BY <1>4, HandlePDelayTyped DEF Typed, ResultsTyped, ServicesTyped, ClocksTyped
<1>5. CASE UNCHANGED <<clock, pdelay, left, sync, delay, control, estimate, portEstimate,
                       measure, sample, used, trusted>>
  BY <1>5 DEF Typed, ControlTyped, ResultsTyped, ServicesTyped, ClocksTyped
<1> QED BY <1>1, <1>2, <1>3, <1>4, <1>5 DEF HandlePtpFrame

LEMMA DeliverTyped == ASSUME NEW p \in Ports PROVE Typed /\ Deliver(p) => Typed'
<1>1. SUFFICES ASSUME Typed, Deliver(p) PROVE Typed'
  OBVIOUS
<1>2. EgressTyping' /\ IngressTyping'
  BY <1>1, DeliverEgress
<1>3. ingress[p] # <<>> /\ UNCHANGED <<config, now, nic, wire, failed, lost>>
  BY <1>1 DEF Deliver
<1>4. PICK f \in FrameT : f = Head(ingress[p])
  BY <1>1, <1>3, FirstWaiting
<1>5. \/ HandlePtpFrame(p, f)
      \/ UNCHANGED <<clock, pdelay, left, sync, delay, control, estimate, portEstimate,
                     measure, sample, used, trusted>>
  BY <1>1, <1>4 DEF Deliver
<1>6. HandledTyped
  BY <1>1, <1>5, HandleTyped
     DEF HandledTyped, Typed, ControlTyped, ResultsTyped, ServicesTyped, ClocksTyped
<1>7. ClocksTyped' /\ ControlTyped' /\ ServicesTyped' /\ ResultsTyped'
  BY <1>1, <1>3, <1>6
     DEF HandledTyped, Typed, ControlTyped, ResultsTyped, ServicesTyped, ClocksTyped
<1>8. ConfigTyped' /\ NicTyped' /\ WireTyping'
  BY <1>1, <1>3 DEF Typed, ConfigTyped, NicTyped, WireTyping
<1> QED BY <1>2, <1>7, <1>8 DEF Typed

LEMMA TypedNext == Typed /\ [Next]_vars => Typed'
<1>1. SUFFICES ASSUME Typed, [Next]_vars PROVE Typed'
  OBVIOUS
<1>2. CASE UNCHANGED vars
  BY <1>1, <1>2 DEF vars, Typed, ConfigTyped, ClocksTyped, NicTyped, IngressTyping,
                    EgressTyping, WireTyping, ControlTyped, ServicesTyped, ResultsTyped
<1>3. CASE SendSync \/ SendDelayReq \/ Elapse
  BY <1>1, <1>3, SendSyncTyped, SendDelayReqTyped, ElapseTyped
<1>4. CASE \E p \in Requesters : SendPDelayReq(p)
  BY <1>1, <1>4, NetworkAssumption, SendPDelayReqTyped
<1>5. CASE \E p \in Ports : Transmit(p) \/ Receive(p) \/ Lose(p) \/ Deliver(p)
  BY <1>1, <1>5, TransmitTyped, ReceiveTyped, LoseTyped, DeliverTyped
<1>6. CASE \E n \in Nodes : Control(n) \/ JumpTransparent(n)
  BY <1>1, <1>6, ControlStepTyped, JumpTransparentTyped
<1> QED BY <1>1, <1>2, <1>3, <1>4, <1>5, <1>6 DEF Next

\* Frames, tables, services and results keep their types, whatever the chain of nodes,
\* and no frame is ever late on a wire.
THEOREM NetworkTypeOK == Spec => []TypeOK
<1>1. Init => Typed
  BY TypedInit
<1>2. Typed /\ [Next]_vars => Typed'
  BY TypedNext
<1>3. Typed => TypeOK
  BY TypedTypes
<1> QED BY <1>1, <1>2, <1>3, PTL DEF Spec

-----------------------------------------------------------------------------
(* The order of Syncs and Follow_Ups *)

\* The highest numbers that have passed a place: of the Syncs and Follow_Ups, and of
\* the Follow_Ups alone.
MarkT == {m \in [s : Int, f : Int] : m.f <= m.s}

Mark(f, m) ==
  IF f.type = "SYNC" THEN [m EXCEPT !.s = f.seq]
  ELSE IF f.type = "FOLLOW_UP" THEN [s |-> IF f.seq > m.s THEN f.seq ELSE m.s, f |-> f.seq]
  ELSE m

\* A frame may pass: no Sync comes after the Follow_Up of its number or a later one.
Fits(f, m) ==
  /\ f.type = "SYNC" => m.s < f.seq
  /\ f.type = "FOLLOW_UP" => m.f < f.seq

\* One mark is not ahead of another; two tells whether Follow_Ups come this way.
Behind(lo, hi, two) == lo.s <= hi.s /\ (two => lo.f <= hi.f)

\* A queue between two places with the marks lo and hi.
Between(Q, lo, hi, two) ==
  /\ lo \in MarkT /\ hi \in MarkT /\ Behind(lo, hi, two)
  /\ \A i \in DOMAIN Q :
       /\ Fits(Q[i], lo)
       /\ Q[i].type = "SYNC" => Q[i].seq <= hi.s
       /\ Q[i].type = "FOLLOW_UP" => two /\ Q[i].seq <= hi.f
  /\ \A i, j \in DOMAIN Q : i < j =>
       /\ Q[j].type = "SYNC" /\ Q[i].type \in {"SYNC", "FOLLOW_UP"} => Q[i].seq < Q[j].seq
       /\ Q[j].type = "FOLLOW_UP" /\ Q[i].type = "FOLLOW_UP" => Q[i].seq < Q[j].seq

LEMMA MarkTyped ==
  ASSUME NEW f \in FrameT, NEW m \in MarkT, Fits(f, m)
  PROVE  /\ Mark(f, m) \in MarkT
         /\ m.s <= Mark(f, m).s /\ m.f <= Mark(f, m).f
         /\ f.type = "SYNC" => Mark(f, m).s = f.seq /\ Mark(f, m).f = m.f
         /\ f.type = "FOLLOW_UP" => f.seq <= Mark(f, m).s /\ Mark(f, m).f = f.seq
         /\ f.type \notin {"SYNC", "FOLLOW_UP"} => Mark(f, m) = m
<1>1. /\ f.seq \in Int /\ m.s \in Int /\ m.f \in Int /\ m.f <= m.s /\ m \in [s : Int, f : Int]
  BY DEF FrameT, MarkT
<1>2. CASE f.type = "SYNC"
  BY <1>1, <1>2 DEF Mark, MarkT, Fits
<1>3. CASE f.type = "FOLLOW_UP"
  BY <1>1, <1>3 DEF Mark, MarkT, Fits
<1>4. CASE f.type \notin {"SYNC", "FOLLOW_UP"}
  BY <1>1, <1>4 DEF Mark
<1> QED BY <1>2, <1>3, <1>4

LEMMA MarksKeepOrder ==
  ASSUME NEW f \in FrameT, NEW lo \in MarkT, NEW hi \in MarkT, NEW two \in BOOLEAN,
         Behind(lo, hi, two), Fits(f, hi), f.type = "FOLLOW_UP" => two
  PROVE  Behind(lo, Mark(f, hi), two) /\ Fits(f, lo)
<1>1. /\ f.seq \in Int /\ lo.s \in Int /\ lo.f \in Int /\ hi.s \in Int /\ hi.f \in Int
      /\ Mark(f, hi).s \in Int /\ Mark(f, hi).f \in Int
      /\ hi.s <= Mark(f, hi).s /\ hi.f <= Mark(f, hi).f
  BY MarkTyped DEF FrameT, MarkT
<1> QED BY <1>1 DEF Behind, Fits

\* A frame comes into a queue.
LEMMA ComesIn ==
  ASSUME NEW Q \in Seq(FrameT), NEW lo, NEW hi, NEW two \in BOOLEAN, Between(Q, lo, hi, two),
         NEW f \in FrameT, Fits(f, hi), f.type = "FOLLOW_UP" => two
  PROVE  Between(Append(Q, f), lo, Mark(f, hi), two)
<1>1. lo \in MarkT /\ hi \in MarkT /\ Behind(lo, hi, two)
  BY DEF Between
<1>2. /\ Mark(f, hi) \in MarkT /\ hi.s <= Mark(f, hi).s /\ hi.f <= Mark(f, hi).f
      /\ f.type = "SYNC" => Mark(f, hi).s = f.seq
      /\ f.type = "FOLLOW_UP" => Mark(f, hi).f = f.seq
  BY <1>1, MarkTyped
<1>3. Behind(lo, Mark(f, hi), two) /\ Fits(f, lo)
  BY <1>1, MarksKeepOrder
<1>4. PICK m \in MarkT : m = Mark(f, hi)
  BY <1>2
<1>5. /\ m.s \in Int /\ m.f \in Int /\ hi.s \in Int /\ hi.f \in Int /\ hi.f <= hi.s
      /\ f.seq \in Int
  BY <1>1 DEF MarkT, FrameT
<1>6. PICK R : R = Append(Q, f)
  OBVIOUS
<1>7. /\ Len(Q) \in Nat /\ DOMAIN Q = 1 .. Len(Q) /\ DOMAIN R = 1 .. (Len(Q) + 1)
      /\ R[Len(Q) + 1] = f /\ \A i \in DOMAIN Q : R[i] = Q[i] /\ Q[i] \in FrameT
  BY <1>6
<1>8. \A i \in DOMAIN Q : Q[i].seq \in Int
  BY <1>7 DEF FrameT
<1>9. ASSUME NEW i \in DOMAIN R
      PROVE  /\ Fits(R[i], lo)
             /\ R[i].type = "SYNC" => R[i].seq <= m.s
             /\ R[i].type = "FOLLOW_UP" => two /\ R[i].seq <= m.f
  <2>1. CASE i = Len(Q) + 1
    BY <2>1, <1>2, <1>3, <1>4, <1>5, <1>7
  <2>2. CASE i # Len(Q) + 1
    <3>1. i \in DOMAIN Q /\ R[i] = Q[i]
      BY <2>2, <1>7
    <3>2. /\ Fits(Q[i], lo)
          /\ Q[i].type = "SYNC" => Q[i].seq <= hi.s
          /\ Q[i].type = "FOLLOW_UP" => two /\ Q[i].seq <= hi.f
      BY <3>1 DEF Between
    <3> QED BY <3>1, <3>2, <1>2, <1>4, <1>5, <1>8
  <2> QED BY <2>1, <2>2
<1>10. ASSUME NEW i \in DOMAIN R, NEW j \in DOMAIN R, i < j
       PROVE  /\ R[j].type = "SYNC" /\ R[i].type \in {"SYNC", "FOLLOW_UP"} =>
                   R[i].seq < R[j].seq
              /\ R[j].type = "FOLLOW_UP" /\ R[i].type = "FOLLOW_UP" => R[i].seq < R[j].seq
  <2>1. i \in DOMAIN Q /\ R[i] = Q[i] /\ Q[i].seq \in Int
    BY <1>7, <1>8, <1>10
  <2>2. CASE j = Len(Q) + 1
    <3>1. R[j] = f
      BY <2>2, <1>7
    <3>2. /\ Q[i].type = "SYNC" => Q[i].seq <= hi.s
          /\ Q[i].type = "FOLLOW_UP" => Q[i].seq <= hi.f
      BY <2>1 DEF Between
    <3> QED BY <2>1, <3>1, <3>2, <1>5 DEF Fits
  <2>3. CASE j # Len(Q) + 1
    <3>1. j \in DOMAIN Q /\ R[j] = Q[j]
      BY <2>3, <1>7
    <3> QED BY <2>1, <3>1, <1>10 DEF Between
  <2> QED BY <2>2, <2>3
<1> QED BY <1>1, <1>3, <1>4, <1>6, <1>9, <1>10 DEF Between

\* The first frame leaves a queue, and the mark it passes moves.
LEMMA GoesOut ==
  ASSUME NEW Q \in Seq(FrameT), Q # <<>>, NEW lo, NEW hi, NEW two \in BOOLEAN,
         Between(Q, lo, hi, two), NEW f, f = Head(Q)
  PROVE  /\ Fits(f, lo) /\ Between(Tail(Q), Mark(f, lo), hi, two)
         /\ f.type = "FOLLOW_UP" => two
<1>1. /\ f \in FrameT /\ Tail(Q) \in Seq(FrameT) /\ 1 \in DOMAIN Q /\ f = Q[1]
      /\ \A i \in DOMAIN Tail(Q) : i + 1 \in DOMAIN Q /\ Tail(Q)[i] = Q[i + 1] /\ 1 < i + 1
      /\ \A i \in DOMAIN Q : Q[i] \in FrameT
  OBVIOUS
<1>2. lo \in MarkT /\ hi \in MarkT /\ Behind(lo, hi, two) /\ Fits(f, lo)
  BY <1>1 DEF Between
<1>3. PICK m \in MarkT : m = Mark(f, lo)
  BY <1>1, <1>2, MarkTyped
<1>4. /\ lo.s <= m.s /\ lo.f <= m.f
      /\ f.type = "SYNC" => m.s = f.seq /\ m.f = lo.f
      /\ f.type = "FOLLOW_UP" => m.s = (IF f.seq > lo.s THEN f.seq ELSE lo.s) /\ m.f = f.seq
      /\ f.type \notin {"SYNC", "FOLLOW_UP"} => m = lo
  BY <1>1, <1>2, <1>3, MarkTyped DEF Mark
<1>5. /\ m.s \in Int /\ m.f \in Int /\ hi.s \in Int /\ hi.f \in Int /\ lo.s \in Int
      /\ lo.f \in Int /\ f.seq \in Int /\ hi.f <= hi.s
  BY <1>1, <1>2 DEF MarkT, FrameT
<1>6. /\ f.type = "SYNC" => f.seq <= hi.s
      /\ f.type = "FOLLOW_UP" => two /\ f.seq <= hi.f
  BY <1>1 DEF Between
<1>7. Behind(m, hi, two)
  BY <1>2, <1>4, <1>5, <1>6 DEF Behind
<1>8. PICK R : R = Tail(Q)
  OBVIOUS
<1>9. ASSUME NEW i \in DOMAIN R
      PROVE  /\ Fits(R[i], m)
             /\ R[i].type = "SYNC" => R[i].seq <= hi.s
             /\ R[i].type = "FOLLOW_UP" => two /\ R[i].seq <= hi.f
  <2>1. i + 1 \in DOMAIN Q /\ R[i] = Q[i + 1] /\ 1 < i + 1 /\ Q[i + 1] \in FrameT
    BY <1>1, <1>8
  <2>2. PICK g \in FrameT : g = R[i]
    BY <2>1
  <2>3. /\ Fits(g, lo)
        /\ g.type = "SYNC" => g.seq <= hi.s
        /\ g.type = "FOLLOW_UP" => two /\ g.seq <= hi.f
    BY <2>1, <2>2 DEF Between
  <2>4. /\ g.type = "SYNC" /\ f.type \in {"SYNC", "FOLLOW_UP"} => f.seq < g.seq
        /\ g.type = "FOLLOW_UP" /\ f.type = "FOLLOW_UP" => f.seq < g.seq
    BY <2>1, <2>2, <1>1 DEF Between
  <2>5. g.seq \in Int
    BY DEF FrameT
  <2>6. Fits(g, m)
    BY <2>3, <2>4, <2>5, <1>4, <1>5 DEF Fits
  <2> QED BY <2>2, <2>3, <2>6
<1>10. ASSUME NEW i \in DOMAIN R, NEW j \in DOMAIN R, i < j
       PROVE  /\ R[j].type = "SYNC" /\ R[i].type \in {"SYNC", "FOLLOW_UP"} =>
                   R[i].seq < R[j].seq
              /\ R[j].type = "FOLLOW_UP" /\ R[i].type = "FOLLOW_UP" => R[i].seq < R[j].seq
  <2>1. /\ i + 1 \in DOMAIN Q /\ R[i] = Q[i + 1] /\ j + 1 \in DOMAIN Q /\ R[j] = Q[j + 1]
        /\ i + 1 < j + 1
    BY <1>1, <1>8, <1>10
  <2> QED BY <2>1 DEF Between
<1> QED BY <1>2, <1>3, <1>6, <1>7, <1>8, <1>9, <1>10 DEF Between

\* The first frame of a queue is lost.
LEMMA GetsLost ==
  ASSUME NEW Q \in Seq(FrameT), Q # <<>>, NEW lo, NEW hi, NEW two, Between(Q, lo, hi, two)
  PROVE  Between(Tail(Q), lo, hi, two)
<1>1. /\ \A i \in DOMAIN Tail(Q) : i + 1 \in DOMAIN Q /\ Tail(Q)[i] = Q[i + 1]
      /\ \A i, j \in DOMAIN Tail(Q) : i < j => i + 1 < j + 1
  OBVIOUS
<1> QED BY <1>1 DEF Between

\* Frames that are neither Sync nor Follow_Up come and go without a trace.
LEMMA NoMark ==
  \A f, m : f.type \notin {"SYNC", "FOLLOW_UP"} => Mark(f, m) = m /\ Fits(f, m)
BY DEF Mark, Fits

-----------------------------------------------------------------------------
(* The way of a Sync *)

Inner == Down \ {MasterPort}

\* Where a Sync that p sends came in, the port that sent it there, and where a Sync
\* that comes in by q goes on.
Up(p) == CHOOSE q \in Ports \ Down : q[1] = p[1]

Before(p) == Peer[Up(p)]

Onward(q) == IF q = SlavePort THEN SlavePort ELSE CHOOSE p \in Down : p[1] = q[1]

LEMMA OneUpOneDown ==
  ASSUME NEW n \in Nodes \ {MasterPort[1], SlavePort[1]}
  PROVE  \E up \in Ports \ Down : \E down \in Inner :
           /\ PortsOf(n) = {up, down} /\ up[1] = n /\ down[1] = n /\ up # SlavePort
           /\ \A q \in Ports \ Down : q[1] = n => q = up
           /\ \A q \in Down : q[1] = n => q = down
<1>1. PICK up \in Ports \ Down, down \in Down : PortsOf(n) = {up, down}
  BY NetworkAssumption
<1>2. up \in PortsOf(n) /\ down \in PortsOf(n)
  BY <1>1
<1>3. up[1] = n /\ down[1] = n
  BY <1>2 DEF PortsOf
<1>4. up # SlavePort /\ down \in Inner
  BY <1>3 DEF Inner
<1>5. \A q \in Ports : q[1] = n => q = up \/ q = down
  BY <1>1 DEF PortsOf
<1>6. \A q \in Ports \ Down : q[1] = n => q = up
  BY <1>5
<1>7. \A q \in Down : q[1] = n => q = down
  BY <1>5, NetworkAssumption
<1> QED BY <1>1, <1>3, <1>4, <1>6, <1>7

LEMMA WayUp ==
  ASSUME NEW p \in Inner
  PROVE  /\ p \in Ports /\ p[1] \in Nodes /\ ClockType(p[1]) = "TRANSPARENT"
         /\ Up(p) \in Ports \ Down /\ Up(p)[1] = p[1] /\ Up(p) # SlavePort /\ Up(p) # p
         /\ PortsOf(p[1]) = {Up(p), p} /\ Onward(Up(p)) = p
         /\ Before(p) \in Down /\ Peer[Before(p)] = Up(p) /\ Before(p)[1] # p[1]
         /\ \A q \in Down : q[1] = p[1] => q = p
<1>1. /\ p \in Ports /\ p \in Down /\ p # MasterPort /\ p \in PortsOf(p[1]) /\ p[1] \in Nodes
      /\ p # SlavePort
  BY NetworkAssumption DEF Inner, PortsOf, Nodes
<1>2. p[1] # MasterPort[1] /\ p[1] # SlavePort[1]
  BY <1>1, NetworkAssumption
<1>3. PICK up \in Ports \ Down, down \in Inner :
        /\ PortsOf(p[1]) = {up, down} /\ up[1] = p[1] /\ down[1] = p[1] /\ up # SlavePort
        /\ \A q \in Ports \ Down : q[1] = p[1] => q = up
        /\ \A q \in Down : q[1] = p[1] => q = down
  BY <1>1, <1>2, OneUpOneDown
<1>4. p = down
  BY <1>1, <1>3
<1>5. Up(p) = up
  BY <1>3 DEF Up
<1>6. Onward(up) = p
  <2>1. (CHOOSE q \in Down : q[1] = up[1]) = p
    BY <1>1, <1>3, <1>4
  <2> QED BY <2>1, <1>3 DEF Onward
<1>7. Peer[up] \in Down /\ Peer[Peer[up]] = up /\ Peer[up][1] # p[1]
  BY <1>3, NetworkAssumption
<1>8. ClockType(p[1]) = "TRANSPARENT"
  BY <1>2 DEF ClockType
<1> QED BY <1>1, <1>3, <1>4, <1>5, <1>6, <1>7, <1>8 DEF Before

LEMMA WayOn ==
  ASSUME NEW q \in Ports \ Down, q # SlavePort
  PROVE  /\ Onward(q) \in Inner /\ Onward(q)[1] = q[1] /\ Up(Onward(q)) = q
         /\ Before(Onward(q)) = Peer[q]
<1>1. q \in PortsOf(q[1]) /\ q[1] \in Nodes /\ q # MasterPort
  BY NetworkAssumption DEF PortsOf, Nodes
<1>2. q[1] # MasterPort[1] /\ q[1] # SlavePort[1]
  BY <1>1, NetworkAssumption
<1>3. PICK up \in Ports \ Down, down \in Inner :
        /\ PortsOf(q[1]) = {up, down} /\ up[1] = q[1] /\ down[1] = q[1] /\ up # SlavePort
        /\ \A k \in Ports \ Down : k[1] = q[1] => k = up
        /\ \A k \in Down : k[1] = q[1] => k = down
  BY <1>1, <1>2, OneUpOneDown
<1>4. q = up
  BY <1>3
<1>5. Onward(q) = down
  <2>1. (CHOOSE p \in Down : p[1] = q[1]) = down
    BY <1>3 DEF Inner
  <2> QED BY <2>1 DEF Onward
<1>6. Up(down) = up
  BY <1>3 DEF Up
<1> QED BY <1>3, <1>4, <1>5, <1>6 DEF Before

LEMMA WayDown ==
  /\ MasterPort \in Down /\ SlavePort \in Ports \ Down /\ Down \subseteq Ports
  /\ Inner \subseteq Down /\ MasterPort \notin Inner
  /\ ClockType(SlavePort[1]) = "ORDINARY" /\ ClockType(MasterPort[1]) = "ORDINARY"
  /\ Onward(SlavePort) = SlavePort
  /\ \A p \in Down : /\ Peer[p] \in Ports \ Down /\ Peer[Peer[p]] = p
                     /\ p[1] \in Nodes /\ Peer[p][1] \in Nodes /\ Peer[p][1] # p[1]
                     /\ p # MasterPort => p[1] # MasterPort[1] /\ p \in Inner
                     /\ p[1] # SlavePort[1]
  /\ \A q \in Ports \ Down : Peer[q] \in Down /\ Peer[Peer[q]] = q
                             /\ Onward(q) \in Down \cup {SlavePort}
<1>1. /\ MasterPort \in Down /\ SlavePort \in Ports \ Down /\ Down \subseteq Ports
      /\ Inner \subseteq Down /\ MasterPort \notin Inner
      /\ ClockType(SlavePort[1]) = "ORDINARY" /\ ClockType(MasterPort[1]) = "ORDINARY"
      /\ Onward(SlavePort) = SlavePort
  BY NetworkAssumption DEF Inner, ClockType, Onward
<1>2. ASSUME NEW p \in Down
      PROVE  /\ Peer[p] \in Ports \ Down /\ Peer[Peer[p]] = p
             /\ p[1] \in Nodes /\ Peer[p][1] \in Nodes /\ Peer[p][1] # p[1]
             /\ p # MasterPort => p[1] # MasterPort[1] /\ p \in Inner
             /\ p[1] # SlavePort[1]
  <2>1. p \in Ports /\ p \in PortsOf(p[1]) /\ p[1] \in Nodes
    BY <1>1 DEF PortsOf, Nodes
  <2>2. Peer[p] \in Ports \ Down /\ Peer[Peer[p]] = p /\ Peer[p][1] # p[1]
    BY <2>1, NetworkAssumption
  <2>3. p # MasterPort => p[1] # MasterPort[1] /\ p \in Inner
    BY <2>1, NetworkAssumption DEF Inner
  <2>4. p[1] # SlavePort[1]
    BY <2>1, NetworkAssumption
  <2> QED BY <2>1, <2>2, <2>3, <2>4 DEF Nodes
<1>3. ASSUME NEW q \in Ports \ Down
      PROVE  Peer[q] \in Down /\ Peer[Peer[q]] = q /\ Onward(q) \in Down \cup {SlavePort}
  BY <1>1, WayOn, NetworkAssumption
<1> QED BY <1>1, <1>2, <1>3

\* No two ports come after the same.
LEMMA OneAfter ==
  /\ \A p, q \in Inner : Before(p) = Before(q) => p = q
  /\ \A q, k \in Ports \ Down : Peer[q] = Peer[k] => q = k
  /\ \A q, k \in Ports \ Down : Onward(q) = Onward(k) => q = k
<1>1. ASSUME NEW p \in Inner, NEW q \in Inner, Before(p) = Before(q) PROVE p = q
  <2>1. Up(p) = Up(q)
    BY <1>1, WayUp
  <2> QED BY <2>1, WayUp
<1>2. \A q, k \in Ports \ Down : Peer[q] = Peer[k] => q = k
  BY WayDown
<1>3. ASSUME NEW q \in Ports \ Down, NEW k \in Ports \ Down, Onward(q) = Onward(k) PROVE q = k
  <2>1. CASE q # SlavePort /\ k # SlavePort
    BY <2>1, <1>3, WayOn
  <2>2. CASE q = SlavePort
    BY <2>2, <1>3, WayOn, WayDown DEF Onward
  <2>3. CASE k = SlavePort
    BY <2>3, <1>3, WayOn, WayDown DEF Onward
  <2> QED BY <2>1, <2>2, <2>3
<1> QED BY <1>1, <1>2, <1>3

-----------------------------------------------------------------------------
(* What the Syncs that have passed a port have brought *)

\* The books: whose Syncs are two-step when p has sent them, which Syncs p has sent,
\* when the master has sent them, and what their Follow_Ups will have to add.
LedgerT ==
  [mechanism : {"E2E", "P2P"}, twoStep : [Nodes -> BOOLEAN], turned : SUBSET Down,
   passed : [Down -> SUBSET Nat], sent : [Nat -> Int], due : [Down -> [Nat -> Int]]]

Turning(L) ==
  \A p \in Down :
    p \in L.turned <=> L.twoStep[p[1]] \/ (p # MasterPort /\ Before(p) \in L.turned)

\* What p sends has passed all the ports before, and none is added where nothing is due.
Passing(L) ==
  /\ \A p \in Down : L.passed[p] \subseteq L.passed[MasterPort]
  /\ \A p \in Inner : L.passed[p] \subseteq L.passed[Before(p)]
  /\ \A p \in Down : \A n \in L.passed[p] :
       /\ p \notin L.turned \/ p = MasterPort => L.due[p][n] = 0
       /\ p # MasterPort /\ ~L.twoStep[p[1]] => L.due[p][n] = L.due[Before(p)][n]

\* The master's time at which a Sync left it.
TrueStart(L, f) == f.origin = L.sent[f.seq] + Start[MasterPort[1]]

\* A frame that p has sent.
FrameOK(L, p, f) ==
  /\ f.type = "SYNC" => /\ f.seq \in L.passed[p] /\ f.twoStep = (p \in L.turned)
                        /\ p \notin L.turned => TrueStart(L, f)
  /\ f.type = "FOLLOW_UP" /\ f.seq \in L.passed[p] =>
       TrueStart(L, f) /\ f.corr = L.due[p][f.seq]

\* The correction of a Sync, and what is due to it, are its delay up to the time t at
\* which p sends it, but for the link delays that the slave adds.
Base(L, p) == IF L.mechanism = "E2E" THEN Far[p[1]] ELSE 0

Timed(L, p, seq, corr, t) == t - L.sent[seq] - corr - L.due[p][seq] = Base(L, p)

InFlight(L, p, t) ==
  {w \in WireT : /\ FrameOK(L, p, w.frame)
                 /\ w.frame.type = "SYNC" /\ w.frame.clean =>
                      Timed(L, p, w.frame.seq, w.frame.corr, t + w.left - LinkDelay[p])}

\* A time stamp that q, with the clock c, has taken of a Sync.
Added(L, q) == IF ClockType(q[1]) = "ORDINARY" \/ ~L.twoStep[q[1]] THEN Asymmetry[q] ELSE 0

Stamped(L, q, seq, corr, stamp, c) ==
  /\ stamp.epoch <= c.epoch
  /\ stamp.epoch = c.epoch =>
       Timed(L, Peer[q], seq, corr,
             stamp.time - c.offset - LinkDelay[Peer[q]] + Added(L, q))

\* Frames that came in by q and have not left the node yet.
Held(L, q, c) ==
  {f \in FrameT : /\ FrameOK(L, Peer[q], f)
                  /\ f.type = "SYNC" =>
                       /\ f.epoch = f.stamp.epoch /\ f.stamp.epoch <= c.epoch
                       /\ f.clean => Stamped(L, q, f.seq, f.corr, f.stamp, c)}

\* Frames that the master is about to send.
Fresh(L) ==
  {f \in FrameT : /\ f.type \in {"SYNC", "FOLLOW_UP"} => f.corr = 0
                  /\ f.type = "SYNC" => f.twoStep = (MasterPort \in L.turned)}

ToLeave(L, p, c) == IF p = MasterPort THEN Fresh(L) ELSE Held(L, Up(p), c)

\* What a two-step port remembers of its Syncs whose Follow_Ups it has not sent.
Remembered(L, p) ==
  {e \in EntryT : /\ e.source = MasterPort /\ e.sequenceId \in L.passed[p]
                  /\ e.time = IF p = MasterPort
                              THEN L.sent[e.sequenceId] + Start[MasterPort[1]]
                              ELSE L.due[p][e.sequenceId] - L.due[Before(p)][e.sequenceId]}

Remembers(L, p, Q, done) ==
  /\ Q \in Seq(Remembered(L, p)) /\ Rising(Q, MasterPort)
  /\ L.twoStep[p[1]] =>
       \A n \in L.passed[p] : n > done => \E i \in DOMAIN Q : Q[i].sequenceId = n

\* The Follow_Ups that the NIC control has requested for p.
Asked(L, p, done) ==
  {f \in FrameT : /\ p \in L.turned /\ Before(p) \notin L.turned
                  /\ f.seq \in L.passed[p] /\ done < f.seq /\ TrueStart(L, f)}

Asks(L, p, C, done) ==
  /\ \A i \in DOMAIN C : C[i].what = "TRIG_SFU" => C[i].frame \in Asked(L, p, done)
  /\ \A i, j \in DOMAIN C :
       i < j /\ C[i].what = "TRIG_SFU" /\ C[j].what = "TRIG_SFU" =>
         C[i].frame.seq < C[j].frame.seq

\* What the slave has stored of a Sync.
Stored(L, s, c) ==
  s.clean => /\ s.syncSequID \in L.passed[Peer[SlavePort]]
             /\ Stamped(L, SlavePort, s.syncSequID, s.syncCorr, s.syncIngress, c)

-----------------------------------------------------------------------------
(* The books of the network *)

MarksOf(S) == [S -> MarkT]

Frames(W) == [i \in DOMAIN W |-> W[i].frame]

Ruled(L) == L.mechanism = config.mechanism /\ L.twoStep = config.twoStep

OrderedOut(L, ent, trans) ==
  /\ \A p \in Down : Between(egress[p], trans[p], ent[p], p \in L.turned)
  /\ ent[MasterPort].s < sync[MasterPort].sequId
  /\ \A p \in Inner : Before(p) \notin L.turned => ent[p].f <= trans[p].s

OrderedOn(L, trans, rec) ==
  \A p \in Down : Between(Frames(wire[p]), rec[p], trans[p], p \in L.turned)

OrderedIn(L, ent, rec) ==
  \A q \in Ports \ Down : Between(ingress[q], ent[Onward(q)], rec[Peer[q]], Peer[q] \in L.turned)

Counted(L, trans) == \A p \in Down : \A n \in L.passed[p] : n <= trans[p].s

TrueOut(L) == \A p \in Down : egress[p] \in Seq(ToLeave(L, p, clock[p[1]]))

TrueOn(L) == \A p \in Down : wire[p] \in Seq(InFlight(L, p, now))

TrueIn(L) == \A q \in Ports \ Down : ingress[q] \in Seq(Held(L, q, clock[q[1]]))

TrueMemory(L, trans) == \A p \in Down : Remembers(L, p, nic[p[1]].syncFu, trans[p].f)

TrueRequests(L, ent) == \A p \in Inner : Asks(L, p, control[p[1]], ent[p].f)

TrueStore(L) == Stored(L, sync[SlavePort], clock[SlavePort[1]])

Books(L, ent, trans, rec) ==
  /\ L \in LedgerT /\ ent \in MarksOf(Down \cup {SlavePort})
  /\ trans \in MarksOf(Down) /\ rec \in MarksOf(Down)
  /\ Turning(L) /\ Passing(L) /\ Ruled(L)
  /\ OrderedOut(L, ent, trans) /\ OrderedOn(L, trans, rec) /\ OrderedIn(L, ent, rec)
  /\ Counted(L, trans)
  /\ TrueOut(L) /\ TrueOn(L) /\ TrueIn(L)
  /\ TrueMemory(L, trans) /\ TrueRequests(L, ent) /\ TrueStore(L)

Accounted ==
  /\ Typed /\ OffsetIsTrue /\ clock[MasterPort[1]].offset = Start[MasterPort[1]]
  /\ \E L, ent, trans, rec : Books(L, ent, trans, rec)

\* A sequence is determined by its elements.
LEMMA ElementsOf ==
  ASSUME NEW S, NEW T, NEW Q \in Seq(S), \A i \in DOMAIN Q : Q[i] \in T
  PROVE  Q \in Seq(T)
OBVIOUS

LEMMA FramesOf ==
  ASSUME NEW W \in Seq(WireT)
  PROVE  /\ Frames(W) \in Seq(FrameT)
         /\ DOMAIN Frames(W) = DOMAIN W
         /\ \A e \in WireT : Frames(Append(W, e)) = Append(Frames(W), e.frame)
         /\ W # <<>> => /\ Frames(W) # <<>> /\ Frames(Tail(W)) = Tail(Frames(W))
                        /\ Head(Frames(W)) = Head(W).frame
<1>1. \A i \in DOMAIN W : W[i] \in WireT /\ W[i].frame \in FrameT
  <2>1. \A i \in DOMAIN W : W[i] \in WireT
    OBVIOUS
  <2>2. \A e \in WireT : e.frame \in FrameT
    BY DEF WireT
  <2> QED BY <2>1, <2>2
<1>2. DOMAIN W = 1 .. Len(W) /\ Len(W) \in Nat
  OBVIOUS
<1>3. Frames(W) = [i \in 1 .. Len(W) |-> W[i].frame]
  BY <1>2 DEF Frames
<1>4. Frames(W) \in Seq(FrameT) /\ Len(Frames(W)) = Len(W) /\ DOMAIN Frames(W) = DOMAIN W
  BY <1>1, <1>2, <1>3
<1>5. ASSUME NEW e \in WireT PROVE Frames(Append(W, e)) = Append(Frames(W), e.frame)
  <2>1. PICK V \in Seq(WireT) : V = Append(W, e)
    <3>1. Append(W, e) \in Seq(WireT)
      OBVIOUS
    <3> QED BY <3>1
  <2>2. Frames(V) = [i \in 1 .. (Len(W) + 1) |-> V[i].frame]
    BY <2>1 DEF Frames
  <2>3. PICK R \in Seq(FrameT) : R = Append(Frames(W), e.frame)
    <3>1. e.frame \in FrameT
      BY DEF WireT
    <3>2. Append(Frames(W), e.frame) \in Seq(FrameT)
      BY <3>1, <1>4
    <3> QED BY <3>2
  <2>4. R = [i \in 1 .. (Len(W) + 1) |-> R[i]]
    BY <2>3, <1>4
  <2>5. \A i \in 1 .. (Len(W) + 1) : R[i] = V[i].frame
    <3>1. TAKE i \in 1 .. (Len(W) + 1)
    <3>2. CASE i = Len(W) + 1
      BY <3>2, <1>2, <1>4, <2>1, <2>3
    <3>3. CASE i # Len(W) + 1
      <4>1. i \in 1 .. Len(W)
        BY <3>3, <1>2
      <4>2. V[i] = W[i] /\ R[i] = Frames(W)[i]
        BY <4>1, <1>4, <2>1, <2>3
      <4> QED BY <4>1, <4>2, <1>3
    <3> QED BY <3>2, <3>3
  <2> QED BY <2>1, <2>2, <2>3, <2>4, <2>5
<1>6. ASSUME W # <<>>
      PROVE  /\ Frames(W) # <<>> /\ Frames(Tail(W)) = Tail(Frames(W))
             /\ Head(Frames(W)) = Head(W).frame
  <2>1. 1 \in 1 .. Len(W) /\ Head(W) = W[1] /\ Len(W) - 1 \in Nat
    BY <1>6
  <2>2. Frames(W) # <<>> /\ Head(Frames(W)) = Frames(W)[1]
    BY <2>1, <1>2, <1>4
  <2>3. PICK V \in Seq(WireT) : V = Tail(W)
    <3>1. Tail(W) \in Seq(WireT)
      BY <1>6
    <3> QED BY <3>1
  <2>4. DOMAIN V = 1 .. (Len(W) - 1) /\ \A i \in 1 .. (Len(W) - 1) : V[i] = W[i + 1]
    BY <2>3, <1>6
  <2>5. Frames(V) = [i \in 1 .. (Len(W) - 1) |-> V[i].frame]
    BY <2>4 DEF Frames
  <2>6. PICK R \in Seq(FrameT) : R = Tail(Frames(W))
    <3>1. Tail(Frames(W)) \in Seq(FrameT)
      BY <2>2, <1>4
    <3> QED BY <3>1
  <2>7. /\ R = [i \in 1 .. (Len(W) - 1) |-> R[i]]
        /\ \A i \in 1 .. (Len(W) - 1) : R[i] = Frames(W)[i + 1]
    <3>1. PICK G \in Seq(FrameT) : G = Frames(W) /\ G # <<>> /\ Len(G) = Len(W)
      BY <2>2, <1>4
    <3>2. R = Tail(G) /\ Len(G) \in Nat
      BY <2>6, <3>1
    <3>3. DOMAIN R = 1 .. (Len(G) - 1) /\ \A i \in 1 .. (Len(G) - 1) : R[i] = G[i + 1]
      BY <3>1, <3>2
    <3>4. Len(R) = Len(W) - 1
      BY <2>6, <3>1, <3>2, <1>2
    <3>5. R \in Seq(FrameT)
      BY <2>6
    <3>6. R = [i \in 1 .. Len(R) |-> R[i]]
      BY <3>5
    <3> QED BY <3>1, <3>3, <3>4, <3>6
  <2>8. \A i \in 1 .. (Len(W) - 1) : R[i] = V[i].frame
    <3>1. TAKE i \in 1 .. (Len(W) - 1)
    <3>2. i + 1 \in 1 .. Len(W)
      BY <1>2
    <3>3. Frames(W)[i + 1] = W[i + 1].frame
      BY <3>2, <1>3
    <3> QED BY <3>3, <2>4, <2>7
  <2>9. Frames(V) = R
    BY <2>5, <2>7, <2>8
  <2> QED BY <2>1, <2>2, <2>3, <2>6, <2>9, <1>3
<1> QED BY <1>4, <1>5, <1>6

LEMMA LedgerTyped ==
  ASSUME NEW L \in LedgerT
  PROVE  /\ L.turned \subseteq Down /\ L.twoStep \in [Nodes -> BOOLEAN]
         /\ L.passed \in [Down -> SUBSET Nat] /\ L.sent \in [Nat -> Int]
         /\ L.due \in [Down -> [Nat -> Int]]
         /\ \A p \in Down : L.passed[p] \subseteq Nat /\ \A n \in Nat : L.due[p][n] \in Int
         /\ \A n \in Nat : L.sent[n] \in Int
         /\ \A p \in Ports : (p \in L.turned) \in BOOLEAN
<1>1. /\ L.turned \subseteq Down /\ L.twoStep \in [Nodes -> BOOLEAN]
      /\ L.passed \in [Down -> SUBSET Nat] /\ L.sent \in [Nat -> Int]
      /\ L.due \in [Down -> [Nat -> Int]]
  BY DEF LedgerT
<1> QED BY <1>1

\* Whose Syncs are two-step: the least set that a two-step clock and what comes behind
\* it belong to.
LEMMA TurnedExists ==
  ASSUME NEW two
  PROVE  \E T \in SUBSET Down : \A p \in Down :
           p \in T <=> two[p[1]] \/ (p # MasterPort /\ Before(p) \in T)
<1> DEFINE Turns(p, S) == two[p[1]] \/ (p # MasterPort /\ Before(p) \in S)
           Closed(S) == \A p \in Down : Turns(p, S) => p \in S
           T == {p \in Down : \A S \in SUBSET Down : Closed(S) => p \in S}
<1>1. ASSUME NEW p \in Down, Turns(p, T) PROVE p \in T
  <2>1. SUFFICES ASSUME NEW S \in SUBSET Down, Closed(S) PROVE p \in S
    OBVIOUS
  <2>2. T \subseteq S
    BY <2>1
  <2>3. Turns(p, S)
    BY <1>1, <2>2
  <2> QED BY <2>1, <2>3
<1>2. ASSUME NEW p \in T, ~Turns(p, T) PROVE FALSE
  <2> DEFINE S == T \ {p}
  <2>1. Closed(S)
    <3>1. SUFFICES ASSUME NEW q \in Down, Turns(q, S) PROVE q \in S
      OBVIOUS
    <3>2. Turns(q, T)
      BY <3>1
    <3>3. q \in T
      BY <1>1, <3>2
    <3>4. q # p
      BY <1>2, <3>2
    <3> QED BY <3>3, <3>4
  <2>2. S \in SUBSET Down
    OBVIOUS
  <2>3. p \in S
    BY <1>2, <2>1, <2>2
  <2> QED BY <2>3
<1>3. T \in SUBSET Down
  OBVIOUS
<1>4. \A p \in Down : p \in T <=> Turns(p, T)
  BY <1>1, <1>2
<1> HIDE DEF T
<1> QED BY <1>3, <1>4

\* An empty queue.
LEMMA NothingBetween ==
  ASSUME NEW two
  PROVE  LET m == [s |-> -1, f |-> -1] IN m \in MarkT /\ Between(<<>>, m, m, two)
BY DEF Between, Behind, MarkT

LEMMA BooksOpen == Init => Accounted
<1>1. SUFFICES ASSUME Init PROVE Accounted
  OBVIOUS
<1>2. Typed
  BY <1>1, TypedInit
<1>3. OffsetIsTrue
  BY <1>1 DEF Init, OffsetIsTrue, Judged
<1>4. clock[MasterPort[1]].offset = Start[MasterPort[1]]
  BY <1>1, PortTypes DEF Init
<1>5. PICK T \in SUBSET Down : \A p \in Down :
        p \in T <=> config.twoStep[p[1]] \/ (p # MasterPort /\ Before(p) \in T)
  BY TurnedExists
<1>6. PICK L : L = [mechanism |-> config.mechanism, twoStep |-> config.twoStep,
                    turned |-> T, passed |-> [p \in Down |-> {}],
                    sent |-> [n \in Nat |-> 0], due |-> [p \in Down |-> [n \in Nat |-> 0]]]
  OBVIOUS
<1>7. L \in LedgerT
  BY <1>2, <1>6 DEF LedgerT, Typed, ConfigTyped
<1>8. /\ L.mechanism = config.mechanism /\ L.twoStep = config.twoStep /\ L.turned = T
      /\ \A p \in Down : L.passed[p] = {}
  BY <1>6
<1>9. Turning(L) /\ Passing(L) /\ Ruled(L)
  <2>1. Turning(L)
    BY <1>5, <1>8 DEF Turning
  <2>2. Passing(L)
    BY <1>8, WayUp, WayDown DEF Passing
  <2> QED BY <2>1, <2>2, <1>8 DEF Ruled
<1>10. PICK m : m = [s |-> -1, f |-> -1] /\ m \in MarkT /\ \A two : Between(<<>>, m, m, two)
  BY NothingBetween
<1>11. PICK ent, trans, rec : /\ ent = [p \in Down \cup {SlavePort} |-> m]
                              /\ trans = [p \in Down |-> m] /\ rec = [p \in Down |-> m]
  OBVIOUS
<1>12. /\ ent \in MarksOf(Down \cup {SlavePort}) /\ trans \in MarksOf(Down)
       /\ rec \in MarksOf(Down)
       /\ \A p \in Down \cup {SlavePort} : ent[p] = m
       /\ \A p \in Down : trans[p] = m /\ rec[p] = m
  BY <1>10, <1>11 DEF MarksOf
<1>13. /\ \A p \in Ports : egress[p] = <<>> /\ ingress[p] = <<>> /\ wire[p] = <<>>
       /\ \A n \in Nodes : control[n] = <<>>
  BY <1>1 DEF Init
<1>14. OrderedOut(L, ent, trans)
  <2>1. ent[MasterPort].s < sync[MasterPort].sequId
    <3>1. PICK k \in Nat : k = sync[MasterPort].sequId
      BY <1>2 DEF Typed, ServicesTyped, SyncT
    <3> QED BY <3>1, <1>10, <1>12, WayDown
  <2>2. \A p \in Inner : ent[p].f <= trans[p].s
    BY <1>10, <1>12, WayDown
  <2> QED BY <2>1, <2>2, <1>10, <1>12, <1>13, WayDown DEF OrderedOut
<1>15. OrderedOn(L, trans, rec)
  <2>1. Frames(<<>>) = <<>>
    BY DEF Frames
  <2> QED BY <2>1, <1>10, <1>12, <1>13, WayDown DEF OrderedOn
<1>16. OrderedIn(L, ent, rec)
  BY <1>10, <1>12, <1>13, WayDown DEF OrderedIn
<1>17. Counted(L, trans)
  BY <1>8 DEF Counted
<1>18. TrueOut(L) /\ TrueOn(L) /\ TrueIn(L)
  <2>1. \A S : <<>> \in Seq(S)
    OBVIOUS
  <2>2. \A p \in Down : egress[p] = <<>> /\ wire[p] = <<>>
    BY <1>13, WayDown
  <2>3. \A p \in Down : egress[p] \in Seq(ToLeave(L, p, clock[p[1]]))
    BY <2>2, <2>1
  <2>4. \A p \in Down : wire[p] \in Seq(InFlight(L, p, now))
    BY <2>2, <2>1
  <2>5. \A q \in Ports \ Down : ingress[q] \in Seq(Held(L, q, clock[q[1]]))
    BY <1>13, <2>1
  <2> QED BY <2>3, <2>4, <2>5 DEF TrueOut, TrueOn, TrueIn
<1>19. TrueMemory(L, trans)
  <2>1. ASSUME NEW p \in Down PROVE Remembers(L, p, nic[p[1]].syncFu, trans[p].f)
    <3>1. nic[p[1]].syncFu = <<>>
      BY <1>1, WayDown DEF Init, NicCtrl
    <3> QED BY <3>1, <1>8 DEF Remembers, Rising
  <2> QED BY <2>1 DEF TrueMemory
<1>20. TrueRequests(L, ent)
  BY <1>13, WayUp DEF TrueRequests, Asks
<1>21. TrueStore(L)
  <2>1. ~sync[SlavePort].clean
    BY <1>1 DEF Init, AppSync
  <2> QED BY <2>1 DEF TrueStore, Stored
<1>22. Books(L, ent, trans, rec)
  BY <1>7, <1>9, <1>12, <1>14, <1>15, <1>16, <1>17, <1>18, <1>19, <1>20, <1>21 DEF Books
<1> QED BY <1>2, <1>3, <1>4, <1>22 DEF Accounted

-----------------------------------------------------------------------------
(* What the books do not tell apart *)

\* Frames without a mark.
Plain == {f \in FrameT : f.type \notin {"SYNC", "FOLLOW_UP"}}

LEMMA PlainBetween ==
  ASSUME NEW Q \in Seq(FrameT), NEW R \in Seq(Plain), NEW lo, NEW hi, NEW two,
         Between(Q, lo, hi, two)
  PROVE  Between(Q \o R, lo, hi, two)
<1>1. R \in Seq(FrameT)
  BY DEF Plain
<1>2. \A i \in DOMAIN R : R[i] \in Plain
  OBVIOUS
<1>3. PICK V : V = Q \o R
  OBVIOUS
<1>4. /\ Len(Q) \in Nat /\ DOMAIN Q = 1 .. Len(Q) /\ DOMAIN V = 1 .. (Len(Q) + Len(R))
      /\ Len(R) \in Nat /\ DOMAIN R = 1 .. Len(R)
      /\ \A i \in 1 .. Len(Q) : V[i] = Q[i]
      /\ \A i \in 1 .. Len(R) : V[Len(Q) + i] = R[i]
  BY <1>1, <1>3
<1>5. \A i \in DOMAIN V : (i \in DOMAIN Q /\ V[i] = Q[i]) \/ V[i] \in Plain
  <2>1. TAKE i \in DOMAIN V
  <2>2. CASE i \in DOMAIN Q
    BY <2>2, <1>4
  <2>3. CASE i \notin DOMAIN Q
    <3>1. i - Len(Q) \in DOMAIN R /\ Len(Q) + (i - Len(Q)) = i
      BY <2>3, <1>4
    <3> QED BY <3>1, <1>2, <1>4
  <2> QED BY <2>2, <2>3
<1>6. \A f \in Plain : f.type # "SYNC" /\ f.type # "FOLLOW_UP" /\ Fits(f, lo)
  BY NoMark DEF Plain
<1> HIDE DEF Plain
<1>7. lo \in MarkT /\ hi \in MarkT /\ Behind(lo, hi, two)
  BY DEF Between
<1>8. ASSUME NEW i \in DOMAIN V
      PROVE  /\ Fits(V[i], lo)
             /\ V[i].type = "SYNC" => V[i].seq <= hi.s
             /\ V[i].type = "FOLLOW_UP" => two /\ V[i].seq <= hi.f
  BY <1>5, <1>6 DEF Between
<1>9. ASSUME NEW i \in DOMAIN V, NEW j \in DOMAIN V, i < j
      PROVE  /\ V[j].type = "SYNC" /\ V[i].type \in {"SYNC", "FOLLOW_UP"} =>
                   V[i].seq < V[j].seq
             /\ V[j].type = "FOLLOW_UP" /\ V[i].type = "FOLLOW_UP" => V[i].seq < V[j].seq
  <2>1. CASE V[i] \in Plain \/ V[j] \in Plain
    BY <2>1, <1>6
  <2>2. CASE i \in DOMAIN Q /\ V[i] = Q[i] /\ j \in DOMAIN Q /\ V[j] = Q[j]
    BY <2>2, <1>9 DEF Between
  <2> QED BY <2>1, <2>2, <1>5
<1> QED BY <1>3, <1>7, <1>8, <1>9 DEF Between

LEMMA PlainIsTrue ==
  /\ \A L, p, c : Plain \subseteq ToLeave(L, p, c)
  /\ \A L, q, c : Plain \subseteq Held(L, q, c)
BY DEF Plain, ToLeave, Fresh, Held, FrameOK

\* A clock runs on, or jumps.
Moves(c, d) == d = c \/ d.epoch = c.epoch + 1

LEMMA HeldStays ==
  ASSUME NEW L, NEW q, NEW c \in [offset : Int, epoch : Nat], NEW d, Moves(c, d)
  PROVE  Held(L, q, c) \subseteq Held(L, q, d)
<1>1. CASE d = c
  BY <1>1
<1>2. CASE d.epoch = c.epoch + 1
  <2>1. SUFFICES ASSUME NEW f \in Held(L, q, c), f.type = "SYNC"
                 PROVE  f.stamp.epoch <= d.epoch /\ Stamped(L, q, f.seq, f.corr, f.stamp, d)
    BY DEF Held
  <2>2. f.stamp.epoch <= c.epoch /\ f \in FrameT
    BY <2>1 DEF Held
  <2>3. f.stamp.epoch \in Int /\ c.epoch \in Int
    BY <2>2 DEF FrameT, TimeT
  <2>4. f.stamp.epoch <= d.epoch /\ f.stamp.epoch # d.epoch
    BY <2>2, <2>3, <1>2
  <2> QED BY <2>4 DEF Stamped
<1> QED BY <1>1, <1>2 DEF Moves

LEMMA ToLeaveStays ==
  ASSUME NEW L, NEW p, NEW c \in [offset : Int, epoch : Nat], NEW d, Moves(c, d)
  PROVE  ToLeave(L, p, c) \subseteq ToLeave(L, p, d)
BY HeldStays DEF ToLeave

LEMMA StoredStays ==
  ASSUME NEW L, NEW s \in SyncT, NEW c \in [offset : Int, epoch : Nat], NEW d, Moves(c, d),
         Stored(L, s, c)
  PROVE  Stored(L, s, d)
<1>1. CASE d = c
  BY <1>1
<1>2. CASE d.epoch = c.epoch + 1
  <2>1. SUFFICES ASSUME s.clean PROVE Stamped(L, SlavePort, s.syncSequID, s.syncCorr,
                                              s.syncIngress, d)
    BY DEF Stored
  <2>2. s.syncIngress.epoch <= c.epoch
    BY <2>1 DEF Stored, Stamped
  <2>3. s.syncIngress.epoch \in Int /\ c.epoch \in Int
    BY DEF SyncT, TimeT
  <2>4. s.syncIngress.epoch <= d.epoch /\ s.syncIngress.epoch # d.epoch
    BY <2>2, <2>3, <1>2
  <2> QED BY <2>4 DEF Stamped
<1> QED BY <1>1, <1>2 DEF Moves

\* What the NIC control gets to know of path delays requests no Follow_Up.
LEMMA NoRequest ==
  ASSUME NEW T, NEW C \in Seq(T), NEW m, m.what # "TRIG_SFU", NEW L, NEW p, NEW k,
         Asks(L, p, C, k)
  PROVE  Asks(L, p, Append(C, m), k)
<1>1. PICK D : D = Append(C, m)
  OBVIOUS
<1>2. /\ Len(C) \in Nat /\ DOMAIN C = 1 .. Len(C) /\ DOMAIN D = 1 .. (Len(C) + 1)
      /\ D[Len(C) + 1] = m /\ \A i \in 1 .. Len(C) : D[i] = C[i]
  BY <1>1
<1>3. \A i \in DOMAIN D : D[i].what = "TRIG_SFU" => i \in DOMAIN C /\ D[i] = C[i]
  BY <1>2
<1> QED BY <1>1, <1>3 DEF Asks

\* The queues of the ports that lead away from the master.
SameOut == \A p \in Down : egress'[p] = egress[p]

SameOn == \A p \in Down : wire'[p] = wire[p]

SameIn == \A q \in Ports \ Down : ingress'[q] = ingress[q]

SameMemory == \A p \in Down : nic'[p[1]].syncFu = nic[p[1]].syncFu

SameRequests == \A p \in Inner : control'[p[1]] = control[p[1]]

MoreRequests ==
  \A p \in Inner : \/ control'[p[1]] = control[p[1]]
                   \/ \E m : m.what # "TRIG_SFU" /\ control'[p[1]] = Append(control[p[1]], m)

PlainOut == \A p \in Down : \E R \in Seq(Plain) : egress'[p] = egress[p] \o R

ClocksMove == \A n \in Nodes : Moves(clock[n], clock'[n])

LEMMA OutStays ==
  ASSUME Typed, NEW L, NEW ent, NEW trans, OrderedOut(L, ent, trans), TrueOut(L),
         SameOut \/ PlainOut, ClocksMove, sync'[MasterPort] = sync[MasterPort]
  PROVE  OrderedOut(L, ent, trans)' /\ TrueOut(L)'
<1>1. ASSUME NEW p \in Down
      PROVE  \/ egress'[p] = egress[p]
             \/ \E R \in Seq(Plain) : egress'[p] = egress[p] \o R
  BY DEF SameOut, PlainOut
<1>2. ASSUME NEW p \in Down
      PROVE  /\ Between(egress'[p], trans[p], ent[p], p \in L.turned)
             /\ egress'[p] \in Seq(ToLeave(L, p, clock'[p[1]]))
  <2>1. PICK n \in Nodes, Q \in Seq(FrameT) : n = p[1] /\ Q = egress[p]
    BY WayDown DEF Typed, EgressTyping
  <2>2. PICK S : S = ToLeave(L, p, clock[n])
    OBVIOUS
  <2>3. Between(Q, trans[p], ent[p], p \in L.turned) /\ Q \in Seq(S)
    BY <2>1, <2>2 DEF OrderedOut, TrueOut
  <2>4. Between(egress'[p], trans[p], ent[p], p \in L.turned) /\ egress'[p] \in Seq(S)
    <3>1. CASE egress'[p] = Q
      BY <3>1, <2>3
    <3>2. CASE \E R \in Seq(Plain) : egress'[p] = Q \o R
      <4>1. PICK R \in Seq(Plain) : egress'[p] = Q \o R
        BY <3>2
      <4>2. R \in Seq(S)
        BY <2>2, PlainIsTrue, SeqOf
      <4>3. Q \o R \in Seq(S)
        BY <2>3, <4>2
      <4>4. Between(Q \o R, trans[p], ent[p], p \in L.turned)
        BY <2>3, PlainBetween
      <4> QED BY <4>1, <4>3, <4>4
    <3> QED BY <3>1, <3>2, <1>1, <2>1
  <2>5. S \subseteq ToLeave(L, p, clock'[n])
    <3>1. clock[n] \in [offset : Int, epoch : Nat] /\ Moves(clock[n], clock'[n])
      BY DEF Typed, ClocksTyped, ClocksMove
    <3> QED BY <3>1, <2>2, ToLeaveStays
  <2> QED BY <2>1, <2>4, <2>5, SeqOf
<1> QED BY <1>2 DEF OrderedOut, TrueOut

LEMMA InStays ==
  ASSUME Typed, NEW L, NEW ent, NEW rec, OrderedIn(L, ent, rec), TrueIn(L), SameIn, ClocksMove
  PROVE  OrderedIn(L, ent, rec)' /\ TrueIn(L)'
<1>1. ASSUME NEW q \in Ports \ Down PROVE ingress'[q] \in Seq(Held(L, q, clock'[q[1]]))
  <2>1. PICK n \in Nodes : n = q[1]
    BY PortTypes
  <2>2. ingress'[q] \in Seq(Held(L, q, clock[n]))
    BY <2>1 DEF TrueIn, SameIn
  <2>3. clock[n] \in [offset : Int, epoch : Nat] /\ Moves(clock[n], clock'[n])
    BY DEF Typed, ClocksTyped, ClocksMove
  <2>4. Held(L, q, clock[n]) \subseteq Held(L, q, clock'[n])
    BY <2>3, HeldStays
  <2> QED BY <2>1, <2>2, <2>4, SeqOf
<1> QED BY <1>1 DEF OrderedIn, TrueIn, SameIn

LEMMA RequestsStay ==
  ASSUME Typed, NEW L, NEW ent, TrueRequests(L, ent), SameRequests \/ MoreRequests
  PROVE  TrueRequests(L, ent)'
<1>1. ASSUME NEW p \in Inner PROVE Asks(L, p, control'[p[1]], ent[p].f)
  <2>1. PICK n \in Nodes : n = p[1]
    BY WayUp
  <2>2. Asks(L, p, control[n], ent[p].f) /\ control[n] \in Seq(Messages(n))
    BY <2>1 DEF TrueRequests, Typed, ControlTyped
  <2>3. \/ control'[n] = control[n]
        \/ \E m : m.what # "TRIG_SFU" /\ control'[n] = Append(control[n], m)
    BY <2>1 DEF SameRequests, MoreRequests
  <2> QED BY <2>1, <2>2, <2>3, NoRequest
<1> QED BY <1>1 DEF TrueRequests

\* A step that moves nothing with a mark.
LEMMA NothingMoves ==
  ASSUME Typed, NEW L, NEW ent, NEW trans, NEW rec, Books(L, ent, trans, rec),
         UNCHANGED <<config, now, sync>>, ClocksMove,
         SameOut \/ PlainOut, SameOn, SameIn, SameMemory, SameRequests \/ MoreRequests
  PROVE  Books(L, ent, trans, rec)'
<1>1. OrderedOut(L, ent, trans)' /\ TrueOut(L)'
  BY OutStays DEF Books
<1>2. OrderedIn(L, ent, rec)' /\ TrueIn(L)'
  BY InStays DEF Books
<1>3. TrueRequests(L, ent)'
  BY RequestsStay DEF Books
<1>4. OrderedOn(L, trans, rec)' /\ TrueOn(L)' /\ TrueMemory(L, trans)' /\ Ruled(L)'
  BY DEF Books, OrderedOn, TrueOn, TrueMemory, Ruled, SameOn, SameMemory
<1>5. TrueStore(L)'
  <2>1. clock[SlavePort[1]] \in [offset : Int, epoch : Nat] /\ sync[SlavePort] \in SyncT
    BY PortTypes DEF Typed, ClocksTyped, ServicesTyped
  <2>2. Moves(clock[SlavePort[1]], clock'[SlavePort[1]])
    BY PortTypes DEF ClocksMove
  <2>3. Stored(L, sync[SlavePort], clock[SlavePort[1]])
    BY DEF Books, TrueStore
  <2> QED BY <2>1, <2>2, <2>3, StoredStays DEF TrueStore
<1> QED BY <1>1, <1>2, <1>3, <1>4, <1>5 DEF Books

-----------------------------------------------------------------------------
(* Steps that the books do not record *)

LEMMA JumpMoves ==
  ASSUME Typed, NEW n \in Nodes \ {MasterPort[1]}, NEW delta \in Int, Jump(n, delta)
  PROVE  ClocksMove /\ clock'[MasterPort[1]] = clock[MasterPort[1]]
<1>1. \A k \in Nodes : k # n => clock'[k] = clock[k]
  BY DEF Typed, ClocksTyped, Jump
<1>2. clock'[n].epoch = clock[n].epoch + 1
  <2>1. clock'[n] = [offset |-> clock[n].offset + delta, epoch |-> clock[n].epoch + 1]
    BY DEF Typed, ClocksTyped, Jump
  <2> QED BY <2>1
<1> QED BY <1>1, <1>2, PortTypes DEF ClocksMove, Moves

LEMMA SameClocks == clock' = clock => ClocksMove
BY DEF ClocksMove, Moves

\* A frame without a mark is issued.
LEMMA PlainIssued ==
  ASSUME Typed, NEW p \in Ports, NEW R \in Seq(Plain), Issue(p, R)
  PROVE  PlainOut
<1>1. egress \in [Ports -> Seq(FrameT)] /\ egress' = [egress EXCEPT ![p] = @ \o R]
  BY DEF Typed, EgressTyping, Issue
<1>2. ASSUME NEW q \in Down PROVE \E X \in Seq(Plain) : egress'[q] = egress[q] \o X
  <2>1. q \in Ports
    BY WayDown
  <2>2. CASE q = p
    BY <1>1, <2>1, <2>2
  <2>3. CASE q # p
    <3>1. egress'[q] = egress[q] /\ egress[q] \in Seq(FrameT)
      BY <1>1, <2>1, <2>3
    <3>2. egress[q] = egress[q] \o <<>> /\ <<>> \in Seq(Plain)
      BY <3>1
    <3> QED BY <3>1, <3>2
  <2> QED BY <2>2, <2>3
<1> QED BY <1>2 DEF PlainOut

LEMMA OwnRequests ==
  ASSUME NEW p \in Ports, NEW seq \in Nat, NEW type \in {"DELAY_REQ", "PDELAY_REQ"}
  PROVE  <<Frame(type, p, seq, FALSE)>> \in Seq(Plain)
<1>1. type \in FrameTypes
  BY DEF FrameTypes, Delays, PDelays
<1>2. PICK two \in BOOLEAN : two = FALSE
  OBVIOUS
<1>3. PICK f : f = Frame(type, p, seq, two)
  OBVIOUS
<1>4. f \in FrameT /\ f.type = type
  BY <1>1, <1>3, FrameTyped
<1>5. f \in Plain
  BY <1>4 DEF Plain
<1>6. <<f>> \in Seq(Plain)
  BY <1>5
<1> QED BY <1>2, <1>3, <1>6

LEMMA SendDelayReqBooked ==
  ASSUME Typed, NEW L, NEW ent, NEW trans, NEW rec, Books(L, ent, trans, rec), SendDelayReq
  PROVE  Books(L, ent, trans, rec)'
<1>1. PICK d \in DelayT : d = delay
  BY DEF Typed, ServicesTyped
<1>2. <<CreateDelayReqFrame(d, SlavePort)>> \in Seq(Plain)
  <2>1. d.sequId \in Nat
    BY DEF DelayT
  <2> QED BY <2>1, PortTypes, OwnRequests DEF CreateDelayReqFrame
<1>3. PlainOut
  BY <1>1, <1>2, PortTypes, PlainIssued DEF SendDelayReq
<1>4. /\ UNCHANGED <<config, now, sync, clock>>
      /\ SameOn /\ SameIn /\ SameMemory /\ SameRequests
  BY DEF SendDelayReq, SameOn, SameIn, SameMemory, SameRequests
<1> QED BY <1>3, <1>4, SameClocks, NothingMoves

LEMMA SendPDelayReqBooked ==
  ASSUME Typed, NEW L, NEW ent, NEW trans, NEW rec, Books(L, ent, trans, rec),
         NEW p \in Ports, SendPDelayReq(p)
  PROVE  Books(L, ent, trans, rec)'
<1>1. PICK d \in PDelayT : d = pdelay[p]
  BY DEF Typed, ServicesTyped
<1>2. <<CreatePDelayReqFrame(d, p)>> \in Seq(Plain)
  <2>1. d.sequId \in Nat
    BY DEF PDelayT
  <2> QED BY <2>1, OwnRequests DEF CreatePDelayReqFrame
<1>3. PlainOut
  BY <1>1, <1>2, PlainIssued DEF SendPDelayReq
<1>4. /\ UNCHANGED <<config, now, sync, clock>>
      /\ SameOn /\ SameIn /\ SameMemory /\ SameRequests
  BY DEF SendPDelayReq, SameOn, SameIn, SameMemory, SameRequests
<1> QED BY <1>3, <1>4, SameClocks, NothingMoves

LEMMA JumpTransparentBooked ==
  ASSUME Typed, NEW L, NEW ent, NEW trans, NEW rec, Books(L, ent, trans, rec),
         NEW n \in Nodes, JumpTransparent(n)
  PROVE  /\ Books(L, ent, trans, rec)'
         /\ clock'[MasterPort[1]] = clock[MasterPort[1]] /\ sample' = sample
<1>1. n # MasterPort[1]
  BY DEF JumpTransparent, ClockType
<1>2. PICK delta \in Jumps : Jump(n, delta)
  BY DEF JumpTransparent
<1>3. delta \in Int
  BY NetworkAssumption
<1>4. ClocksMove /\ clock'[MasterPort[1]] = clock[MasterPort[1]]
  BY <1>1, <1>2, <1>3, JumpMoves
<1>5. /\ UNCHANGED <<config, now, sync, sample>>
      /\ SameOut /\ SameOn /\ SameIn /\ SameMemory /\ SameRequests
  BY DEF JumpTransparent, SameOut, SameOn, SameIn, SameMemory, SameRequests
<1> QED BY <1>4, <1>5, NothingMoves

\* Time passes: all that flies comes nearer.
LEMMA ElapseBooked ==
  ASSUME Typed, NEW L, NEW ent, NEW trans, NEW rec, Books(L, ent, trans, rec), Elapse
  PROVE  Books(L, ent, trans, rec)'
<1>1. /\ wire' = [p \in Ports |->
                    [i \in DOMAIN wire[p] |-> [wire[p][i] EXCEPT !.left = @ - 1]]]
      /\ now' = now + 1
      /\ UNCHANGED <<config, clock, nic, ingress, egress, control, sync>>
  BY DEF Elapse
<1>2. Typed'
  BY ElapseTyped
<1>3. ASSUME NEW p \in Down
      PROVE  /\ Frames(wire'[p]) = Frames(wire[p])
             /\ wire'[p] \in Seq(InFlight(L, p, now'))
  <2>1. PICK W \in Seq(WireT), V \in Seq(WireT) : W = wire[p] /\ V = wire'[p]
    BY <1>2, WayDown DEF Typed, WireTyping
  <2>2. V = [i \in DOMAIN W |-> [W[i] EXCEPT !.left = @ - 1]]
    BY <1>1, <2>1, WayDown
  <2>3. \A i \in DOMAIN W : V[i].frame = W[i].frame /\ V[i].left = W[i].left - 1
                            /\ V[i] \in WireT /\ W[i] \in WireT
    <3>1. DOMAIN V = DOMAIN W
      BY <2>2
    <3>2. \A i \in DOMAIN W : V[i] \in WireT /\ W[i] \in WireT
      BY <3>1
    <3> QED BY <2>2, <3>2 DEF WireT
  <2>4. Frames(V) = Frames(W)
    BY <2>2, <2>3 DEF Frames
  <2>5. ASSUME NEW i \in DOMAIN V PROVE V[i] \in InFlight(L, p, now + 1)
    <3>1. i \in DOMAIN W
      BY <2>2
    <3>2. W[i] \in InFlight(L, p, now)
      <4>1. W \in Seq(InFlight(L, p, now))
        BY <2>1 DEF Books, TrueOn
      <4> QED BY <3>1, <4>1
    <3>3. W[i].left \in Int /\ now \in Int /\ LinkDelay[p] \in Int
      BY <2>3, <3>1, WayDown, NetworkAssumption DEF WireT, Typed, ClocksTyped
    <3>4. now + 1 + V[i].left - LinkDelay[p] = now + W[i].left - LinkDelay[p]
      <4>1. PICK a \in Int, b \in Int, c \in Int : a = now /\ b = W[i].left /\ c = LinkDelay[p]
        BY <3>3
      <4>2. a + 1 + (b - 1) - c = a + b - c
        OBVIOUS
      <4> QED BY <2>3, <3>1, <4>1, <4>2
    <3> QED BY <2>3, <3>1, <3>2, <3>4 DEF InFlight
  <2>6. V \in Seq(InFlight(L, p, now + 1))
    BY <2>5, ElementsOf
  <2> QED BY <1>1, <2>1, <2>4, <2>6
<1>4. OrderedOn(L, trans, rec)' /\ TrueOn(L)'
  BY <1>3 DEF Books, OrderedOn, TrueOn
<1>5. /\ Ruled(L)' /\ OrderedOut(L, ent, trans)' /\ OrderedIn(L, ent, rec)'
      /\ TrueOut(L)' /\ TrueIn(L)' /\ TrueMemory(L, trans)' /\ TrueRequests(L, ent)'
      /\ TrueStore(L)'
  BY <1>1 DEF Books, Ruled, OrderedOut, OrderedIn, TrueOut, TrueIn, TrueMemory,
              TrueRequests, TrueStore
<1> QED BY <1>4, <1>5 DEF Books

-----------------------------------------------------------------------------
(* The master sends a Sync *)

\* Only the queue of one port gets longer: what the others need of the books.
OutElsewhere(p) == \A q \in Down \ {p} : egress'[q] = egress[q]

\* Marks differ at most at one port.
Elsewhere(a, b, p) == \A q \in Down \ {p} : a[q] = b[q]

LEMMA OutAt ==
  ASSUME NEW L, NEW ent, NEW trans, OrderedOut(L, ent, trans), TrueOut(L),
         NEW p \in Down, OutElsewhere(p), clock' = clock, NEW ent2, NEW trans2,
         Elsewhere(ent2, ent, p), Elsewhere(trans2, trans, p),
         Between(egress'[p], trans2[p], ent2[p], p \in L.turned),
         egress'[p] \in Seq(ToLeave(L, p, clock[p[1]])),
         p \in Inner /\ Before(p) \notin L.turned => ent2[p].f <= trans2[p].s,
         ent2[MasterPort].s < sync'[MasterPort].sequId
  PROVE  OrderedOut(L, ent2, trans2)' /\ TrueOut(L)'
<1>1. \A q \in Down : Between(egress'[q], trans2[q], ent2[q], q \in L.turned)
  BY DEF OrderedOut, OutElsewhere, Elsewhere
<1>2. \A q \in Inner : Before(q) \notin L.turned => ent2[q].f <= trans2[q].s
  BY WayDown DEF OrderedOut, Elsewhere
<1>3. \A q \in Down : egress'[q] \in Seq(ToLeave(L, q, clock'[q[1]]))
  BY DEF TrueOut, OutElsewhere
<1> QED BY <1>1, <1>2, <1>3 DEF OrderedOut, TrueOut

LEMMA SendSyncBooked ==
  ASSUME Typed, NEW L, NEW ent, NEW trans, NEW rec, Books(L, ent, trans, rec), SendSync
  PROVE  \E e : Books(L, e, trans, rec)'
<1>1. PICK s \in SyncT : s = sync[MasterPort]
  BY PortTypes DEF Typed, ServicesTyped
<1>2. PICK two \in BOOLEAN : two = config.twoStep[MasterPort[1]]
  BY PortTypes DEF Typed, ConfigTyped
<1>3. two = (MasterPort \in L.turned)
  BY <1>2, WayDown DEF Books, Ruled, Turning
<1>4. PICK Q \in Seq(FrameT) : Q = egress[MasterPort]
  BY PortTypes DEF Typed, EgressTyping
<1>5. PICK f : f = CreateSyncFrame(s, MasterPort, two)
  OBVIOUS
<1>6. PICK g : g = CreateFollowUpFrame(f)
  OBVIOUS
<1>7. s.sequId \in Nat
  BY DEF SyncT
<1>8. f \in FrameT /\ f.type = "SYNC" /\ f.seq = s.sequId /\ f.twoStep = two /\ f.corr = 0
  <2>1. "SYNC" \in FrameTypes
    BY DEF FrameTypes
  <2> QED BY <2>1, <1>5, <1>7, PortTypes, FrameTyped DEF CreateSyncFrame
<1>9. g \in FrameT /\ g.type = "FOLLOW_UP" /\ g.seq = s.sequId /\ g.corr = 0
  BY <1>6, <1>8, FollowUpOf
<1>10. PICK m \in MarkT : m = ent[MasterPort]
  BY WayDown DEF Books, MarksOf
<1>11. /\ Between(Q, trans[MasterPort], m, two) /\ m.s < s.sequId
       /\ m.s \in Int /\ m.f \in Int /\ m.f <= m.s
  BY <1>1, <1>3, <1>4, <1>10, WayDown DEF Books, OrderedOut, MarkT
<1>12. PICK m1 : m1 = Mark(f, m)
  OBVIOUS
<1>13. /\ Between(Append(Q, f), trans[MasterPort], m1, two)
       /\ m1 \in MarkT /\ m1.s = s.sequId /\ m1.f = m.f
  <2>1. Fits(f, m)
    BY <1>8, <1>11 DEF Fits
  <2>2. f.type # "FOLLOW_UP"
    BY <1>8
  <2> QED BY <2>1, <2>2, <1>8, <1>10, <1>11, <1>12, MarkTyped, ComesIn
<1>14. PICK m2 : m2 = Mark(g, m1)
  OBVIOUS
<1>15. ASSUME two
       PROVE  /\ Between(Append(Append(Q, f), g), trans[MasterPort], m2, two)
              /\ m2 \in MarkT /\ m2.s = s.sequId
  <2>1. Fits(g, m1)
    BY <1>7, <1>9, <1>11, <1>13 DEF Fits
  <2>2. Append(Q, f) \in Seq(FrameT)
    BY <1>8
  <2>3. m2 \in MarkT
    BY <2>1, <1>9, <1>13, <1>14, MarkTyped
  <2>4. m2.s = s.sequId
    BY <1>7, <1>9, <1>13, <1>14 DEF Mark
  <2> QED BY <2>1, <2>2, <2>3, <2>4, <1>9, <1>13, <1>14, <1>15, ComesIn
<1>16. PICK F : F = Fresh(L)
  OBVIOUS
<1>17. Q \in Seq(F) /\ f \in F /\ g \in F
  <2>1. Q \in Seq(F)
    BY <1>4, <1>16, WayDown DEF Books, TrueOut, ToLeave
  <2> QED BY <2>1, <1>3, <1>8, <1>9, <1>16 DEF Fresh
<1>18. egress' = [egress EXCEPT ![MasterPort] = @ \o SyncFrames(s, MasterPort, two)]
  BY <1>1, <1>2 DEF SendSync, Issue
<1>19. OutElsewhere(MasterPort)
  BY <1>18, WayDown DEF OutElsewhere, Typed, EgressTyping
<1>20. PICK e \in MarkT :
         /\ Between(egress'[MasterPort], trans[MasterPort], e, two) /\ e.s = s.sequId
         /\ egress'[MasterPort] \in Seq(F)
  <2>1. egress'[MasterPort] = Q \o SyncFrames(s, MasterPort, two)
    BY <1>4, <1>18, PortTypes DEF Typed, EgressTyping
  <2>2. CASE two
    <3>1. SyncFrames(s, MasterPort, two) = <<f, g>>
      BY <1>5, <1>6, <2>2 DEF SyncFrames
    <3>2. Q \o <<f, g>> = Append(Append(Q, f), g)
      BY <1>8, <1>9
    <3>3. Append(Q, f) \in Seq(F)
      BY <1>17
    <3>4. Append(Append(Q, f), g) \in Seq(F)
      BY <3>3, <1>17
    <3> QED BY <1>15, <2>1, <2>2, <3>1, <3>2, <3>4
  <2>3. CASE ~two
    <3>1. SyncFrames(s, MasterPort, two) = <<f>>
      BY <1>5, <2>3 DEF SyncFrames
    <3>2. Q \o <<f>> = Append(Q, f)
      BY <1>8
    <3>3. Append(Q, f) \in Seq(F)
      BY <1>17
    <3> QED BY <1>13, <2>1, <3>1, <3>2, <3>3
  <2> QED BY <2>2, <2>3
<1>21. PICK ent2 : ent2 = [ent EXCEPT ![MasterPort] = e]
  OBVIOUS
<1>22. /\ ent2 \in MarksOf(Down \cup {SlavePort}) /\ ent2[MasterPort] = e
       /\ \A q \in Down \cup {SlavePort} : q # MasterPort => ent2[q] = ent[q]
  BY <1>21, WayDown DEF Books, MarksOf
<1>23. /\ sync' = [sync EXCEPT ![MasterPort].sequId = @ + 1]
       /\ UNCHANGED <<config, now, clock, nic, ingress, wire, control>>
  BY DEF SendSync
<1>24. sync'[MasterPort].sequId = s.sequId + 1 /\ sync'[SlavePort] = sync[SlavePort]
  BY <1>1, <1>23, PortTypes DEF Typed, ServicesTyped, SyncT
<1>25. OrderedOut(L, ent2, trans)' /\ TrueOut(L)'
  <2>1. ent2[MasterPort].s < sync'[MasterPort].sequId
    BY <1>7, <1>20, <1>22, <1>24
  <2>2. egress'[MasterPort] \in Seq(ToLeave(L, MasterPort, clock[MasterPort[1]]))
    BY <1>16, <1>20 DEF ToLeave
  <2>3. Elsewhere(ent2, ent, MasterPort) /\ Elsewhere(trans, trans, MasterPort)
    BY <1>22 DEF Elsewhere
  <2>4. MasterPort \notin Inner /\ MasterPort \in Down
    BY WayDown
  <2>5. OrderedOut(L, ent, trans) /\ TrueOut(L)
    BY DEF Books
  <2>6. Between(egress'[MasterPort], trans[MasterPort], ent2[MasterPort],
                MasterPort \in L.turned)
    BY <1>3, <1>20, <1>22
  <2>7. MasterPort \in Inner /\ Before(MasterPort) \notin L.turned =>
          ent2[MasterPort].f <= trans[MasterPort].s
    BY <2>4
  <2>8. clock' = clock
    BY <1>23
  <2> QED BY <2>1, <2>2, <2>3, <2>4, <2>5, <2>6, <2>7, <2>8, <1>19, OutAt
<1>26. OrderedIn(L, ent2, rec)'
  <2>1. \A q \in Ports \ Down : Onward(q) \in Down \cup {SlavePort} /\ Onward(q) # MasterPort
    BY WayDown, WayOn, PortTypes
  <2> QED BY <2>1, <1>22, <1>23 DEF Books, OrderedIn
<1>27. TrueRequests(L, ent2)'
  BY <1>22, <1>23, WayDown DEF Books, TrueRequests
<1>28. TrueStore(L)'
  BY <1>23, <1>24 DEF Books, TrueStore
<1>29. /\ Ruled(L)' /\ OrderedOn(L, trans, rec)' /\ TrueOn(L)' /\ TrueIn(L)'
       /\ TrueMemory(L, trans)'
  BY <1>23 DEF Books, Ruled, OrderedOn, TrueOn, TrueIn, TrueMemory
<1>30. Books(L, ent2, trans, rec)'
  BY <1>22, <1>25, <1>26, <1>27, <1>28, <1>29 DEF Books
<1> QED BY <1>30

-----------------------------------------------------------------------------
(* A frame arrives, or is lost *)

LEMMA MarkOf ==
  \A f, g, m : f.type = g.type /\ f.seq = g.seq => Mark(f, m) = Mark(g, m)
BY DEF Mark

LEMMA FitsAlike ==
  \A f, g, m : f.type = g.type /\ f.seq = g.seq /\ Fits(f, m) => Fits(g, m)
BY DEF Fits

\* The first frame leaves the wire of q.
WireTail(q) == wire' = [wire EXCEPT ![q] = Tail(@)]

LEMMA WireAt ==
  ASSUME Typed, NEW L, NEW trans, NEW rec, OrderedOn(L, trans, rec), TrueOn(L), now' = now,
         NEW p \in Down, wire[p] # <<>>, WireTail(p), NEW r, NEW rec2, rec2[p] = r,
         \A q \in Down \ {p} : rec2[q] = rec[q],
         Between(Tail(Frames(wire[p])), r, trans[p], p \in L.turned)
  PROVE  OrderedOn(L, trans, rec2)' /\ TrueOn(L)'
<1>1. PICK W \in Seq(WireT) : W = wire[p] /\ W # <<>>
  BY WayDown DEF Typed, WireTyping
<1>2. wire'[p] = Tail(W) /\ \A q \in Down : q # p => wire'[q] = wire[q]
  BY <1>1, WayDown DEF WireTail, Typed, WireTyping
<1>3. Frames(Tail(W)) = Tail(Frames(W))
  BY <1>1, FramesOf
<1>4. \A q \in Down : Between(Frames(wire'[q]), rec2[q], trans[q], q \in L.turned)
  BY <1>1, <1>2, <1>3 DEF OrderedOn
<1>5. PICK S : S = InFlight(L, p, now)
  OBVIOUS
<1>6. W \in Seq(S)
  BY <1>1, <1>5 DEF TrueOn
<1>7. Tail(W) \in Seq(S)
  BY <1>1, <1>6
<1>8. \A q \in Down : wire'[q] \in Seq(InFlight(L, q, now'))
  BY <1>2, <1>5, <1>7 DEF TrueOn
<1> QED BY <1>4, <1>8 DEF OrderedOn, TrueOn

LEMMA LoseBooked ==
  ASSUME Typed, NEW L, NEW ent, NEW trans, NEW rec, Books(L, ent, trans, rec),
         NEW p \in Ports, Lose(p)
  PROVE  Books(L, ent, trans, rec)'
<1>1. /\ Arrives(p) /\ WireTail(Peer[p])
      /\ UNCHANGED <<config, now, clock, nic, ingress, egress, control, sync>>
  BY DEF Lose, WireTail
<1>2. SameOut /\ SameIn /\ SameMemory /\ SameRequests
  BY <1>1 DEF SameOut, SameIn, SameMemory, SameRequests
<1>3. CASE p \in Down
  <2>1. SameOn
    BY <1>1, <1>3, WayDown DEF SameOn, WireTail, Typed, WireTyping
  <2> QED BY <1>1, <1>2, <2>1, SameClocks, NothingMoves
<1>4. CASE p \notin Down
  <2>1. PICK P \in Down : P = Peer[p] /\ wire[P] # <<>>
    BY <1>1, <1>4, WayDown DEF Arrives
  <2>2. PICK W \in Seq(WireT) : W = wire[P]
    BY WayDown DEF Typed, WireTyping
  <2>3. Frames(W) \in Seq(FrameT) /\ Frames(W) # <<>>
    BY <2>1, <2>2, FramesOf
  <2>4. Between(Frames(W), rec[P], trans[P], P \in L.turned)
    BY <2>2 DEF Books, OrderedOn
  <2>5. Between(Tail(Frames(wire[P])), rec[P], trans[P], P \in L.turned)
    BY <2>2, <2>3, <2>4, GetsLost
  <2>6. OrderedOn(L, trans, rec)' /\ TrueOn(L)'
    BY <1>1, <2>1, <2>5, WireAt DEF Books
  <2>7. /\ Ruled(L)' /\ OrderedOut(L, ent, trans)' /\ OrderedIn(L, ent, rec)'
        /\ TrueOut(L)' /\ TrueIn(L)' /\ TrueMemory(L, trans)' /\ TrueRequests(L, ent)'
        /\ TrueStore(L)'
    BY <1>1 DEF Books, Ruled, OrderedOut, OrderedIn, TrueOut, TrueIn, TrueMemory,
                TrueRequests, TrueStore
  <2> QED BY <2>6, <2>7 DEF Books
<1> QED BY <1>3, <1>4

\* What arrives has been true on the wire, and the stamp says when.
LEMMA ArrivesTrue ==
  ASSUME Typed, NEW L \in LedgerT, Ruled(L), TrueOn(L), NEW p \in Ports \ Down, Arrives(p),
         NEW f, f = [Head(wire[Peer[p]]).frame EXCEPT !.epoch = clock[p[1]].epoch],
         NEW out, out = HandleIngress(Mac(p), nic[p[1]], f, Reading(p[1]))
  PROVE  out.frame \in Held(L, p, clock[p[1]])
<1>1. PICK P \in Down : P = Peer[p]
  BY WayDown
<1>2. PICK W \in Seq(WireT) : W = wire[P] /\ W # <<>>
  BY <1>1, WayDown DEF Typed, WireTyping, Arrives
<1>3. PICK w \in WireT : w = Head(W) /\ w.left = 0
  <2>1. Head(W) \in WireT
    BY <1>2
  <2> QED BY <2>1, <1>1, <1>2 DEF Arrives
<1>4. w \in InFlight(L, P, now)
  <2>1. W \in Seq(InFlight(L, P, now))
    BY <1>2 DEF TrueOn
  <2> QED BY <2>1, <1>2, <1>3
<1>5. PICK a \in FrameT : a = w.frame
  BY DEF WireT
<1>6. PICK n \in Nodes : n = p[1]
  BY PortTypes
<1>7. PICK c \in [offset : Int, epoch : Nat] : c = clock[n]
  BY DEF Typed, ClocksTyped
<1>8. f = [a EXCEPT !.epoch = c.epoch]
  BY <1>1, <1>2, <1>3, <1>5, <1>6, <1>7
<1>9. PICK g, h : /\ g \in FrameT /\ g = out.frame /\ h = f /\ Arrived(g, h, p)
                   /\ Taken(out, h, p, nic[n], config.twoStep[n], Reading(n))
                   /\ nic[n].asymmetry[p] = Asymmetry[p]
  <2>1. /\ Enters(out, f, p, nic[p[1]]) /\ nic[p[1]].asymmetry[p] = Asymmetry[p]
        /\ Taken(out, f, p, nic[p[1]], config.twoStep[p[1]], Reading(p[1]))
    BY FirstIn
  <2> QED BY <2>1, <1>6 DEF Enters, Arrived
<1>10. /\ h.type = a.type /\ h.seq = a.seq /\ h.origin = a.origin /\ h.corr = a.corr
      /\ h.twoStep = a.twoStep /\ h.clean = a.clean /\ h.epoch = c.epoch /\ a.corr \in Int
      /\ a.seq \in Nat
  BY <1>7, <1>8, <1>9 DEF FrameT
<1>11. /\ g.type = h.type /\ g.seq = h.seq /\ g.origin = h.origin /\ g.twoStep = h.twoStep
       /\ g.clean = h.clean /\ g.epoch = h.epoch
       /\ h.type = "FOLLOW_UP" => g.corr = h.corr
  BY <1>9 DEF Arrived, Taken
<1>12. FrameOK(L, P, g)
  BY <1>4, <1>5, <1>10, <1>11 DEF InFlight, FrameOK, TrueStart
<1>13. ASSUME g.type = "SYNC"
       PROVE  /\ g.epoch = g.stamp.epoch /\ g.stamp.epoch <= c.epoch
              /\ g.clean => Stamped(L, p, g.seq, g.corr, g.stamp, c)
  <2>1. PICK x \in Int : x = Added(L, p)
    <3>1. Asymmetry[p] \in Int
      BY NetworkAssumption
    <3> QED BY <3>1 DEF Added
  <2>2. g.stamp = Reading(n) /\ g.corr = a.corr + x
    <3>1. /\ g.stamp = Reading(n)
          /\ g.corr = h.corr
               + IF ClockType(p[1]) = "ORDINARY" \/ ~config.twoStep[p[1]]
                 THEN Asymmetry[p] ELSE 0
      BY <1>6, <1>9, <1>11, <1>13 DEF Taken
    <3>2. g.corr = h.corr + x
      BY <3>1, <2>1 DEF Added, Ruled
    <3> QED BY <3>1, <3>2, <1>6, <1>10, <1>9
  <2>3. g.stamp.time = now + c.offset /\ g.stamp.epoch = c.epoch
    BY <2>2, <1>7 DEF Reading
  <2>4. now \in Int /\ c.offset \in Int /\ LinkDelay[P] \in Int /\ L.sent[a.seq] \in Int
        /\ L.due[P][a.seq] \in Int /\ c.epoch \in Int
    <3>1. LinkDelay[P] \in Int
      BY WayDown, NetworkAssumption
    <3>2. L.sent[a.seq] \in Int /\ L.due[P][a.seq] \in Int
      BY <1>10, LedgerTyped
    <3> QED BY <3>1, <3>2 DEF Typed, ClocksTyped
  <2>5. g.clean => Timed(L, P, a.seq, a.corr, now + 0 - LinkDelay[P])
    BY <1>3, <1>4, <1>5, <1>10, <1>11, <1>13 DEF InFlight
  <2>6. g.clean => Timed(L, P, g.seq, g.corr, g.stamp.time - c.offset - LinkDelay[P] + x)
    <3>1. PICK t \in Int, o \in Int, d \in Int, s \in Int, u \in Int, r \in Int :
            /\ t = now /\ o = c.offset /\ d = LinkDelay[P] /\ s = L.sent[a.seq]
            /\ u = L.due[P][a.seq] /\ r = a.corr
      BY <2>4, <1>10
    <3>2. t + o - o - d + x - s - (r + x) - u = t + 0 - d - s - r - u
      OBVIOUS
    <3> QED BY <3>1, <3>2, <2>2, <2>3, <2>5, <1>10, <1>11 DEF Timed
  <2> QED BY <2>1, <2>3, <2>4, <2>6, <1>1, <1>10, <1>11 DEF Stamped
<1> QED BY <1>1, <1>6, <1>7, <1>9, <1>12, <1>13 DEF Held

\* Only the frames that came in by one port change.
InElsewhere(p) == \A q \in Ports \ Down : q # p => ingress'[q] = ingress[q]

InMarks(ent2, ent, rec2, rec, p) ==
  \A q \in Ports \ Down :
    q # p => ent2[Onward(q)] = ent[Onward(q)] /\ rec2[Peer[q]] = rec[Peer[q]]

LEMMA InAt ==
  ASSUME Typed, NEW L, NEW ent, NEW rec, OrderedIn(L, ent, rec), TrueIn(L), ClocksMove,
         NEW p \in Ports \ Down, InElsewhere(p), NEW ent2, NEW rec2,
         InMarks(ent2, ent, rec2, rec, p),
         Between(ingress'[p], ent2[Onward(p)], rec2[Peer[p]], Peer[p] \in L.turned),
         ingress'[p] \in Seq(Held(L, p, clock[p[1]]))
  PROVE  OrderedIn(L, ent2, rec2)' /\ TrueIn(L)'
<1>1. ASSUME NEW q \in Ports \ Down
      PROVE  Between(ingress'[q], ent2[Onward(q)], rec2[Peer[q]], Peer[q] \in L.turned)
  <2>1. CASE q = p
    BY <2>1
  <2>2. CASE q # p
    BY <2>2 DEF OrderedIn, InElsewhere, InMarks
  <2> QED BY <2>1, <2>2
<1>2. ASSUME NEW q \in Ports \ Down PROVE ingress'[q] \in Seq(Held(L, q, clock'[q[1]]))
  <2>1. PICK n \in Nodes : n = q[1]
    BY PortTypes
  <2>2. ingress'[q] \in Seq(Held(L, q, clock[n]))
    <3>1. CASE q = p
      BY <2>1, <3>1
    <3>2. CASE q # p
      BY <2>1, <3>2 DEF TrueIn, InElsewhere
    <3> QED BY <3>1, <3>2
  <2>3. clock[n] \in [offset : Int, epoch : Nat] /\ Moves(clock[n], clock'[n])
    BY DEF Typed, ClocksTyped, ClocksMove
  <2>4. Held(L, q, clock[n]) \subseteq Held(L, q, clock'[n])
    BY <2>3, HeldStays
  <2> QED BY <2>1, <2>2, <2>4, SeqOf
<1> QED BY <1>1, <1>2 DEF OrderedIn, TrueIn

\* A handler of an arriving frame keeps what the NIC control remembers of Syncs.
LEMMA EnterMemory ==
  ASSUME Typed, NEW p \in Ports, NEW f, NEW out, Enters(out, f, p, nic[p[1]]),
         nic' = [nic EXCEPT ![p[1]] = out.nic]
  PROVE  SameMemory
<1>1. PICK n \in Nodes : n = p[1]
  BY PortTypes
<1>2. \A k \in Nodes : nic'[k] = IF k = n THEN out.nic ELSE nic[k]
  BY <1>1 DEF Typed, NicTyped
<1>3. \A k \in Nodes : nic'[k].syncFu = nic[k].syncFu
  BY <1>1, <1>2 DEF Enters
<1> QED BY <1>3, WayDown DEF SameMemory

LEMMA ReceiveBooked ==
  ASSUME Typed, NEW L, NEW ent, NEW trans, NEW rec, Books(L, ent, trans, rec),
         NEW p \in Ports, Receive(p)
  PROVE  \E r : Books(L, ent, trans, r)'
<1>1. PICK f : f = [Head(wire[Peer[p]]).frame EXCEPT !.epoch = clock[p[1]].epoch]
  OBVIOUS
<1>2. PICK out : out = HandleIngress(Mac(p), nic[p[1]], f, Reading(p[1]))
  OBVIOUS
<1>3. /\ Arrives(p) /\ WireTail(Peer[p])
      /\ UNCHANGED <<config, now, clock, egress, control, sync>>
  BY DEF Receive, WireTail
<1>4. IF DropFrame(Mac(p), f) THEN UNCHANGED <<nic, ingress>>
      ELSE /\ nic' = [nic EXCEPT ![p[1]] = out.nic]
           /\ ingress' = [ingress EXCEPT ![p] = Append(@, out.frame)]
  BY <1>1, <1>2 DEF Receive
<1>5. Enters(out, f, p, nic[p[1]]) /\ f \in OnWire(config.mechanism, Peer[p])
  BY <1>1, <1>2, <1>3, FirstIn
<1>6. SameOut /\ SameRequests /\ ClocksMove
  BY <1>3, SameClocks DEF SameOut, SameRequests
<1>7. SameMemory
  <2>1. CASE DropFrame(Mac(p), f)
    BY <1>4, <2>1 DEF SameMemory
  <2>2. CASE ~DropFrame(Mac(p), f)
    BY <1>4, <1>5, <2>2, EnterMemory
  <2> QED BY <2>1, <2>2
<1>8. CASE p \in Down
  <2>1. SameOn
    BY <1>3, <1>8, WayDown DEF SameOn, WireTail, Typed, WireTyping
  <2>2. SameIn
    BY <1>4, <1>8, WayDown DEF SameIn, Typed, IngressTyping
  <2>3. Books(L, ent, trans, rec)'
    BY <1>3, <1>6, <1>7, <2>1, <2>2, NothingMoves
  <2> QED BY <2>3
<1>9. CASE p \notin Down
  <2>1. PICK P \in Down : P = Peer[p] /\ wire[P] # <<>>
    BY <1>3, <1>9, WayDown DEF Arrives
  <2>2. PICK W \in Seq(WireT) : W = wire[P] /\ W # <<>>
    BY <2>1, WayDown DEF Typed, WireTyping
  <2>3. PICK a \in FrameT : a = Head(W).frame
    <3>1. Head(W) \in WireT
      BY <2>2
    <3> QED BY <3>1 DEF WireT
  <2>4. PICK h \in FrameT : h = f /\ h.type = a.type /\ h.seq = a.seq
    <3>1. f \in FrameT
      BY <1>5 DEF OnWire
    <3>2. f = [a EXCEPT !.epoch = clock[p[1]].epoch]
      BY <1>1, <2>1, <2>2, <2>3
    <3>3. f.type = a.type /\ f.seq = a.seq
      BY <3>2 DEF FrameT
    <3> QED BY <3>1, <3>3
  <2>5. PICK Q \in Seq(FrameT) : Q = Frames(W) /\ Q # <<>> /\ Head(Q) = a
    BY <2>2, <2>3, FramesOf
  <2>6. PICK two \in BOOLEAN : two = (P \in L.turned)
    <3>1. (P \in L.turned) \in BOOLEAN
      BY WayDown, LedgerTyped DEF Books
    <3> QED BY <3>1, Zenon
  <2>7. PICK m \in MarkT : m = rec[P]
    BY DEF Books, MarksOf
  <2>8. Between(Q, m, trans[P], two)
    BY <2>2, <2>5, <2>6, <2>7 DEF Books, OrderedOn
  <2>9. PICK r : r = Mark(a, m)
    OBVIOUS
  <2>10. /\ Fits(a, m) /\ Between(Tail(Q), r, trans[P], two)
         /\ a.type = "FOLLOW_UP" => two
    BY <2>5, <2>8, <2>9, GoesOut
  <2>11. PICK rec2 : rec2 = [rec EXCEPT ![P] = r]
    OBVIOUS
  <2>12. /\ rec2 \in MarksOf(Down) /\ rec2[P] = r
         /\ \A k \in Down \ {P} : rec2[k] = rec[k]
    <3>1. r \in MarkT
      BY <2>9, <2>10, MarkTyped
    <3> QED BY <2>11, <3>1 DEF Books, MarksOf
  <2>13. OrderedOn(L, trans, rec2)' /\ TrueOn(L)'
    <3>1. Between(Tail(Frames(wire[P])), r, trans[P], P \in L.turned)
      BY <2>2, <2>5, <2>6, <2>10
    <3> QED BY <1>3, <2>1, <2>12, <3>1, WireAt DEF Books
  <2>14. PICK I \in Seq(FrameT) : I = ingress[p]
    BY DEF Typed, IngressTyping
  <2>15. PICK S : S = Held(L, p, clock[p[1]])
    OBVIOUS
  <2>16. Between(I, ent[Onward(p)], m, two) /\ I \in Seq(S)
    BY <1>9, <2>1, <2>6, <2>7, <2>14, <2>15 DEF Books, OrderedIn, TrueIn
  <2>17. InElsewhere(p)
    BY <1>4, <1>9 DEF InElsewhere, Typed, IngressTyping
  <2>18. /\ Between(ingress'[p], ent[Onward(p)], r, two)
         /\ ingress'[p] \in Seq(S)
    <3>1. CASE DropFrame(Mac(p), f)
      <4>1. a.type \notin {"SYNC", "FOLLOW_UP"}
        BY <2>4, <3>1 DEF DropFrame, Delays, PDelays
      <4>2. r = m
        BY <2>9, <4>1, NoMark
      <4>3. ingress'[p] = I
        BY <1>4, <2>14, <3>1
      <4> QED BY <2>16, <4>2, <4>3
    <3>2. CASE ~DropFrame(Mac(p), f)
      <4>1. ingress' = [ingress EXCEPT ![p] = Append(@, out.frame)]
        BY <1>4, <3>2
      <4>2. PICK g \in FrameT : g = out.frame /\ g.type = a.type /\ g.seq = a.seq
        <5>1. Arrived(out.frame, h, p)
          BY <1>5, <2>4 DEF Enters
        <5> QED BY <5>1, <2>4 DEF Arrived
      <4>3. ingress'[p] = Append(I, g)
        BY <4>1, <4>2, <2>14 DEF Typed, IngressTyping
      <4>4. Mark(g, m) = r /\ Fits(g, m)
        BY <4>2, <2>9, <2>10, MarkOf, FitsAlike
      <4>5. Between(Append(I, g), ent[Onward(p)], Mark(g, m), two)
        <5>1. g.type = "FOLLOW_UP" => two
          BY <4>2, <2>10
        <5> QED BY <4>4, <5>1, <2>16, ComesIn
      <4>6. g \in S
        <5>1. L \in LedgerT /\ Ruled(L) /\ TrueOn(L)
          BY DEF Books
        <5>2. out.frame \in Held(L, p, clock[p[1]])
          BY <5>1, <1>1, <1>2, <1>3, <1>9, ArrivesTrue
        <5> QED BY <4>2, <5>2, <2>15
      <4>7. Append(I, g) \in Seq(S)
        BY <4>6, <2>16
      <4> QED BY <4>3, <4>4, <4>5, <4>7
    <3> QED BY <3>1, <3>2
  <2>19. OrderedIn(L, ent, rec2)' /\ TrueIn(L)'
    <3>1. InMarks(ent, ent, rec2, rec, p)
      BY <1>9, <2>1, <2>12, OneAfter, WayDown DEF InMarks
    <3>2. Between(ingress'[p], ent[Onward(p)], rec2[Peer[p]], Peer[p] \in L.turned)
      BY <2>1, <2>6, <2>12, <2>18
    <3>3. ingress'[p] \in Seq(Held(L, p, clock[p[1]]))
      BY <2>15, <2>18
    <3>4. OrderedIn(L, ent, rec) /\ TrueIn(L)
      BY DEF Books
    <3> QED BY <3>1, <3>2, <3>3, <3>4, <1>6, <1>9, <2>17, InAt
  <2>20. /\ Ruled(L)' /\ OrderedOut(L, ent, trans)' /\ TrueOut(L)'
         /\ TrueRequests(L, ent)' /\ TrueStore(L)'
    BY <1>3 DEF Books, Ruled, OrderedOut, TrueOut, TrueRequests, TrueStore
  <2>21. TrueMemory(L, trans)'
    BY <1>7 DEF Books, TrueMemory, SameMemory
  <2>22. Books(L, ent, trans, rec2)'
    BY <2>12, <2>13, <2>19, <2>20, <2>21 DEF Books
  <2> QED BY <2>22
<1> QED BY <1>8, <1>9

-----------------------------------------------------------------------------
(* A frame without a mark leaves the ingress delayer *)

LEMMA AnswerPlain ==
  ASSUME NEW p \in Ports, NEW f \in InIngress(config.mechanism, p), ConfigTyped
  PROVE  Answer(p, f) \in Seq(Plain)
<1>1. PICK S : S = InEgress(config.mechanism, p)
  OBVIOUS
<1>2. S \subseteq FrameT
  BY <1>1, OnWireOnPort
<1>3. PICK A \in Seq(FrameT) : A = Answer(p, f)
  BY <1>1, <1>2, AnswerTyped, SeqOf
<1>4. ASSUME NEW i \in DOMAIN A PROVE A[i] \in Plain
  <2>1. /\ CreateDelayRespFrame(f, p).type = "DELAY_RESP"
        /\ \A b : CreatePDelayRespFrame(f, p, b).type = "PDELAY_RESP"
        /\ CreatePDelayRespFUFrame(f, p).type = "PDELAY_RESP_FU"
    BY DEF CreateDelayRespFrame, CreatePDelayRespFrame, CreatePDelayRespFUFrame, Frame
  <2>2. PICK a, b, c, d : /\ a = CreateDelayRespFrame(f, p)
                          /\ b = CreatePDelayRespFrame(f, p, TRUE)
                          /\ c = CreatePDelayRespFUFrame(f, p)
                          /\ d = CreatePDelayRespFrame(f, p, FALSE)
    OBVIOUS
  <2>3. A \in {<<a>>, <<b, c>>, <<d>>, <<>>}
    BY <1>3, <2>2 DEF Answer, PDelayAnswer
  <2>4. A[i] \in {a, b, c, d}
    BY <2>3, <1>4
  <2>5. A[i].type \in {"DELAY_RESP", "PDELAY_RESP", "PDELAY_RESP_FU"}
    BY <2>1, <2>2, <2>4
  <2>6. A[i] \in FrameT
    BY <1>3
  <2> QED BY <2>5, <2>6 DEF Plain
<1> QED BY <1>3, <1>4, ElementsOf

\* What a port makes of a frame that concerns no Sync of the slave.
LEMMA HandleKeeps ==
  ASSUME Typed, NEW p \in Ports, NEW f, HandlePtpFrame(p, f)
  PROVE  /\ MoreRequests
         /\ ~(p = SlavePort /\ f.type \in {"SYNC", "FOLLOW_UP"}) =>
              UNCHANGED <<clock, sync, sample>>
<1>1. CASE control' = control
  <2>1. MoreRequests
    BY <1>1 DEF MoreRequests
  <2> QED BY <2>1 DEF HandlePtpFrame
<1>2. CASE control' # control
  <2>1. (HandlePDelayResp(p, f) \/ HandlePDelayRespFU(p, f)) /\ UNCHANGED <<clock, sync, sample>>
    BY <1>2 DEF HandlePtpFrame
  <2>2. PICK r : /\ r.what # "TRIG_SFU"
                 /\ control' = [control EXCEPT ![p[1]] = Append(@, r)]
    <3>1. \E d : control' = [control EXCEPT ![p[1]] =
                               Append(@, [what |-> "PATH_DELAY", port |-> p, delay |-> d])]
      BY <1>2, <2>1 DEF HandlePDelayResp, HandlePDelayRespFU, SetPeerDelay
    <3> QED BY <3>1
  <2>3. PICK n \in Nodes : n = p[1]
    BY PortTypes
  <2>4. \A k \in Nodes : control'[k] = IF k = n THEN Append(control[k], r) ELSE control[k]
    BY <2>2, <2>3 DEF Typed, ControlTyped
  <2>5. MoreRequests
    BY <2>2, <2>4, WayUp DEF MoreRequests
  <2> QED BY <2>1, <2>5
<1> QED BY <1>1, <1>2

\* What the stack answers to a frame that is neither Sync nor Follow_Up, and what is sent on.
LEMMA DeliverAnswers ==
  ASSUME Typed, NEW p \in Ports, Deliver(p), Head(ingress[p]).type \notin {"SYNC", "FOLLOW_UP"}
  PROVE  /\ PlainOut /\ MoreRequests /\ Head(ingress[p]) \in Plain
         /\ UNCHANGED <<config, now, nic, wire, clock, sync, sample, used>>
<1>1. PICK f : f = Head(ingress[p])
  OBVIOUS
<1>2. f \in InIngress(config.mechanism, p) /\ f \in FrameT /\ f \in Plain
  BY <1>1, FirstWaiting DEF Deliver, Plain
<1>3. PICK gates : gates = Dispatch(ClockType(p[1]), Gates(p[1]), f.type, GateOf(p[2]))
  OBVIOUS
<1>4. UNCHANGED <<config, now, nic, wire>>
  BY DEF Deliver
<1>5. egress' = [q \in Ports |-> egress[q]
                   \o (IF q[1] = p[1] /\ GateOf(q[2]) \in gates THEN <<f>> ELSE <<>>)
                   \o (IF q = p /\ InternalPort \in gates THEN Answer(p, f) ELSE <<>>)]
  BY <1>1, <1>3 DEF Deliver
<1>6. \/ HandlePtpFrame(p, f)
      \/ UNCHANGED <<clock, sync, control, sample, used>>
  BY <1>1 DEF Deliver
<1>7. UNCHANGED <<clock, sync, sample, used>> /\ MoreRequests
  <2>1. CASE HandlePtpFrame(p, f)
    <3>1. used' = used
      BY <1>1, <2>1 DEF HandlePtpFrame
    <3> QED BY <1>1, <2>1, <3>1, HandleKeeps
  <2>2. CASE UNCHANGED <<clock, sync, control, sample, used>>
    BY <2>2 DEF MoreRequests
  <2> QED BY <1>6, <2>1, <2>2
<1>8. PlainOut
  <2>1. SUFFICES ASSUME NEW q \in Down PROVE \E R \in Seq(Plain) : egress'[q] = egress[q] \o R
    BY DEF PlainOut
  <2>2. PICK a, b :
          /\ a = IF q[1] = p[1] /\ GateOf(q[2]) \in gates THEN <<f>> ELSE <<>>
          /\ b = IF q = p /\ InternalPort \in gates THEN Answer(p, f) ELSE <<>>
    OBVIOUS
  <2>3. a \in Seq(Plain)
    <3>1. <<f>> \in Seq(Plain)
      BY <1>2
    <3> QED BY <3>1, <2>2
  <2>4. b \in Seq(Plain)
    <3>1. Answer(p, f) \in Seq(Plain)
      BY <1>2, AnswerPlain DEF Typed
    <3> QED BY <3>1, <2>2
  <2>5. PICK Q \in Seq(FrameT) : Q = egress[q]
    BY WayDown DEF Typed, EgressTyping
  <2>6. egress'[q] = Q \o a \o b
    BY <1>5, <2>2, <2>5, WayDown
  <2>7. a \in Seq(FrameT) /\ b \in Seq(FrameT)
    BY <2>3, <2>4, SeqOf DEF Plain
  <2>8. Q \o a \o b = Q \o (a \o b)
    BY <2>7
  <2>9. a \o b \in Seq(Plain)
    BY <2>3, <2>4
  <2> QED BY <2>5, <2>6, <2>8, <2>9
<1> QED BY <1>1, <1>2, <1>4, <1>7, <1>8

LEMMA DeliverPlain ==
  ASSUME Typed, NEW L, NEW ent, NEW trans, NEW rec, Books(L, ent, trans, rec),
         NEW p \in Ports, Deliver(p), Head(ingress[p]).type \notin {"SYNC", "FOLLOW_UP"}
  PROVE  Books(L, ent, trans, rec)' /\ UNCHANGED <<clock, sample>>
<1>1. /\ ingress[p] # <<>> /\ ingress' = [ingress EXCEPT ![p] = Tail(@)]
      /\ UNCHANGED <<config, now, nic, wire>>
  BY DEF Deliver
<1>2. UNCHANGED <<clock, sync, sample>> /\ MoreRequests
  BY DeliverAnswers
<1>3. PlainOut
  BY DeliverAnswers
<1>4. ClocksMove /\ SameOn /\ SameMemory
  BY <1>1, <1>2, SameClocks DEF SameOn, SameMemory
<1>5. CASE p \in Down
  <2>1. SameIn
    BY <1>1, <1>5 DEF SameIn, Typed, IngressTyping
  <2> QED BY <1>1, <1>2, <1>3, <1>4, <2>1, NothingMoves
<1>6. CASE p \notin Down
  <2>1. OrderedOut(L, ent, trans)' /\ TrueOut(L)'
    BY <1>2, <1>3, <1>4, OutStays DEF Books
  <2>2. PICK S, I : S = Held(L, p, clock[p[1]]) /\ I \in Seq(FrameT) /\ I = ingress[p]
    BY DEF Typed, IngressTyping
  <2>3. Between(I, ent[Onward(p)], rec[Peer[p]], Peer[p] \in L.turned) /\ I \in Seq(S)
    BY <1>6, <2>2 DEF Books, OrderedIn, TrueIn
  <2>4. ingress'[p] = Tail(I) /\ InElsewhere(p) /\ I # <<>>
    BY <1>1, <1>6, <2>2 DEF InElsewhere, Typed, IngressTyping
  <2>5. Between(Tail(I), ent[Onward(p)], rec[Peer[p]], Peer[p] \in L.turned)
    <3>1. PICK lo, hi, two :
            lo = ent[Onward(p)] /\ hi = rec[Peer[p]] /\ two = (Peer[p] \in L.turned)
      OBVIOUS
    <3>2. Between(I, lo, hi, two) /\ I \in Seq(FrameT) /\ I # <<>>
      BY <2>2, <2>3, <2>4, <3>1
    <3>3. Between(Tail(I), lo, hi, two)
      BY <3>2, GetsLost
    <3> QED BY <3>1, <3>3
  <2>6. Tail(I) \in Seq(S)
    BY <2>3, <2>4
  <2>7. OrderedIn(L, ent, rec)' /\ TrueIn(L)'
    <3>1. OrderedIn(L, ent, rec) /\ TrueIn(L)
      BY DEF Books
    <3>2. ingress'[p] \in Seq(Held(L, p, clock[p[1]]))
      BY <2>2, <2>4, <2>6
    <3>3. Between(ingress'[p], ent[Onward(p)], rec[Peer[p]], Peer[p] \in L.turned)
      BY <2>4, <2>5
    <3>4. InMarks(ent, ent, rec, rec, p)
      BY DEF InMarks
    <3> QED BY <3>1, <3>2, <3>3, <3>4, <1>4, <1>6, <2>4, InAt
  <2>8. TrueRequests(L, ent)'
    BY <1>2, RequestsStay DEF Books
  <2>9. /\ Ruled(L)' /\ OrderedOn(L, trans, rec)' /\ TrueOn(L)' /\ TrueMemory(L, trans)'
        /\ TrueStore(L)'
    BY <1>1, <1>2 DEF Books, Ruled, OrderedOn, TrueOn, TrueMemory, TrueStore
  <2>10. Books(L, ent, trans, rec)'
    BY <2>1, <2>7, <2>8, <2>9 DEF Books
  <2> QED BY <1>2, <2>10
<1> QED BY <1>5, <1>6

-----------------------------------------------------------------------------
(* A transparent clock sends a Sync or Follow_Up on *)

LEMMA RequestsAt ==
  ASSUME NEW L, NEW ent, TrueRequests(L, ent), NEW k \in Inner, SameRequests, NEW ent2,
         \A p \in Inner : p # k => ent2[p] = ent[p],
         Asks(L, k, control[k[1]], ent2[k].f)
  PROVE  TrueRequests(L, ent2)'
BY DEF TrueRequests, SameRequests

\* The queue that a Sync or Follow_Up enters on its way through a transparent clock.
LEMMA OnwardQueues ==
  ASSUME Typed, NEW p \in Ports \ Down, p # SlavePort, Deliver(p),
         NEW f \in FrameT, f = Head(ingress[p]), f.type \in {"SYNC", "FOLLOW_UP"},
         NEW k \in Inner, k = Onward(p), NEW Q \in Seq(FrameT), Q = egress[k]
  PROVE  /\ egress'[k] = Append(Q, f) /\ OutElsewhere(k)
         /\ UNCHANGED <<config, now, nic, wire, clock, sync, control, sample, used>>
<1>1. /\ k \in Down /\ k # MasterPort /\ k # p /\ k[1] = p[1]
      /\ ClockType(p[1]) = "TRANSPARENT" /\ k \in Ports
      /\ \A q \in Down : q[1] = p[1] => q = k
  BY WayOn, WayUp, WayDown
<1>2. PICK gates : gates = Dispatch(ClockType(p[1]), Gates(p[1]), f.type, GateOf(p[2]))
  OBVIOUS
<1>3. UNCHANGED <<config, now, nic, wire>>
  BY DEF Deliver
<1>4. egress' = [q \in Ports |-> egress[q]
                   \o (IF q[1] = p[1] /\ GateOf(q[2]) \in gates THEN <<f>> ELSE <<>>)
                   \o (IF q = p /\ InternalPort \in gates THEN Answer(p, f) ELSE <<>>)]
  BY <1>2 DEF Deliver
<1>5. UNCHANGED <<clock, sync, control, sample, used>>
  BY DEF Deliver, HandlePtpFrame, HandlePDelayResp, HandlePDelayRespFU
<1>6. GateOf(k[2]) \in gates
  <2>1. /\ k[2] \in Nat /\ p[2] \in Nat /\ p = <<p[1], p[2]>> /\ k = <<k[1], k[2]>>
    BY <1>1, NetworkAssumption
  <2>2. GateOf(k[2]) = k[2] + 1 /\ GateOf(p[2]) = p[2] + 1
    BY <2>1 DEF GateOf, InternalPort
  <2>3. k[2] # p[2]
    BY <1>1, <2>1
  <2>4. GateOf(k[2]) # GateOf(p[2])
    BY <2>1, <2>2, <2>3
  <2>5. GateOf(k[2]) \in Gates(p[1])
    BY <1>1 DEF Gates, PortsOf
  <2>6. gates = Gates(p[1]) \ {GateOf(p[2])}
    BY <1>1, <1>2 DEF Dispatch
  <2> QED BY <2>4, <2>5, <2>6
<1>7. egress'[k] = Append(Q, f)
  <2>1. egress'[k] = Q \o <<f>> \o <<>>
    BY <1>1, <1>4, <1>6
  <2>2. Q \o <<f>> \o <<>> = Append(Q, f)
    OBVIOUS
  <2> QED BY <2>1, <2>2
<1>8. OutElsewhere(k)
  <2>1. SUFFICES ASSUME NEW q \in Down \ {k} PROVE egress'[q] = egress[q]
    BY DEF OutElsewhere
  <2>2. q \in Ports /\ q[1] # p[1] /\ q # p
    BY <1>1, WayDown
  <2>3. egress'[q] = egress[q] \o <<>> \o <<>>
    BY <1>4, <2>2
  <2>4. egress[q] \in Seq(FrameT)
    BY <2>2 DEF Typed, EgressTyping
  <2> QED BY <2>3, <2>4
<1> QED BY <1>3, <1>5, <1>7, <1>8

LEMMA DeliverOnward ==
  ASSUME Typed, NEW L, NEW ent, NEW trans, NEW rec, Books(L, ent, trans, rec),
         NEW p \in Ports \ Down, p # SlavePort, Deliver(p),
         Head(ingress[p]).type \in {"SYNC", "FOLLOW_UP"}
  PROVE  (\E e : Books(L, e, trans, rec)') /\ UNCHANGED <<clock, sample>>
<1>1. PICK f \in FrameT : f = Head(ingress[p]) /\ f.type \in {"SYNC", "FOLLOW_UP"}
  BY FirstWaiting DEF Deliver
<1>2. PICK k \in Inner : /\ k = Onward(p) /\ k \in Down /\ k # MasterPort /\ k # p
                         /\ k[1] = p[1] /\ Up(k) = p /\ Before(k) = Peer[p]
                         /\ ClockType(p[1]) = "TRANSPARENT" /\ k \in Ports
                         /\ \A q \in Down : q[1] = p[1] => q = k
  BY WayOn, WayUp, WayDown
<1>3. /\ ingress[p] # <<>> /\ ingress' = [ingress EXCEPT ![p] = Tail(@)]
      /\ UNCHANGED <<config, now, nic, wire>>
  BY DEF Deliver
<1>4. PICK Q \in Seq(FrameT) : Q = egress[k]
  BY <1>2 DEF Typed, EgressTyping
<1>5. /\ egress'[k] = Append(Q, f) /\ OutElsewhere(k)
      /\ UNCHANGED <<clock, sync, control, sample>>
  BY <1>1, <1>2, <1>4, OnwardQueues
<1>6. PICK I \in Seq(FrameT) : I = ingress[p] /\ I # <<>> /\ f = Head(I)
  BY <1>1, <1>3 DEF Typed, IngressTyping
<1>7. ingress'[p] = Tail(I) /\ InElsewhere(p)
  BY <1>3, <1>6 DEF InElsewhere, Typed, IngressTyping
<1>8. PICK m \in MarkT, r \in MarkT, t \in MarkT :
         m = ent[k] /\ r = rec[Peer[p]] /\ t = trans[k]
  BY <1>2, WayDown DEF Books, MarksOf
<1>9. PICK one \in BOOLEAN : one = (Peer[p] \in L.turned)
  <2>1. (Peer[p] \in L.turned) \in BOOLEAN
    BY PortTypes, LedgerTyped DEF Books
  <2> QED BY <2>1, Zenon
<1>10. PICK two \in BOOLEAN : two = (k \in L.turned)
  <2>1. (k \in L.turned) \in BOOLEAN
    BY <1>2, LedgerTyped DEF Books
  <2> QED BY <2>1, Zenon
<1>11. one => two
  BY <1>2, <1>9, <1>10 DEF Books, Turning
<1>12. Between(I, m, r, one) /\ Between(Q, t, m, two)
  BY <1>2, <1>4, <1>6, <1>8, <1>9, <1>10 DEF Books, OrderedIn, OrderedOut
<1>13. PICK e : e = Mark(f, m)
  OBVIOUS
<1>14. /\ Fits(f, m) /\ Between(Tail(I), e, r, one)
       /\ f.type = "FOLLOW_UP" => one
  BY <1>6, <1>12, <1>13, GoesOut
<1>15. Between(Append(Q, f), t, e, two)
  <2>1. f.type = "FOLLOW_UP" => two
    BY <1>11, <1>14
  <2> QED BY <2>1, <1>12, <1>13, <1>14, ComesIn
<1>16. e \in MarkT /\ (f.type = "SYNC" => e.f = m.f)
  BY <1>13, <1>14, MarkTyped
<1>17. PICK ent2 : ent2 = [ent EXCEPT ![k] = e]
  OBVIOUS
<1>18. /\ ent2 \in MarksOf(Down \cup {SlavePort}) /\ ent2[k] = e
       /\ \A q \in Down \cup {SlavePort} : q # k => ent2[q] = ent[q]
  BY <1>2, <1>16, <1>17 DEF Books, MarksOf
<1>19. PICK S : S = Held(L, p, clock[p[1]])
  OBVIOUS
<1>20. I \in Seq(S) /\ f \in S /\ Tail(I) \in Seq(S)
  <2>1. I \in Seq(S)
    BY <1>6, <1>19 DEF Books, TrueIn
  <2> QED BY <2>1, <1>6
<1>21. ToLeave(L, k, clock[k[1]]) = S
  BY <1>2, <1>19 DEF ToLeave
<1>22. Q \in Seq(S)
  BY <1>2, <1>4, <1>21 DEF Books, TrueOut
<1>23. OrderedOut(L, ent2, trans)' /\ TrueOut(L)'
  <2>1. egress'[k] \in Seq(ToLeave(L, k, clock[k[1]]))
    <3>1. Append(Q, f) \in Seq(S)
      BY <1>20, <1>22
    <3> QED BY <3>1, <1>5, <1>21
  <2>2. Between(egress'[k], trans[k], ent2[k], k \in L.turned)
    BY <1>5, <1>8, <1>10, <1>15, <1>18
  <2>3. k \in Inner /\ Before(k) \notin L.turned => ent2[k].f <= trans[k].s
    <3>1. SUFFICES ASSUME Before(k) \notin L.turned PROVE e.f <= t.s
      BY <1>8, <1>18
    <3>2. f.type = "SYNC"
      BY <1>1, <1>2, <1>9, <1>14, <3>1
    <3>3. m.f <= t.s
      BY <1>8, <3>1 DEF Books, OrderedOut
    <3> QED BY <1>16, <3>2, <3>3
  <2>4. ent2[MasterPort].s < sync'[MasterPort].sequId
    BY <1>2, <1>5, <1>18, WayDown DEF Books, OrderedOut
  <2>5. OrderedOut(L, ent, trans) /\ TrueOut(L)
    BY DEF Books
  <2>6. Elsewhere(ent2, ent, k) /\ Elsewhere(trans, trans, k)
    BY <1>18 DEF Elsewhere
  <2>7. clock' = clock /\ k \in Down
    BY <1>2, <1>5
  <2> QED BY <2>1, <2>2, <2>3, <2>4, <2>5, <2>6, <2>7, <1>5, OutAt
<1>24. OrderedIn(L, ent2, rec)' /\ TrueIn(L)'
  <2>1. OrderedIn(L, ent, rec) /\ TrueIn(L)
    BY DEF Books
  <2>2. InMarks(ent2, ent, rec, rec, p)
    BY <1>2, <1>18, OneAfter, WayDown DEF InMarks
  <2>3. Between(ingress'[p], ent2[Onward(p)], rec[Peer[p]], Peer[p] \in L.turned)
    BY <1>2, <1>7, <1>8, <1>9, <1>14, <1>18
  <2>4. ingress'[p] \in Seq(Held(L, p, clock[p[1]]))
    BY <1>7, <1>19, <1>20
  <2>5. ClocksMove
    BY <1>5, SameClocks
  <2>6. InElsewhere(p)
    BY <1>7
  <2> QED BY <2>1, <2>2, <2>3, <2>4, <2>5, <2>6, InAt
<1>25. TrueRequests(L, ent2)'
  <2>1. Asks(L, k, control[k[1]], m.f)
    BY <1>8 DEF Books, TrueRequests
  <2>2. Asks(L, k, control[k[1]], e.f)
    <3>1. CASE f.type = "SYNC"
      BY <1>16, <2>1, <3>1
    <3>2. CASE f.type = "FOLLOW_UP"
      <4>1. Before(k) \in L.turned
        BY <1>2, <1>9, <1>14, <3>2
      <4>2. \A d : Asked(L, k, d) = {}
        BY <4>1 DEF Asked
      <4> QED BY <2>1, <4>2 DEF Asks
    <3> QED BY <1>1, <3>1, <3>2
  <2>3. SameRequests /\ TrueRequests(L, ent)
    BY <1>5 DEF SameRequests, Books
  <2>4. \A q \in Inner : q # k => ent2[q] = ent[q]
    BY <1>18, WayDown
  <2> QED BY <1>18, <2>2, <2>3, <2>4, RequestsAt
<1>26. /\ Ruled(L)' /\ OrderedOn(L, trans, rec)' /\ TrueOn(L)' /\ TrueMemory(L, trans)'
       /\ TrueStore(L)'
  BY <1>3, <1>5 DEF Books, Ruled, OrderedOn, TrueOn, TrueMemory, TrueStore
<1>27. Books(L, ent2, trans, rec)'
  BY <1>18, <1>23, <1>24, <1>25, <1>26 DEF Books
<1> QED BY <1>5, <1>27

-----------------------------------------------------------------------------
(* The slave uses a Sync *)

\* What a slave computes of a true time stamp, of the time at which the Sync left the
\* master and of all its corrections, is its offset but for the error of the delay.
LEMMA SampleTrue ==
  ASSUME NEW L \in LedgerT, Ruled(L), NEW P, P = Peer[SlavePort],
         NEW c \in [offset : Int, epoch : Nat], NEW seq \in Nat, NEW corr \in Int,
         NEW stamp \in TimeT, Stamped(L, SlavePort, seq, corr, stamp, c),
         stamp.epoch = c.epoch,
         NEW origin, origin = L.sent[seq] + Start[MasterPort[1]],
         NEW due, due = L.due[P][seq], NEW est \in Int, NEW linkEst \in Int
  PROVE  OffsetFromMaster(stamp.time, origin, IF E2E THEN est ELSE linkEst, corr, due)
           - (c.offset - Start[MasterPort[1]])
           - (IF E2E THEN PathDelay - est ELSE MeanDelay[SlavePort] - linkEst) = 0
<1>1. P \in Down /\ Peer[P] = SlavePort /\ P \in Ports /\ SlavePort \in Ports
  BY WayDown
<1>2. PICK s \in Int, d \in Int, t \in Int, o \in Int, b \in Int :
        s = L.sent[seq] /\ d = due /\ t = stamp.time /\ o = c.offset
        /\ b = Start[MasterPort[1]]
  <2>1. L.sent[seq] \in Int /\ due \in Int
    BY <1>1, LedgerTyped
  <2>2. stamp.time \in Int /\ c.offset \in Int /\ Start[MasterPort[1]] \in Int
    BY PortTypes, NetworkAssumption DEF TimeT
  <2> QED BY <2>1, <2>2
<1>3. PICK link \in Int, mean \in Int, a \in Int, far \in Int, path \in Int :
        /\ link = LinkDelay[P] /\ mean = MeanDelay[SlavePort] /\ a = Asymmetry[SlavePort]
        /\ far = Far[P[1]] /\ path = PathDelay
  <2>1. P[1] \in Nodes /\ SlavePort[1] \in Nodes
    BY <1>1, PortTypes
  <2>2. LinkDelay[P] \in Int /\ MeanDelay[SlavePort] \in Int /\ Asymmetry[SlavePort] \in Int
    BY <1>1, NetworkAssumption
  <2>3. Far[P[1]] \in Int /\ PathDelay \in Int
    BY <2>1, NetworkAssumption DEF PathDelay
  <2> QED BY <2>2, <2>3
<1>4. link = mean + a
  BY <1>1, <1>3, NetworkAssumption
<1>5. path = far + mean
  <2>1. Far[Peer[P][1]] = Far[P[1]] + MeanDelay[P]
    BY <1>1, NetworkAssumption
  <2>2. MeanDelay[Peer[P]] = MeanDelay[P]
    BY <1>1, NetworkAssumption
  <2> QED BY <1>1, <1>3, <2>1, <2>2 DEF PathDelay
<1>6. Added(L, SlavePort) = a
  BY <1>3, WayDown DEF Added
<1>7. t - o - link + a - s - corr - d = IF E2E THEN far ELSE 0
  <2>1. Timed(L, P, seq, corr, stamp.time - c.offset - LinkDelay[P] + Added(L, SlavePort))
    BY DEF Stamped
  <2>2. Base(L, P) = IF E2E THEN far ELSE 0
    BY <1>3 DEF Base, Ruled, E2E
  <2> QED BY <2>1, <2>2, <1>2, <1>3, <1>6 DEF Timed
<1>8. CASE E2E
  <2>1. t - (s + b) - est - corr - d - (o - b) - (path - est) = 0
    BY <1>4, <1>5, <1>7, <1>8
  <2> QED BY <2>1, <1>2, <1>3, <1>8 DEF OffsetFromMaster
<1>9. CASE ~E2E
  <2>1. t - (s + b) - linkEst - corr - d - (o - b) - (mean - linkEst) = 0
    BY <1>4, <1>7, <1>9
  <2> QED BY <2>1, <1>2, <1>3, <1>9 DEF OffsetFromMaster
<1> QED BY <1>8, <1>9

\* What the slave takes for the truth.
ErrorOf(raw) ==
  raw - (clock[SlavePort[1]].offset - clock[MasterPort[1]].offset)
    - (IF E2E THEN PathDelay - estimate ELSE MeanDelay[SlavePort] - portEstimate[SlavePort])

LEMMA Synchronizes ==
  ASSUME Typed, NEW f \in FrameT, NEW raw \in Int, NEW clean \in BOOLEAN,
         \/ LET H(d) == IF E2E THEN DelayHandleSync(d, f) ELSE d
            IN  Synchronize(raw, clean, H)
         \/ LET H(d) == IF E2E THEN DelayHandleFollowUp(d, f) ELSE d
            IN  Synchronize(raw, clean, H)
  PROVE  /\ sample' = Judged(ErrorOf(raw), clean)
         /\ ClocksMove /\ clock'[MasterPort[1]] = clock[MasterPort[1]]
<1>1. sample' = Judged(ErrorOf(raw), clean)
  BY DEF Synchronize, ErrorOf
<1>2. clock' = clock \/ Jump(SlavePort[1], -raw)
  BY Zenon DEF Synchronize
<1>3. CASE clock' = clock
  BY <1>1, <1>3, SameClocks
<1>4. CASE Jump(SlavePort[1], -raw)
  <2>1. -raw \in Int /\ SlavePort[1] \in Nodes \ {MasterPort[1]}
    BY PortTypes, NetworkAssumption
  <2> QED BY <1>1, <1>4, <2>1, JumpMoves
<1> QED BY <1>2, <1>3, <1>4

LEMMA SlaveSync ==
  ASSUME Typed, OffsetIsTrue, clock[MasterPort[1]].offset = Start[MasterPort[1]],
         NEW L \in LedgerT, Ruled(L), Passing(L), TrueStore(L),
         NEW f \in Held(L, SlavePort, clock[SlavePort[1]]), f.type = "SYNC", HandleSync(f)
  PROVE  /\ OffsetIsTrue' /\ ClocksMove /\ clock'[MasterPort[1]] = clock[MasterPort[1]]
         /\ sync'[MasterPort] = sync[MasterPort] /\ TrueStore(L)'
<1>1. PICK P \in Down : P = Peer[SlavePort]
  BY WayDown
<1>2. PICK n \in Nodes, c \in [offset : Int, epoch : Nat] : n = SlavePort[1] /\ c = clock[n]
  BY PortTypes DEF Typed, ClocksTyped
<1>3. PICK s \in SyncT : s = sync[SlavePort]
  BY DEF Typed, ServicesTyped
<1>4. /\ f \in FrameT /\ FrameOK(L, P, f)
      /\ f.clean => Stamped(L, SlavePort, f.seq, f.corr, f.stamp, c)
  BY <1>1, <1>2 DEF Held
<1>5. /\ f.stamp \in TimeT /\ f.corr \in Int /\ f.seq \in Nat /\ f.clean \in BOOLEAN
      /\ f.origin \in Int /\ f.stamp.time \in Int /\ f.twoStep \in BOOLEAN
  BY <1>4 DEF FrameT, TimeT
<1>6. f.seq \in L.passed[P] /\ f.twoStep = (P \in L.turned)
  BY <1>4 DEF FrameOK
<1>7. sync' = [sync EXCEPT ![SlavePort] = SyncStored(s, f)]
  BY <1>3 DEF HandleSync
<1>8. sync'[MasterPort] = sync[MasterPort] /\ sync'[SlavePort] = SyncStored(s, f)
  BY <1>7, PortTypes DEF Typed, ServicesTyped
<1>9. SyncStored(s, f) \in SyncT /\ Stored(L, SyncStored(s, f), c)
  <2>1. SyncStored(s, f) \in SyncT
    <3>1. f.seq \in Int
      BY <1>5
    <3> QED BY <1>5, <3>1 DEF SyncStored, SyncT
  <2>2. CASE f.twoStep
    <3>1. PICK v : v = SyncStored(s, f)
      OBVIOUS
    <3>2. v.clean = f.clean /\ v.syncSequID = f.seq /\ v.syncCorr = f.corr
          /\ v.syncIngress = f.stamp
      BY <2>2, <3>1 DEF SyncStored, SyncT
    <3>3. Stored(L, v, c)
      BY <1>1, <1>4, <1>6, <3>2 DEF Stored
    <3> QED BY <2>1, <3>1, <3>3
  <2>3. CASE ~f.twoStep
    <3>1. Stored(L, s, c)
      BY <1>2, <1>3 DEF TrueStore
    <3>2. SyncStored(s, f) = s
      BY <2>3 DEF SyncStored
    <3> QED BY <3>1, <3>2
  <2> QED BY <2>2, <2>3, <1>5
<1>10. CASE f.twoStep
  <2>1. ~Associated(sync[SlavePort], f)
    BY <1>10 DEF Associated
  <2>2. UNCHANGED <<clock, sample>>
    BY <2>1 DEF HandleSync
  <2>3. TrueStore(L)'
    BY <1>2, <1>8, <1>9, <2>2 DEF TrueStore
  <2> QED BY <1>8, <2>2, <2>3, SameClocks DEF OffsetIsTrue
<1>11. CASE ~f.twoStep
  <2>1. Associated(sync[SlavePort], f)
    BY <1>11 DEF Associated
  <2>2. PICK est \in Int, linkEst \in Int, z \in Int :
          est = estimate /\ linkEst = portEstimate[SlavePort] /\ z = 0
    BY PortTypes DEF Typed, ResultsTyped
  <2>3. PICK raw \in Int :
          raw = OffsetFromMaster(f.stamp.time, f.origin, IF E2E THEN est ELSE linkEst,
                                 f.corr, z)
    <3>1. PICK d \in Int : d = IF E2E THEN est ELSE linkEst
      OBVIOUS
    <3> QED BY <1>5, <3>1, OffsetTyped
  <2>4. PICK clean \in BOOLEAN : clean = (f.clean /\ f.stamp.epoch = clock[SlavePort[1]].epoch)
    OBVIOUS
  <2>5. LET H(d) == IF E2E THEN DelayHandleSync(d, f) ELSE d IN Synchronize(raw, clean, H)
    BY <2>1, <2>2, <2>3, <2>4, Zenon DEF HandleSync
  <2>6. /\ sample' = Judged(ErrorOf(raw), clean)
        /\ ClocksMove /\ clock'[MasterPort[1]] = clock[MasterPort[1]]
    BY <1>4, <2>5, Synchronizes
  <2>7. ASSUME clean PROVE ErrorOf(raw) = 0
    <3>1. Stamped(L, SlavePort, f.seq, f.corr, f.stamp, c) /\ f.stamp.epoch = c.epoch
      BY <1>2, <1>4, <2>4, <2>7
    <3>2. f.origin = L.sent[f.seq] + Start[MasterPort[1]]
      BY <1>4, <1>6, <1>11 DEF FrameOK, TrueStart
    <3>3. z = L.due[P][f.seq]
      BY <1>6, <1>11, <2>2 DEF Passing
    <3>4. PICK seq \in Nat, corr \in Int, stamp \in TimeT, origin \in Int :
            seq = f.seq /\ corr = f.corr /\ stamp = f.stamp /\ origin = f.origin
      BY <1>5
    <3>5. OffsetFromMaster(stamp.time, origin, IF E2E THEN est ELSE linkEst, corr, z)
            - (c.offset - Start[MasterPort[1]])
            - (IF E2E THEN PathDelay - est ELSE MeanDelay[SlavePort] - linkEst) = 0
      BY <1>1, <3>1, <3>2, <3>3, <3>4, SampleTrue
    <3> QED BY <1>2, <2>2, <2>3, <3>4, <3>5 DEF ErrorOf
  <2>8. OffsetIsTrue'
    BY <2>6, <2>7 DEF OffsetIsTrue, Judged
  <2>9. TrueStore(L)'
    <3>1. Moves(c, clock'[n])
      BY <1>2, <2>6 DEF ClocksMove
    <3> QED BY <1>2, <1>8, <1>9, <3>1, StoredStays DEF TrueStore
  <2> QED BY <1>8, <2>6, <2>8, <2>9
<1> QED BY <1>5, <1>10, <1>11

LEMMA SlaveFollowUp ==
  ASSUME Typed, OffsetIsTrue, clock[MasterPort[1]].offset = Start[MasterPort[1]],
         NEW L \in LedgerT, Ruled(L), TrueStore(L),
         NEW f \in Held(L, SlavePort, clock[SlavePort[1]]), f.type = "FOLLOW_UP",
         HandleFollowUp(f)
  PROVE  /\ OffsetIsTrue' /\ ClocksMove /\ clock'[MasterPort[1]] = clock[MasterPort[1]]
         /\ sync' = sync /\ TrueStore(L)'
<1>1. PICK P \in Down : P = Peer[SlavePort]
  BY WayDown
<1>2. PICK n \in Nodes, c \in [offset : Int, epoch : Nat] : n = SlavePort[1] /\ c = clock[n]
  BY PortTypes DEF Typed, ClocksTyped
<1>3. PICK s \in SyncT : s = sync[SlavePort]
  BY DEF Typed, ServicesTyped
<1>4. f \in FrameT /\ FrameOK(L, P, f) /\ Stored(L, s, c)
  BY <1>1, <1>2, <1>3 DEF Held, TrueStore
<1>5. /\ s.syncIngress \in TimeT /\ s.syncIngress.time \in Int /\ s.syncCorr \in Int
      /\ s.clean \in BOOLEAN /\ f.origin \in Int /\ f.corr \in Int /\ f.seq \in Nat
  BY <1>4 DEF FrameT, TimeT, SyncT
<1>6. sync' = sync
  BY DEF HandleFollowUp
<1>7. CASE ~Associated(sync[SlavePort], f)
  <2>1. UNCHANGED <<clock, sample>>
    BY <1>7 DEF HandleFollowUp
  <2> QED BY <1>6, <2>1, SameClocks DEF OffsetIsTrue, TrueStore
<1>8. CASE Associated(sync[SlavePort], f)
  <2>1. f.seq = s.syncSequID
    BY <1>3, <1>8 DEF Associated
  <2>2. PICK est \in Int, linkEst \in Int :
          est = estimate /\ linkEst = portEstimate[SlavePort]
    BY PortTypes DEF Typed, ResultsTyped
  <2>3. PICK raw \in Int :
          raw = OffsetFromMaster(s.syncIngress.time, f.origin,
                                 IF E2E THEN est ELSE linkEst, s.syncCorr, f.corr)
    <3>1. PICK d \in Int : d = IF E2E THEN est ELSE linkEst
      OBVIOUS
    <3> QED BY <1>5, <3>1, OffsetTyped
  <2>4. PICK clean \in BOOLEAN :
          clean = (s.clean /\ s.syncIngress.epoch = clock[SlavePort[1]].epoch)
    OBVIOUS
  <2>5. LET H(d) == IF E2E THEN DelayHandleFollowUp(d, f) ELSE d
        IN  Synchronize(raw, clean, H)
    BY <1>3, <1>8, <2>2, <2>3, <2>4, Zenon DEF HandleFollowUp
  <2>6. /\ sample' = Judged(ErrorOf(raw), clean)
        /\ ClocksMove /\ clock'[MasterPort[1]] = clock[MasterPort[1]]
    BY <1>4, <2>5, Synchronizes
  <2>7. ASSUME clean PROVE ErrorOf(raw) = 0
    <3>1. /\ Stamped(L, SlavePort, f.seq, s.syncCorr, s.syncIngress, c)
          /\ s.syncIngress.epoch = c.epoch /\ f.seq \in L.passed[P]
      BY <1>1, <1>2, <1>4, <2>1, <2>4, <2>7 DEF Stored
    <3>2. f.origin = L.sent[f.seq] + Start[MasterPort[1]] /\ f.corr = L.due[P][f.seq]
      BY <1>4, <3>1 DEF FrameOK, TrueStart
    <3>3. PICK seq \in Nat, corr \in Int, stamp \in TimeT, due \in Int, origin \in Int :
            seq = f.seq /\ corr = s.syncCorr /\ stamp = s.syncIngress /\ due = f.corr
            /\ origin = f.origin
      BY <1>5
    <3>4. OffsetFromMaster(stamp.time, origin, IF E2E THEN est ELSE linkEst, corr, due)
            - (c.offset - Start[MasterPort[1]])
            - (IF E2E THEN PathDelay - est ELSE MeanDelay[SlavePort] - linkEst) = 0
      BY <1>1, <3>1, <3>2, <3>3, SampleTrue
    <3> QED BY <1>2, <2>2, <2>3, <3>3, <3>4 DEF ErrorOf
  <2>8. OffsetIsTrue'
    BY <2>6, <2>7 DEF OffsetIsTrue, Judged
  <2>9. TrueStore(L)'
    <3>1. Moves(c, clock'[n])
      BY <1>2, <2>6 DEF ClocksMove
    <3>2. Stored(L, s, clock'[n])
      BY <1>4, <3>1, StoredStays
    <3> QED BY <1>2, <1>3, <1>6, <3>2 DEF TrueStore
  <2> QED BY <1>6, <2>6, <2>8, <2>9
<1> QED BY <1>7, <1>8

LEMMA DeliverToSlave ==
  ASSUME Typed, OffsetIsTrue, clock[MasterPort[1]].offset = Start[MasterPort[1]],
         NEW L, NEW ent, NEW trans, NEW rec, Books(L, ent, trans, rec),
         Deliver(SlavePort), Head(ingress[SlavePort]).type \in {"SYNC", "FOLLOW_UP"}
  PROVE  /\ \E e : Books(L, e, trans, rec)'
         /\ OffsetIsTrue' /\ clock'[MasterPort[1]] = clock[MasterPort[1]]
<1>1. PICK p \in Ports \ Down : p = SlavePort /\ Onward(p) = p /\ p \notin Inner
  BY WayDown
<1>2. PICK I \in Seq(FrameT), f \in FrameT :
        /\ I = ingress[p] /\ I # <<>> /\ f = Head(I)
        /\ f.type \in {"SYNC", "FOLLOW_UP"}
  <2>1. ingress[p] \in Seq(FrameT) /\ ingress[p] # <<>>
    BY <1>1 DEF Typed, IngressTyping, Deliver
  <2> QED BY <1>1, <2>1, FirstWaiting
<1>3. /\ UNCHANGED <<config, now, nic, wire>>
      /\ ingress' = [ingress EXCEPT ![p] = Tail(@)]
  BY <1>1 DEF Deliver
<1>4. Dispatch(ClockType(p[1]), Gates(p[1]), f.type, GateOf(p[2])) = {InternalPort}
  BY <1>1, WayDown DEF Dispatch
<1>5. HandlePtpFrame(p, f)
  BY <1>1, <1>2, <1>4 DEF Deliver
<1>6. control' = control
  BY <1>2, <1>5 DEF HandlePtpFrame
<1>7. \/ f.type = "SYNC" /\ HandleSync(f)
      \/ f.type = "FOLLOW_UP" /\ HandleFollowUp(f)
  BY <1>1, <1>2, <1>5 DEF HandlePtpFrame, Concerns
<1>8. SameOut
  <2>1. SUFFICES ASSUME NEW q \in Down PROVE egress'[q] = egress[q]
    BY DEF SameOut
  <2>2. q \in Ports /\ q[1] # p[1] /\ q # p
    BY <1>1, WayDown
  <2>3. egress'[q] = egress[q] \o <<>> \o <<>>
    BY <1>1, <1>2, <2>2 DEF Deliver
  <2>4. egress[q] \in Seq(FrameT)
    BY <2>2 DEF Typed, EgressTyping
  <2> QED BY <2>3, <2>4
<1>9. ingress'[p] = Tail(I) /\ InElsewhere(p)
  BY <1>2, <1>3 DEF InElsewhere, Typed, IngressTyping
<1>10. PICK S : S = Held(L, p, clock[p[1]])
  OBVIOUS
<1>11. I \in Seq(S) /\ f \in S /\ Tail(I) \in Seq(S)
  <2>1. I \in Seq(S)
    BY <1>2, <1>10 DEF Books, TrueIn
  <2> QED BY <2>1, <1>2
<1>12. /\ OffsetIsTrue' /\ ClocksMove /\ clock'[MasterPort[1]] = clock[MasterPort[1]]
       /\ sync'[MasterPort] = sync[MasterPort] /\ TrueStore(L)'
  <2>1. L \in LedgerT /\ Ruled(L) /\ Passing(L) /\ TrueStore(L)
    BY DEF Books
  <2>2. f \in Held(L, SlavePort, clock[SlavePort[1]])
    BY <1>1, <1>10, <1>11
  <2>3. CASE f.type = "SYNC" /\ HandleSync(f)
    BY <2>1, <2>2, <2>3, SlaveSync
  <2>4. CASE f.type = "FOLLOW_UP" /\ HandleFollowUp(f)
    BY <2>1, <2>2, <2>4, SlaveFollowUp
  <2> QED BY <1>7, <2>3, <2>4
<1>13. PICK m \in MarkT, r \in MarkT : m = ent[p] /\ r = rec[Peer[p]]
  BY <1>1, WayDown DEF Books, MarksOf
<1>14. PICK one \in BOOLEAN : one = (Peer[p] \in L.turned)
  <2>1. (Peer[p] \in L.turned) \in BOOLEAN
    BY PortTypes, LedgerTyped DEF Books
  <2> QED BY <2>1, Zenon
<1>15. PICK e : e = Mark(f, m)
  OBVIOUS
<1>16. Fits(f, m) /\ Between(Tail(I), e, r, one) /\ e \in MarkT
  <2>1. Between(I, m, r, one)
    BY <1>1, <1>2, <1>13, <1>14 DEF Books, OrderedIn
  <2> QED BY <2>1, <1>2, <1>15, GoesOut, MarkTyped
<1>17. PICK ent2 : ent2 = [ent EXCEPT ![p] = e]
  OBVIOUS
<1>18. /\ ent2 \in MarksOf(Down \cup {SlavePort}) /\ ent2[p] = e
       /\ \A q \in Down \cup {SlavePort} : q # p => ent2[q] = ent[q]
       /\ \A q \in Down : ent2[q] = ent[q]
  BY <1>1, <1>16, <1>17 DEF Books, MarksOf
<1>19. OrderedOut(L, ent2, trans)' /\ TrueOut(L)'
  <2>1. OrderedOut(L, ent, trans)' /\ TrueOut(L)'
    BY <1>8, <1>12, OutStays DEF Books
  <2> QED BY <2>1, <1>18, WayDown DEF OrderedOut
<1>20. OrderedIn(L, ent2, rec)' /\ TrueIn(L)'
  <2>1. OrderedIn(L, ent, rec) /\ TrueIn(L)
    BY DEF Books
  <2>2. InMarks(ent2, ent, rec, rec, p)
    BY <1>1, <1>18, OneAfter, WayDown DEF InMarks
  <2>3. Between(ingress'[p], ent2[Onward(p)], rec[Peer[p]], Peer[p] \in L.turned)
    BY <1>1, <1>9, <1>13, <1>14, <1>16, <1>18
  <2>4. ingress'[p] \in Seq(Held(L, p, clock[p[1]]))
    BY <1>9, <1>10, <1>11
  <2> QED BY <2>1, <2>2, <2>3, <2>4, <1>9, <1>12, InAt
<1>21. TrueRequests(L, ent2)'
  <2>1. TrueRequests(L, ent)'
    BY <1>6, RequestsStay DEF Books, SameRequests
  <2> QED BY <2>1, <1>18, WayDown DEF TrueRequests
<1>22. Ruled(L)' /\ OrderedOn(L, trans, rec)' /\ TrueOn(L)' /\ TrueMemory(L, trans)'
  BY <1>3 DEF Books, Ruled, OrderedOn, TrueOn, TrueMemory
<1>23. Books(L, ent2, trans, rec)'
  BY <1>12, <1>18, <1>19, <1>20, <1>21, <1>22 DEF Books
<1> QED BY <1>12, <1>23

\* A port that leads away from the master gets no Sync.
LEMMA NoneBack ==
  ASSUME Typed, NEW p \in Down, ingress[p] # <<>>
  PROVE  Head(ingress[p]).type \notin {"SYNC", "FOLLOW_UP"}
<1>1. p \in Ports /\ Peer[p] \notin Down
  BY WayDown
<1>2. Head(ingress[p]) \in InIngress(config.mechanism, p)
  BY <1>1, FirstWaiting
<1> QED BY <1>1, <1>2 DEF InIngress, OnWire, LeavesBy, PDelays

LEMMA DeliverBooked ==
  ASSUME Typed, OffsetIsTrue, clock[MasterPort[1]].offset = Start[MasterPort[1]],
         NEW L, NEW ent, NEW trans, NEW rec, Books(L, ent, trans, rec),
         NEW p \in Ports, Deliver(p)
  PROVE  /\ \E e : Books(L, e, trans, rec)'
         /\ OffsetIsTrue' /\ clock'[MasterPort[1]] = clock[MasterPort[1]]
<1>1. CASE Head(ingress[p]).type \notin {"SYNC", "FOLLOW_UP"}
  <2>1. Books(L, ent, trans, rec)' /\ UNCHANGED <<clock, sample>>
    BY <1>1, DeliverPlain
  <2> QED BY <2>1 DEF OffsetIsTrue
<1>2. CASE Head(ingress[p]).type \in {"SYNC", "FOLLOW_UP"}
  <2>1. p \notin Down
    BY <1>2, NoneBack DEF Deliver
  <2>2. CASE p = SlavePort
    BY <1>2, <2>2, DeliverToSlave
  <2>3. CASE p # SlavePort
    <3>1. (\E e : Books(L, e, trans, rec)') /\ UNCHANGED <<clock, sample>>
      BY <1>2, <2>1, <2>3, DeliverOnward
    <3> QED BY <3>1 DEF OffsetIsTrue
  <2> QED BY <2>2, <2>3
<1> QED BY <1>1, <1>2

-----------------------------------------------------------------------------
(* The stack answers the NIC control *)

\* The first message of a node leaves its queue.
LEMMA AsksTail ==
  ASSUME NEW T, NEW C \in Seq(T), C # <<>>, NEW L \in LedgerT, NEW p, NEW k \in Int,
         Asks(L, p, C, k)
  PROVE  /\ Asks(L, p, Tail(C), k)
         /\ Head(C).what = "TRIG_SFU" =>
              Head(C).frame \in Asked(L, p, k) /\ Asks(L, p, Tail(C), Head(C).frame.seq)
<1>1. PICK D : D = Tail(C)
  OBVIOUS
<1>2. /\ Len(C) \in Nat /\ Len(C) >= 1 /\ DOMAIN C = 1 .. Len(C)
      /\ DOMAIN D = 1 .. (Len(C) - 1) /\ \A i \in DOMAIN D : D[i] = C[i + 1]
      /\ Head(C) = C[1]
  BY <1>1
<1>3. \A i \in DOMAIN D : i \in Int /\ i + 1 \in DOMAIN C /\ 1 < i + 1
  BY <1>2
<1>4. \A i, j \in DOMAIN D : i < j =>
        i + 1 \in DOMAIN C /\ j + 1 \in DOMAIN C /\ i + 1 < j + 1
  BY <1>3
<1>5. Asks(L, p, D, k)
  BY <1>2, <1>3, <1>4 DEF Asks
<1>6. ASSUME C[1].what = "TRIG_SFU"
      PROVE  C[1].frame \in Asked(L, p, k) /\ Asks(L, p, D, C[1].frame.seq)
  <2>1. 1 \in DOMAIN C
    BY <1>2
  <2>2. C[1].frame \in Asked(L, p, k)
    BY <1>6, <2>1 DEF Asks
  <2>3. ASSUME NEW i \in DOMAIN D, D[i].what = "TRIG_SFU"
        PROVE  D[i].frame \in Asked(L, p, C[1].frame.seq)
    <3>1. PICK a, b : a = C[1] /\ b = C[i + 1]
      OBVIOUS
    <3>2. D[i] = b /\ i + 1 \in DOMAIN C /\ 1 < i + 1
      BY <1>2, <1>3, <3>1
    <3>3. b.frame \in Asked(L, p, k) /\ a.frame.seq < b.frame.seq
      BY <1>6, <2>1, <2>3, <3>1, <3>2 DEF Asks
    <3>4. b.frame \in Asked(L, p, a.frame.seq)
      BY <3>3 DEF Asked
    <3> QED BY <3>1, <3>2, <3>4
  <2>4. \A i, j \in DOMAIN D :
          i < j /\ D[i].what = "TRIG_SFU" /\ D[j].what = "TRIG_SFU" =>
            D[i].frame.seq < D[j].frame.seq
    BY <1>5 DEF Asks
  <2> QED BY <2>2, <2>3, <2>4 DEF Asks
<1> QED BY <1>1, <1>2, <1>5, <1>6

\* The NIC control learns of a path delay.
LEMMA UpdateBooked ==
  ASSUME Typed, NEW L, NEW ent, NEW trans, NEW rec, Books(L, ent, trans, rec),
         NEW n \in Nodes, Control(n), Head(control[n]).what # "TRIG_SFU"
  PROVE  Books(L, ent, trans, rec)'
<1>1. /\ control[n] # <<>> /\ control' = [control EXCEPT ![n] = Tail(@)]
      /\ UNCHANGED <<config, now, clock, ingress, wire, sync>>
  BY DEF Control
<1>2. PICK m : m = Head(control[n])
  OBVIOUS
<1>3. m.what = "PATH_DELAY"
  <2>1. m \in Messages(n)
    BY <1>1, <1>2, EmptiedControl DEF Typed
  <2> QED BY <1>2, <2>1 DEF Messages, Requests, Updates
<1>4. egress' = egress /\ nic' = [nic EXCEPT ![n].peerMeanPathDelay[m.port] = m.delay]
  BY <1>2, <1>3 DEF Control
<1>5. SameMemory
  <2>1. SUFFICES ASSUME NEW p \in Down PROVE nic'[p[1]].syncFu = nic[p[1]].syncFu
    BY DEF SameMemory
  <2>2. PICK k \in Nodes : k = p[1]
    BY WayDown
  <2>3. nic[k] \in NicT(k) /\ k \in DOMAIN nic
    BY DEF Typed, NicTyped
  <2>4. nic'[k].syncFu = nic[k].syncFu
    BY <1>4, <2>3 DEF NicT
  <2> QED BY <2>2, <2>4
<1>6. OrderedOut(L, ent, trans)' /\ TrueOut(L)'
  <2>1. SameOut /\ ClocksMove /\ sync'[MasterPort] = sync[MasterPort]
    BY <1>1, <1>4, SameClocks DEF SameOut
  <2> QED BY <2>1, OutStays DEF Books
<1>7. TrueRequests(L, ent)'
  <2>1. SUFFICES ASSUME NEW p \in Inner PROVE Asks(L, p, control'[p[1]], ent[p].f)
    BY DEF TrueRequests
  <2>2. PICK k \in Nodes : k = p[1]
    BY WayUp
  <2>3. PICK C \in Seq(Messages(k)) : C = control[k]
    BY DEF Typed, ControlTyped
  <2>4. Asks(L, p, C, ent[p].f)
    BY <2>2, <2>3 DEF Books, TrueRequests
  <2>5. CASE k # n
    <3>1. control'[k] = C
      BY <1>1, <2>3, <2>5 DEF Typed, ControlTyped
    <3> QED BY <2>2, <2>4, <3>1
  <2>6. CASE k = n
    <3>1. control'[k] = Tail(C) /\ C # <<>>
      BY <1>1, <2>3, <2>6 DEF Typed, ControlTyped
    <3>2. PICK d \in Int : d = ent[p].f
      BY DEF Books, MarksOf, MarkT, Inner
    <3>3. Asks(L, p, Tail(C), d)
      BY <2>4, <3>1, <3>2, AsksTail DEF Books
    <3> QED BY <2>2, <3>1, <3>2, <3>3
  <2> QED BY <2>5, <2>6
<1>8. /\ Ruled(L)' /\ OrderedOn(L, trans, rec)' /\ TrueOn(L)' /\ TrueStore(L)'
      /\ OrderedIn(L, ent, rec)' /\ TrueIn(L)' /\ TrueMemory(L, trans)'
  BY <1>1, <1>5 DEF Books, Ruled, OrderedOn, TrueOn, TrueStore, OrderedIn, TrueIn, TrueMemory,
                    SameMemory
<1> QED BY <1>6, <1>7, <1>8 DEF Books

\* A Follow_Up where none came before moves only the mark of the Follow_Ups.
LEMMA OnlyFollowUps ==
  ASSUME NEW Q, NEW lo, NEW hi, NEW two, two = FALSE, Between(Q, lo, hi, two),
         NEW m \in MarkT, m.s = lo.s
  PROVE  Between(Q, m, hi, two)
<1>1. \A i \in DOMAIN Q : Fits(Q[i], m)
  BY DEF Between, Fits
<1> QED BY <1>1 DEF Between, Behind

\* The NIC control has the stack issue a Follow_Up.
LEMMA TriggerBooked ==
  ASSUME Typed, NEW L, NEW ent, NEW trans, NEW rec, Books(L, ent, trans, rec),
         NEW n \in Nodes, Control(n), Head(control[n]).what = "TRIG_SFU"
  PROVE  \E e : Books(L, e, trans, rec)'
<1>1. /\ control[n] # <<>> /\ control' = [control EXCEPT ![n] = Tail(@)]
      /\ UNCHANGED <<config, now, clock, ingress, wire, sync, nic>>
  BY DEF Control
<1>2. PICK C \in Seq(Messages(n)) : C = control[n] /\ C # <<>>
  BY <1>1 DEF Typed, ControlTyped
<1>3. PICK r \in Requests(n) : r = Head(C) /\ r.what = "TRIG_SFU"
  <2>1. Head(C) \in Messages(n)
    BY <1>2
  <2> QED BY <1>2, <2>1 DEF Messages, Updates
<1>4. PICK k \in Inner : /\ k = r.port /\ k \in Down /\ k # MasterPort /\ k[1] = n
  BY <1>3 DEF Requests, PortsOf, Inner
<1>5. PICK up \in Ports \ Down :
        /\ up = Up(k) /\ Peer[up] = Before(k) /\ Before(k) \in Down
        /\ up # SlavePort /\ Onward(up) = k
        /\ k \in Ports /\ \A q \in Down : q[1] = n => q = k
  BY <1>4, WayUp, WayDown DEF Before
<1>6. PICK s \in FrameT, seq \in Nat : s = r.frame /\ seq = s.seq
  BY <1>3 DEF Requests, FrameT
<1>7. PICK g \in FrameT :
        /\ g = CreateFollowUpFrame(s) /\ g.type = "FOLLOW_UP" /\ g.seq = seq
        /\ g.origin = s.origin /\ g.corr = 0
  BY <1>6, FollowUpOf
<1>8. egress' = [egress EXCEPT ![k] = @ \o <<g>>]
  BY <1>2, <1>3, <1>4, <1>6, <1>7 DEF Control, Issue
<1>9. PICK m \in MarkT, t \in MarkT : m = ent[k] /\ t = trans[k]
  BY <1>4 DEF Books, MarksOf
<1>10. /\ s \in Asked(L, k, m.f) /\ Asks(L, k, Tail(C), seq)
       /\ Asks(L, k, C, m.f)
  <2>1. Asks(L, k, C, m.f)
    BY <1>2, <1>4, <1>9 DEF Books, TrueRequests
  <2>2. m.f \in Int /\ L \in LedgerT
    BY DEF MarkT, Books
  <2> QED BY <1>2, <1>3, <1>6, <2>1, <2>2, AsksTail
<1>11. /\ k \in L.turned /\ Before(k) \notin L.turned /\ seq \in L.passed[k] /\ m.f < seq
       /\ TrueStart(L, s)
  BY <1>6, <1>10 DEF Asked
<1>12. seq <= t.s /\ t.s <= m.s
  <2>1. Between(egress[k], t, m, k \in L.turned)
    BY <1>4, <1>9 DEF Books, OrderedOut
  <2> QED BY <1>4, <1>9, <1>11, <2>1 DEF Books, Counted, Between, Behind
<1>13. PICK e : e = Mark(g, m)
  OBVIOUS
<1>14. e \in MarkT /\ e.s = m.s /\ e.f = seq /\ Fits(g, m)
  <2>1. m.s \in Int /\ m.f \in Int /\ t.s \in Int
    BY DEF MarkT
  <2>2. Fits(g, m)
    BY <1>7, <1>11 DEF Fits
  <2>3. ~(g.seq > m.s)
    BY <1>7, <1>12, <2>1
  <2>4. e = [s |-> m.s, f |-> seq]
    BY <1>7, <1>13, <2>3 DEF Mark
  <2> QED BY <2>2, <2>4, <1>7, <1>13, MarkTyped
<1>15. PICK Q \in Seq(FrameT) : Q = egress[k]
  BY <1>5 DEF Typed, EgressTyping
<1>16. egress'[k] = Append(Q, g) /\ OutElsewhere(k)
  <2>1. egress'[k] = Q \o <<g>> /\ \A q \in Ports : q # k => egress'[q] = egress[q]
    BY <1>5, <1>8, <1>15 DEF Typed, EgressTyping
  <2>2. Q \o <<g>> = Append(Q, g)
    BY <1>7
  <2> QED BY <2>1, <2>2, WayDown DEF OutElsewhere
<1>17. Between(Append(Q, g), t, e, TRUE)
  <2>1. Between(Q, t, m, TRUE)
    BY <1>4, <1>9, <1>11, <1>15 DEF Books, OrderedOut
  <2> QED BY <2>1, <1>7, <1>13, <1>14, ComesIn
<1>18. PICK ent2 : ent2 = [ent EXCEPT ![k] = e]
  OBVIOUS
<1>19. /\ ent2 \in MarksOf(Down \cup {SlavePort}) /\ ent2[k] = e
       /\ \A q \in Down \cup {SlavePort} : q # k => ent2[q] = ent[q]
  BY <1>4, <1>14, <1>18 DEF Books, MarksOf
<1>20. PICK S : S = Held(L, up, clock[n])
  OBVIOUS
<1>21. ToLeave(L, k, clock[k[1]]) = S
  BY <1>4, <1>5, <1>20 DEF ToLeave
<1>22. g \in S
  <2>1. TrueStart(L, g)
    BY <1>6, <1>7, <1>11 DEF TrueStart
  <2>2. seq \in L.passed[Before(k)] => L.due[Before(k)][seq] = 0
    BY <1>5, <1>11 DEF Books, Passing
  <2>3. FrameOK(L, Peer[up], g)
    BY <1>5, <1>7, <2>1, <2>2 DEF FrameOK
  <2> QED BY <1>7, <1>20, <2>3 DEF Held
<1>23. egress'[k] \in Seq(S)
  <2>1. Q \in Seq(S)
    BY <1>4, <1>15, <1>21 DEF Books, TrueOut
  <2>2. Append(Q, g) \in Seq(S)
    BY <1>22, <2>1
  <2> QED BY <1>16, <2>2
<1>24. OrderedOut(L, ent2, trans)' /\ TrueOut(L)'
  <2>1. OrderedOut(L, ent, trans) /\ TrueOut(L)
    BY DEF Books
  <2>2. Elsewhere(ent2, ent, k) /\ Elsewhere(trans, trans, k)
    BY <1>19 DEF Elsewhere
  <2>3. Between(egress'[k], trans[k], ent2[k], k \in L.turned)
    BY <1>9, <1>11, <1>16, <1>17, <1>19
  <2>4. egress'[k] \in Seq(ToLeave(L, k, clock[k[1]]))
    BY <1>21, <1>23
  <2>5. k \in Inner /\ Before(k) \notin L.turned => ent2[k].f <= trans[k].s
    BY <1>9, <1>12, <1>14, <1>19
  <2>6. ent2[MasterPort].s < sync'[MasterPort].sequId
    BY <1>1, <1>4, <1>19, WayDown DEF Books, OrderedOut
  <2>7. clock' = clock /\ k \in Down
    BY <1>1, <1>4
  <2> QED BY <2>1, <2>2, <2>3, <2>4, <2>5, <2>6, <2>7, <1>16, OutAt
<1>25. OrderedIn(L, ent2, rec)' /\ TrueIn(L)'
  <2>1. OrderedIn(L, ent, rec) /\ TrueIn(L)
    BY DEF Books
  <2>2. InMarks(ent2, ent, rec, rec, up)
    BY <1>5, <1>19, OneAfter, WayDown DEF InMarks
  <2>3. Between(ingress'[up], ent2[Onward(up)], rec[Peer[up]], Peer[up] \in L.turned)
    <3>1. PICK hi, one : hi = rec[Peer[up]] /\ one = (Peer[up] \in L.turned)
      OBVIOUS
    <3>2. one = FALSE
      <4>1. (Peer[up] \in L.turned) = FALSE
        BY <1>5, <1>11
      <4> QED BY <3>1, <4>1, Zenon
    <3>3. Between(ingress[up], m, hi, one)
      BY <1>5, <1>9, <2>1, <3>1 DEF OrderedIn
    <3>4. Between(ingress[up], e, hi, one)
      BY <1>14, <3>2, <3>3, OnlyFollowUps
    <3> QED BY <1>1, <1>5, <1>19, <3>1, <3>4
  <2>4. ingress'[up] \in Seq(Held(L, up, clock[up[1]]))
    BY <1>1, <2>1 DEF TrueIn
  <2>5. ClocksMove /\ InElsewhere(up)
    BY <1>1, SameClocks DEF InElsewhere
  <2> QED BY <2>1, <2>2, <2>3, <2>4, <2>5, InAt
<1>26. TrueRequests(L, ent2)'
  <2>1. control'[n] = Tail(C) /\ \A q \in Nodes : q # n => control'[q] = control[q]
    BY <1>1, <1>2 DEF Typed, ControlTyped
  <2>2. SUFFICES ASSUME NEW p \in Inner PROVE Asks(L, p, control'[p[1]], ent2[p].f)
    BY DEF TrueRequests
  <2>3. CASE p = k
    BY <1>4, <1>10, <1>14, <1>19, <2>1, <2>3
  <2>4. CASE p # k
    <3>1. p \in Down /\ p[1] \in Nodes /\ p[1] # n
      BY <1>5, <2>4, WayUp DEF Inner
    <3> QED BY <1>19, <2>1, <2>4, <3>1 DEF Books, TrueRequests
  <2> QED BY <2>3, <2>4
<1>27. /\ Ruled(L)' /\ OrderedOn(L, trans, rec)' /\ TrueOn(L)' /\ TrueMemory(L, trans)'
       /\ TrueStore(L)'
  BY <1>1 DEF Books, Ruled, OrderedOn, TrueOn, TrueMemory, TrueStore
<1>28. Books(L, ent2, trans, rec)'
  BY <1>19, <1>24, <1>25, <1>26, <1>27 DEF Books
<1> QED BY <1>28

-----------------------------------------------------------------------------
(* A frame leaves *)

\* The frame f leaves p: out is what its handler makes of it, e what goes on the wire.
Sent(p, f, out, e) ==
  /\ f \in InEgress(config.mechanism, p) /\ f \in FrameT
  /\ out = HandleEgress(Mac(p), nic[p[1]], f, Reading(p[1]))
  /\ out \in OutT(p[1]) /\ SameFrame(out.frame, f)
  /\ e \in WireT /\ e.left = LinkDelay[p]
  /\ e.frame.type = f.type /\ e.frame.source = f.source /\ e.frame.seq = f.seq
  /\ e.frame.twoStep = out.frame.twoStep /\ e.frame.origin = out.frame.origin
  /\ e.frame.corr = out.frame.corr /\ e.frame.clean = StaysClean(p, f, f.source # p)

Leaves(p, f, out, e) ==
  /\ egress[p] # <<>> /\ f = Head(egress[p]) /\ egress' = [egress EXCEPT ![p] = Tail(@)]
  /\ wire' = [wire EXCEPT ![p] = Append(@, e)]
  /\ nic' = [nic EXCEPT ![p[1]] = out.nic]
  /\ UNCHANGED <<config, now, clock, ingress, sync, sample>>

Requested(p, out) ==
  control' = IF out.requ = "NONE" THEN control
             ELSE [control EXCEPT ![p[1]] =
                     Append(@, [what |-> out.requ, port |-> p, frame |-> out.frame])]

LEMMA TransmitLeaves ==
  ASSUME Typed, NEW p \in Ports, Transmit(p)
  PROVE  \E f, out, e : Sent(p, f, out, e) /\ Leaves(p, f, out, e) /\ Requested(p, out)
<1>1. PICK f : f = Head(egress[p])
  OBVIOUS
<1>2. PICK out : out = HandleEgress(Mac(p), nic[p[1]], f, Reading(p[1]))
  OBVIOUS
<1>3. PICK clean \in BOOLEAN : clean = StaysClean(p, f, f.source # p)
  <2>1. StaysClean(p, f, f.source # p) \in BOOLEAN
    BY DEF StaysClean
  <2> QED BY <2>1
<1>4. PICK g : g = [out.frame EXCEPT !.clean = clean]
  OBVIOUS
<1>5. PICK e : e = [frame |-> g, left |-> LinkDelay[p]]
  OBVIOUS
<1>6. Leaves(p, f, out, e) /\ Requested(p, out)
  BY <1>1, <1>2, <1>3, <1>4, <1>5 DEF Transmit, Leaves, Requested
<1>7. f \in InEgress(config.mechanism, p) /\ Outcome(out, f, nic[p[1]], p[1])
  BY <1>1, <1>2, <1>6, FirstOut DEF Leaves
<1>8. PICK h \in FrameT : h = out.frame
  BY <1>7 DEF Outcome, OutT
<1>9. /\ g \in FrameT /\ g.clean = clean /\ g.type = h.type /\ g.source = h.source
      /\ g.seq = h.seq /\ g.twoStep = h.twoStep /\ g.origin = h.origin /\ g.corr = h.corr
  BY <1>3, <1>4, <1>8 DEF FrameT
<1>10. e \in WireT /\ e.frame = g /\ e.left = LinkDelay[p]
  BY <1>5, <1>9, NetworkAssumption DEF WireT
<1>11. Sent(p, f, out, e)
  BY <1>2, <1>3, <1>7, <1>8, <1>9, <1>10 DEF Sent, Outcome, SameFrame, InEgress, OnWire
<1> QED BY <1>6, <1>11

\* The matchers of the other nodes stay.
LEMMA NicAt ==
  ASSUME Typed, NEW p \in Ports, NEW f, NEW out, NEW e, Sent(p, f, out, e), Leaves(p, f, out, e)
  PROVE  /\ nic'[p[1]] = out.nic
         /\ \A q \in Ports : q[1] # p[1] => nic'[q[1]] = nic[q[1]]
<1>1. nic = [n \in Nodes |-> nic[n]] /\ nic' = [nic EXCEPT ![p[1]] = out.nic]
  BY DEF Typed, NicTyped, Leaves
<1> QED BY <1>1, PortTypes

\* A frame is put on the wire of one port.
LEMMA WireOn ==
  ASSUME Typed, NEW L, NEW trans, NEW rec, OrderedOn(L, trans, rec), TrueOn(L), now' = now,
         NEW p \in Down, NEW e \in InFlight(L, p, now), wire' = [wire EXCEPT ![p] = Append(@, e)],
         NEW trans2, Elsewhere(trans2, trans, p),
         Between(Append(Frames(wire[p]), e.frame), rec[p], trans2[p], p \in L.turned)
  PROVE  OrderedOn(L, trans2, rec)' /\ TrueOn(L)'
<1>1. PICK W \in Seq(WireT) : W = wire[p]
  BY WayDown DEF Typed, WireTyping
<1>2. wire'[p] = Append(W, e) /\ \A q \in Down \ {p} : wire'[q] = wire[q]
  BY <1>1, WayDown DEF Typed, WireTyping
<1>3. Frames(Append(W, e)) = Append(Frames(W), e.frame)
  <2>1. e \in WireT
    BY DEF InFlight
  <2> QED BY <1>1, <2>1, FramesOf
<1>4. \A q \in Down : Between(Frames(wire'[q]), rec[q], trans2[q], q \in L.turned)
  BY <1>1, <1>2, <1>3 DEF OrderedOn, Elsewhere
<1>5. PICK S : S = InFlight(L, p, now)
  OBVIOUS
<1>6. Append(W, e) \in Seq(S)
  <2>1. W \in Seq(S) /\ e \in S
    BY <1>1, <1>5 DEF TrueOn
  <2> QED BY <2>1
<1>7. \A q \in Down : wire'[q] \in Seq(InFlight(L, q, now'))
  BY <1>2, <1>5, <1>6 DEF TrueOn
<1> QED BY <1>4, <1>7 DEF OrderedOn, TrueOn

\* The queue from which a frame leaves.
LEMMA OutTail ==
  ASSUME Typed, NEW p \in Down, NEW f, NEW out, NEW e, Leaves(p, f, out, e)
  PROVE  /\ OutElsewhere(p)
         /\ \E Q \in Seq(FrameT) : /\ Q = egress[p] /\ Q # <<>> /\ f = Head(Q)
                                   /\ egress'[p] = Tail(Q)
<1>1. PICK Q \in Seq(FrameT) : Q = egress[p]
  BY WayDown DEF Typed, EgressTyping
<1>2. /\ egress'[p] = Tail(Q) /\ Q # <<>> /\ f = Head(Q)
      /\ \A q \in Ports : q # p => egress'[q] = egress[q]
  BY <1>1, WayDown DEF Leaves, Typed, EgressTyping
<1> QED BY <1>1, <1>2, WayDown DEF OutElsewhere

\* A node has one port that leads away from the master.
LEMMA OneDownEach == \A p, q \in Down : p[1] = q[1] => p = q
<1>1. SUFFICES ASSUME NEW p \in Down, NEW q \in Down, p[1] = q[1] PROVE p = q
  OBVIOUS
<1>2. CASE p = MasterPort
  BY <1>1, <1>2, WayDown
<1>3. CASE p # MasterPort
  BY <1>1, <1>3, WayDown, WayUp
<1> QED BY <1>2, <1>3

\* A frame without a mark touches no matcher of Syncs, and makes no request.
LEMMA PlainLeaves ==
  ASSUME Typed, NEW p \in Ports, NEW f, NEW out, NEW e, Sent(p, f, out, e), Leaves(p, f, out, e),
         Requested(p, out), f.type \notin {"SYNC", "FOLLOW_UP"}
  PROVE  SameMemory /\ SameRequests /\ e.frame \in Plain /\ \A L : e \in InFlight(L, p, now)
<1>1. out.nic.syncFu = nic[p[1]].syncFu /\ out.requ = "NONE"
  BY FirstOut DEF Sent, Leaves, Untouched
<1>2. SameMemory
  BY <1>1, NicAt, WayDown DEF SameMemory
<1>3. SameRequests
  BY <1>1 DEF SameRequests, Requested
<1>4. e \in WireT /\ e.frame \in FrameT /\ e.frame.type \notin {"SYNC", "FOLLOW_UP"}
  BY DEF Sent, WireT
<1>5. \A L : e \in InFlight(L, p, now)
  BY <1>4 DEF InFlight, FrameOK
<1> QED BY <1>2, <1>3, <1>4, <1>5 DEF Plain

LEMMA TransmitAway ==
  ASSUME Typed, NEW L, NEW ent, NEW trans, NEW rec, Books(L, ent, trans, rec),
         NEW p \in Ports \ Down, NEW f, NEW out, NEW e,
         Sent(p, f, out, e), Leaves(p, f, out, e), Requested(p, out)
  PROVE  Books(L, ent, trans, rec)'
<1>1. f.type \notin {"SYNC", "FOLLOW_UP"}
  BY DEF Sent, InEgress, OnWire, LeavesBy, PDelays
<1>2. SameMemory /\ SameRequests
  BY <1>1, PlainLeaves
<1>3. SameOut /\ SameOn /\ SameIn
  BY WayDown DEF SameOut, SameOn, SameIn, Leaves, Typed, EgressTyping, WireTyping
<1>4. ClocksMove /\ UNCHANGED <<config, now, sync>>
  BY SameClocks DEF Leaves
<1> QED BY <1>2, <1>3, <1>4, NothingMoves

LEMMA TransmitPlain ==
  ASSUME Typed, NEW L, NEW ent, NEW trans, NEW rec, Books(L, ent, trans, rec),
         NEW p \in Down, NEW f, NEW out, NEW e,
         Sent(p, f, out, e), Leaves(p, f, out, e), Requested(p, out),
         f.type \notin {"SYNC", "FOLLOW_UP"}
  PROVE  Books(L, ent, trans, rec)'
<1>1. p \in Ports
  BY WayDown
<1>2. SameMemory /\ SameRequests /\ e.frame \in Plain /\ e \in InFlight(L, p, now)
  BY <1>1, PlainLeaves
<1>3. PICK Q \in Seq(FrameT) : Q = egress[p] /\ Q # <<>> /\ egress'[p] = Tail(Q)
  BY OutTail
<1>4. UNCHANGED <<config, now, clock, ingress, sync>>
  BY DEF Leaves
<1>5. PICK lo, hi, r, two :
        lo = trans[p] /\ hi = ent[p] /\ r = rec[p] /\ two = (p \in L.turned)
  OBVIOUS
<1>6. OrderedOut(L, ent, trans)' /\ TrueOut(L)'
  <2>1. OrderedOut(L, ent, trans) /\ TrueOut(L)
    BY DEF Books
  <2>2. Elsewhere(ent, ent, p) /\ Elsewhere(trans, trans, p)
    BY DEF Elsewhere
  <2>3. Between(egress'[p], trans[p], ent[p], p \in L.turned)
    <3>1. Between(Q, lo, hi, two)
      BY <1>3, <1>5, <2>1 DEF OrderedOut
    <3>2. Between(Tail(Q), lo, hi, two)
      BY <1>3, <3>1, GetsLost
    <3> QED BY <1>3, <1>5, <3>2
  <2>4. egress'[p] \in Seq(ToLeave(L, p, clock[p[1]]))
    <3>1. PICK S : S = ToLeave(L, p, clock[p[1]])
      OBVIOUS
    <3>2. Q \in Seq(S)
      BY <1>3, <2>1, <3>1 DEF TrueOut
    <3>3. Tail(Q) \in Seq(S)
      BY <1>3, <3>2
    <3> QED BY <1>3, <3>1, <3>3
  <2>5. p \in Inner /\ Before(p) \notin L.turned => ent[p].f <= trans[p].s
    BY <2>1 DEF OrderedOut
  <2>6. ent[MasterPort].s < sync'[MasterPort].sequId
    BY <1>4, <2>1 DEF OrderedOut
  <2>7. OutElsewhere(p) /\ clock' = clock
    BY <1>4, OutTail
  <2> QED BY <2>1, <2>2, <2>3, <2>4, <2>5, <2>6, <2>7, OutAt
<1>7. OrderedOn(L, trans, rec)' /\ TrueOn(L)'
  <2>1. OrderedOn(L, trans, rec) /\ TrueOn(L)
    BY DEF Books
  <2>2. Between(Append(Frames(wire[p]), e.frame), rec[p], trans[p], p \in L.turned)
    <3>1. PICK W \in Seq(WireT) : W = wire[p]
      BY <1>1 DEF Typed, WireTyping
    <3>2. PICK F \in Seq(FrameT) : F = Frames(W)
      BY <3>1, FramesOf
    <3>3. PICK g \in Plain : g = e.frame
      BY <1>2
    <3>4. Between(F, r, lo, two)
      BY <1>5, <2>1, <3>1, <3>2 DEF OrderedOn
    <3>5. <<g>> \in Seq(Plain) /\ g \in FrameT
      BY <3>3 DEF Plain
    <3>6. Between(F \o <<g>>, r, lo, two)
      BY <3>2, <3>4, <3>5, PlainBetween
    <3>7. F \o <<g>> = Append(F, g)
      BY <3>5
    <3> QED BY <1>5, <3>1, <3>2, <3>3, <3>6, <3>7
  <2>3. Elsewhere(trans, trans, p)
    BY DEF Elsewhere
  <2>4. now' = now /\ wire' = [wire EXCEPT ![p] = Append(@, e)]
    BY DEF Leaves
  <2> QED BY <1>2, <2>1, <2>2, <2>3, <2>4, WireOn
<1>8. TrueRequests(L, ent)'
  BY <1>2, RequestsStay DEF Books
<1>9. /\ Ruled(L)' /\ OrderedIn(L, ent, rec)' /\ TrueIn(L)' /\ TrueMemory(L, trans)'
      /\ TrueStore(L)'
  BY <1>2, <1>4 DEF Books, Ruled, OrderedIn, TrueIn, TrueMemory, TrueStore, SameMemory
<1> QED BY <1>6, <1>7, <1>8, <1>9 DEF Books

-----------------------------------------------------------------------------
(* A Follow_Up leaves *)

\* What the handlers make of a Follow_Up.
LEMMA HandlesFollowUp ==
  ASSUME Typed, NEW p \in Down, NEW f, NEW out, NEW e, Sent(p, f, out, e), f.type = "FOLLOW_UP",
         NEW Q, Q = nic[p[1]].syncFu
  PROVE  /\ p = MasterPort =>
              /\ e.frame.corr = f.corr /\ out.nic.syncFu = Rest(Q, MasterPort, f.seq)
              /\ Result(Q, MasterPort, f.seq).valid =>
                   e.frame.origin = Result(Q, MasterPort, f.seq).time
         /\ p # MasterPort => e.frame.origin = f.origin
         /\ p # MasterPort /\ config.twoStep[p[1]] =>
              /\ e.frame.corr = f.corr + Result(Q, MasterPort, f.seq).time
              /\ out.nic.syncFu = Rest(Q, MasterPort, f.seq)
         /\ p # MasterPort /\ ~config.twoStep[p[1]] =>
              e.frame.corr = f.corr /\ out.nic.syncFu = Q
<1>1. PICK two \in BOOLEAN, n \in Nodes, clk \in TimeT :
        two = config.twoStep[p[1]] /\ n = p[1] /\ clk = Reading(p[1])
  BY WayDown, MacIs, ReadingTyped
<1>2. PICK ctl \in NicT(n) : ctl = nic[p[1]]
  BY <1>1, MacIs, WayDown
<1>3. PICK mac : mac = MacOf(config.mechanism, two, p)
  OBVIOUS
<1>4. /\ out = HandleEgress(mac, ctl, f, clk) /\ mac.id = p
      /\ f \in FrameT /\ f.source = MasterPort /\ p \in Ports
      /\ e.frame.corr = out.frame.corr /\ e.frame.origin = out.frame.origin
  BY <1>1, <1>2, <1>3, MacIs, WayDown DEF Sent, InEgress, OnWire, Genuine, MacOf
<1>5. CASE p = MasterPort
  <2>1. out = HandleEgressOwnFollowUp(mac, ctl, f, clk)
    BY <1>4, <1>5 DEF HandleEgress, HandleEgressOwnPtp
  <2>2. /\ out.nic.syncFu = Rest(ctl.syncFu, f.source, f.seq)
        /\ out.frame.corr = f.corr
        /\ Result(ctl.syncFu, f.source, f.seq).valid =>
             out.frame.origin = Result(ctl.syncFu, f.source, f.seq).time
    BY <1>1, <1>3, <1>4, <2>1, OwnFollowUp
  <2> QED BY <1>2, <1>4, <1>5, <2>2
<1>6. CASE p # MasterPort
  <2>1. out = HandleEgressForeignFollowUp(mac, ctl, f, clk)
    BY <1>4, <1>6 DEF HandleEgress, HandleEgressForeignPtp
  <2>2. /\ out.frame.origin = f.origin
        /\ IF two
           THEN /\ out.frame.corr = f.corr + Result(ctl.syncFu, f.source, f.seq).time
                /\ out.nic.syncFu = Rest(ctl.syncFu, f.source, f.seq)
           ELSE out.frame.corr = f.corr /\ out.nic = ctl
    BY <1>1, <1>3, <1>4, <2>1, ForeignFollowUp
  <2> QED BY <1>1, <1>2, <1>4, <1>6, <2>2
<1> QED BY <1>5, <1>6

\* A two-step port finds what it remembers of the Sync, and forgets it.
LEMMA MemoryPop ==
  ASSUME NEW L, NEW p, NEW Q, NEW done \in Int, Remembers(L, p, Q, done),
         L.passed[p] \subseteq Nat, NEW id \in Nat, done < id
  PROVE  /\ Remembers(L, p, Rest(Q, MasterPort, id), id)
         /\ L.twoStep[p[1]] /\ id \in L.passed[p] =>
              \E e \in Remembered(L, p) :
                /\ e.sequenceId = id
                /\ Result(Q, MasterPort, id) = [valid |-> TRUE, time |-> e.time]
<1>1. PICK T : T = Remembered(L, p)
  OBVIOUS
<1>2. Q \in Seq(T) /\ Rising(Q, MasterPort)
  BY <1>1 DEF Remembers
<1>3. PICK R : R = Rest(Q, MasterPort, id)
  OBVIOUS
<1>4. R \in Seq(T)
  <2>1. \A e \in T : e.time \in Int
    BY <1>1 DEF Remembered, EntryT
  <2> QED BY <1>2, <1>3, <2>1, PopTyped
<1>5. /\ Rising(R, MasterPort)
      /\ \A i \in DOMAIN Q : Q[i].sequenceId > id => \E k \in DOMAIN R : R[k] = Q[i]
      /\ \A i \in DOMAIN Q : Q[i].sequenceId = id =>
           Result(Q, MasterPort, id) = [valid |-> TRUE, time |-> Q[i].time]
  BY <1>2, <1>3, PopRising
<1>6. ASSUME L.twoStep[p[1]], NEW n \in L.passed[p], n > id
      PROVE  \E k \in DOMAIN R : R[k].sequenceId = n
  <2>1. n > done
    BY <1>6
  <2>2. PICK i \in DOMAIN Q : Q[i].sequenceId = n
    BY <1>6, <2>1 DEF Remembers
  <2>3. Q[i].sequenceId > id
    BY <1>6, <2>2
  <2> QED BY <1>5, <2>2, <2>3
<1>7. Remembers(L, p, R, id)
  BY <1>1, <1>4, <1>5, <1>6 DEF Remembers
<1>8. ASSUME L.twoStep[p[1]], id \in L.passed[p]
      PROVE  \E e \in T : /\ e.sequenceId = id
                          /\ Result(Q, MasterPort, id) = [valid |-> TRUE, time |-> e.time]
  <2>1. PICK i \in DOMAIN Q : Q[i].sequenceId = id
    BY <1>8 DEF Remembers
  <2>2. Q[i] \in T
    BY <1>2
  <2> QED BY <1>5, <2>1, <2>2
<1> QED BY <1>1, <1>3, <1>7, <1>8

\* A Follow_Up leaves with the time of its Sync and all that is due to it.
LEMMA FollowUpTrue ==
  ASSUME Typed, NEW p \in Down, NEW f, NEW out, NEW e, Sent(p, f, out, e), f.type = "FOLLOW_UP",
         NEW L \in LedgerT, Ruled(L), Turning(L), Passing(L), NEW done \in Int, done < f.seq,
         Remembers(L, p, nic[p[1]].syncFu, done),
         f \in ToLeave(L, p, clock[p[1]]), p \in L.turned
  PROVE  FrameOK(L, p, e.frame) /\ Remembers(L, p, out.nic.syncFu, f.seq)
<1>1. PICK Q : Q = nic[p[1]].syncFu
  OBVIOUS
<1>2. PICK id \in Nat, c \in Int, o \in Int :
        id = f.seq /\ c = f.corr /\ o = f.origin
  BY DEF Sent, FrameT
<1>3. L.passed[p] \subseteq Nat /\ Remembers(L, p, Q, done) /\ done < id
  BY <1>1, <1>2, LedgerTyped
<1>4. e.frame.type = "FOLLOW_UP" /\ e.frame.seq = id
  BY <1>2 DEF Sent
<1>5. /\ Remembers(L, p, Rest(Q, MasterPort, id), id)
      /\ L.twoStep[p[1]] /\ id \in L.passed[p] =>
           \E x \in Remembered(L, p) :
             /\ x.sequenceId = id
             /\ Result(Q, MasterPort, id) = [valid |-> TRUE, time |-> x.time]
  BY <1>3, MemoryPop
<1>6. config.twoStep = L.twoStep
  BY DEF Ruled
<1>7. CASE p = MasterPort
  <2>1. /\ e.frame.corr = c /\ out.nic.syncFu = Rest(Q, MasterPort, id)
        /\ Result(Q, MasterPort, id).valid =>
             e.frame.origin = Result(Q, MasterPort, id).time
    BY <1>1, <1>2, <1>7, HandlesFollowUp
  <2>2. L.twoStep[p[1]] /\ c = 0
    BY <1>2, <1>7 DEF Turning, ToLeave, Fresh
  <2>3. ASSUME id \in L.passed[p]
        PROVE  e.frame.origin = L.sent[id] + Start[MasterPort[1]] /\ c = L.due[p][id]
    <3>1. PICK x \in Remembered(L, p) :
            /\ x.sequenceId = id
            /\ Result(Q, MasterPort, id) = [valid |-> TRUE, time |-> x.time]
      BY <1>5, <2>2, <2>3
    <3>2. e.frame.origin = x.time
      BY <2>1, <3>1
    <3>3. x.time = L.sent[id] + Start[MasterPort[1]]
      BY <1>7, <3>1 DEF Remembered
    <3>4. L.due[p][id] = 0
      BY <1>7, <2>3 DEF Passing
    <3> QED BY <2>2, <3>2, <3>3, <3>4
  <2>4. FrameOK(L, p, e.frame)
    BY <1>4, <2>1, <2>3 DEF FrameOK, TrueStart
  <2> QED BY <1>2, <1>5, <2>1, <2>4
<1>8. CASE p # MasterPort
  <2>1. p \in Inner /\ Before(p) \in Down
    BY <1>8, WayDown, WayUp
  <2>2. FrameOK(L, Before(p), f)
    BY <1>8 DEF ToLeave, Held, Before
  <2>3. e.frame.origin = o
    BY <1>2, <1>8, HandlesFollowUp
  <2>4. ASSUME id \in L.passed[p]
        PROVE  o = L.sent[id] + Start[MasterPort[1]] /\ c = L.due[Before(p)][id]
    <3>1. id \in L.passed[Before(p)]
      BY <2>1, <2>4 DEF Passing
    <3> QED BY <1>2, <2>2, <3>1 DEF FrameOK, TrueStart
  <2>5. CASE L.twoStep[p[1]]
    <3>1. /\ e.frame.corr = c + Result(Q, MasterPort, id).time
          /\ out.nic.syncFu = Rest(Q, MasterPort, id)
      BY <1>1, <1>2, <1>6, <1>8, <2>5, HandlesFollowUp
    <3>2. ASSUME id \in L.passed[p] PROVE e.frame.corr = L.due[p][id]
      <4>1. PICK x \in Remembered(L, p) :
              /\ x.sequenceId = id
              /\ Result(Q, MasterPort, id) = [valid |-> TRUE, time |-> x.time]
        BY <1>5, <2>5, <3>2
      <4>2. PICK a \in Int, b \in Int : a = L.due[p][id] /\ b = L.due[Before(p)][id]
        BY <2>1, LedgerTyped
      <4>3. x.time = a - b
        BY <1>8, <4>1, <4>2 DEF Remembered
      <4>4. c = b
        BY <2>4, <3>2, <4>2
      <4>5. e.frame.corr = c + x.time
        BY <3>1, <4>1
      <4> QED BY <4>2, <4>3, <4>4, <4>5
    <3>3. FrameOK(L, p, e.frame)
      BY <1>4, <2>3, <2>4, <3>2 DEF FrameOK, TrueStart
    <3> QED BY <1>2, <1>5, <3>1, <3>3
  <2>6. CASE ~L.twoStep[p[1]]
    <3>1. e.frame.corr = c /\ out.nic.syncFu = Q
      BY <1>1, <1>2, <1>6, <1>8, <2>6, HandlesFollowUp
    <3>2. ASSUME id \in L.passed[p] PROVE L.due[p][id] = L.due[Before(p)][id]
      BY <1>8, <2>6, <3>2 DEF Passing
    <3>3. FrameOK(L, p, e.frame)
      BY <1>4, <2>3, <2>4, <3>1, <3>2 DEF FrameOK, TrueStart
    <3>4. Remembers(L, p, Q, id)
      BY <1>3, <2>6 DEF Remembers
    <3> QED BY <1>2, <3>1, <3>3, <3>4
  <2> QED BY <2>5, <2>6
<1> QED BY <1>7, <1>8

LEMMA TransmitFollowUp ==
  ASSUME Typed, NEW L, NEW ent, NEW trans, NEW rec, Books(L, ent, trans, rec),
         NEW p \in Down, NEW f, NEW out, NEW e,
         Sent(p, f, out, e), Leaves(p, f, out, e), Requested(p, out), f.type = "FOLLOW_UP"
  PROVE  \E t : Books(L, ent, t, rec)'
<1>1. p \in Ports /\ UNCHANGED <<config, now, clock, ingress, sync>>
  BY WayDown DEF Leaves
<1>2. PICK Q \in Seq(FrameT) :
        Q = egress[p] /\ Q # <<>> /\ f = Head(Q) /\ egress'[p] = Tail(Q)
  BY OutTail
<1>3. PICK m \in MarkT, t \in MarkT, r \in MarkT : m = ent[p] /\ t = trans[p] /\ r = rec[p]
  BY DEF Books, MarksOf
<1>4. Between(Q, t, m, p \in L.turned)
  BY <1>2, <1>3 DEF Books, OrderedOut
<1>5. p \in L.turned
  BY <1>2, <1>4 DEF Between
<1>6. PICK two \in BOOLEAN : two = (p \in L.turned)
  <2>1. (p \in L.turned) \in BOOLEAN
    BY <1>1, LedgerTyped DEF Books
  <2> QED BY <2>1, Zenon
<1>7. PICK t2 : t2 = Mark(f, t)
  OBVIOUS
<1>8. f \in FrameT /\ e.frame \in FrameT /\ e \in WireT
  BY DEF Sent, WireT
<1>9. Fits(f, t) /\ Between(Tail(Q), t2, m, two) /\ two
  BY <1>2, <1>4, <1>5, <1>6, <1>7, GoesOut
<1>10. /\ t2 \in MarkT /\ t.s <= t2.s /\ t2.f = f.seq /\ t.f < f.seq
  <2>1. t2 \in MarkT /\ t.s <= t2.s /\ t2.f = f.seq
    BY <1>7, <1>8, <1>9, MarkTyped
  <2>2. t.f < f.seq
    BY <1>9 DEF Fits
  <2> QED BY <2>1, <2>2
<1>11. PICK trans2 : trans2 = [trans EXCEPT ![p] = t2]
  OBVIOUS
<1>12. trans2 \in MarksOf(Down) /\ trans2[p] = t2 /\ Elsewhere(trans2, trans, p)
  BY <1>10, <1>11 DEF Books, MarksOf, Elsewhere
<1>13. PICK S : S = ToLeave(L, p, clock[p[1]])
  OBVIOUS
<1>14. f \in S /\ Tail(Q) \in Seq(S)
  <2>1. Q \in Seq(S)
    BY <1>2, <1>13 DEF Books, TrueOut
  <2> QED BY <1>2, <2>1
<1>15. FrameOK(L, p, e.frame) /\ Remembers(L, p, out.nic.syncFu, f.seq)
  <2>1. PICK done \in Int : done = t.f
    BY DEF MarkT
  <2>2. Remembers(L, p, nic[p[1]].syncFu, done)
    BY <1>3, <2>1 DEF Books, TrueMemory
  <2> QED BY <1>5, <1>10, <1>13, <1>14, <2>1, <2>2, FollowUpTrue DEF Books
<1>16. OrderedOut(L, ent, trans2)' /\ TrueOut(L)'
  <2>1. OrderedOut(L, ent, trans) /\ TrueOut(L)
    BY DEF Books
  <2>2. Elsewhere(ent, ent, p)
    BY DEF Elsewhere
  <2>3. Between(egress'[p], trans2[p], ent[p], p \in L.turned)
    BY <1>2, <1>3, <1>6, <1>9, <1>12
  <2>4. egress'[p] \in Seq(ToLeave(L, p, clock[p[1]]))
    BY <1>2, <1>13, <1>14
  <2>5. p \in Inner /\ Before(p) \notin L.turned => ent[p].f <= trans2[p].s
    <3>1. SUFFICES ASSUME p \in Inner, Before(p) \notin L.turned PROVE m.f <= t2.s
      BY <1>3, <1>12
    <3>2. m.f <= t.s
      BY <1>3, <2>1, <3>1 DEF OrderedOut
    <3>3. m.f \in Int /\ t.s \in Int /\ t2.s \in Int
      BY <1>10 DEF MarkT
    <3> QED BY <1>10, <3>2, <3>3
  <2>6. ent[MasterPort].s < sync'[MasterPort].sequId
    BY <1>1, <2>1 DEF OrderedOut
  <2>7. OutElsewhere(p) /\ clock' = clock
    BY <1>1, OutTail
  <2> QED BY <1>12, <2>1, <2>2, <2>3, <2>4, <2>5, <2>6, <2>7, OutAt
<1>17. OrderedOn(L, trans2, rec)' /\ TrueOn(L)'
  <2>1. OrderedOn(L, trans, rec) /\ TrueOn(L)
    BY DEF Books
  <2>2. PICK W \in Seq(WireT), g \in FrameT : W = wire[p] /\ g = e.frame
    BY <1>1, <1>8 DEF Typed, WireTyping
  <2>3. PICK F \in Seq(FrameT) : F = Frames(W)
    BY <2>2, FramesOf
  <2>4. Between(F, r, t, two)
    BY <1>3, <1>6, <2>1, <2>2, <2>3 DEF OrderedOn
  <2>5. g.type = f.type /\ g.seq = f.seq
    BY <2>2 DEF Sent
  <2>6. Fits(g, t) /\ Mark(g, t) = t2
    BY <1>7, <1>9, <2>5, MarkOf, FitsAlike
  <2>7. Between(Append(F, g), r, Mark(g, t), two)
    BY <1>9, <2>4, <2>6, ComesIn
  <2>8. Between(Append(Frames(wire[p]), e.frame), rec[p], trans2[p], p \in L.turned)
    BY <1>3, <1>6, <1>12, <2>2, <2>3, <2>6, <2>7
  <2>9. e \in InFlight(L, p, now)
    BY <1>8, <1>15, <2>2, <2>5 DEF InFlight
  <2>10. now' = now /\ wire' = [wire EXCEPT ![p] = Append(@, e)]
    BY DEF Leaves
  <2> QED BY <1>12, <2>1, <2>8, <2>9, <2>10, WireOn
<1>18. TrueMemory(L, trans2)'
  <2>1. SUFFICES ASSUME NEW q \in Down PROVE Remembers(L, q, nic'[q[1]].syncFu, trans2[q].f)
    BY DEF TrueMemory
  <2>2. CASE q = p
    BY <1>1, <1>10, <1>12, <1>15, <2>2, NicAt
  <2>3. CASE q # p
    <3>1. q[1] # p[1] /\ q \in Ports
      BY <2>3, OneDownEach, WayDown
    <3>2. nic'[q[1]].syncFu = nic[q[1]].syncFu /\ trans2[q] = trans[q]
      BY <1>1, <1>12, <2>3, <3>1, NicAt DEF Elsewhere
    <3> QED BY <3>2 DEF Books, TrueMemory
  <2> QED BY <2>2, <2>3
<1>19. Counted(L, trans2)'
  <2>1. SUFFICES ASSUME NEW q \in Down, NEW n \in L.passed[q] PROVE n <= trans2[q].s
    BY DEF Counted
  <2>2. n <= trans[q].s /\ n \in Nat
    BY LedgerTyped DEF Books, Counted
  <2>3. CASE q = p
    <3>1. t.s \in Int /\ t2.s \in Int
      BY <1>10 DEF MarkT
    <3> QED BY <1>3, <1>10, <1>12, <2>2, <2>3, <3>1
  <2>4. CASE q # p
    BY <1>12, <2>2, <2>4 DEF Elsewhere
  <2> QED BY <2>3, <2>4
<1>20. TrueRequests(L, ent)'
  <2>1. out.requ = "NONE"
    BY <1>1, FirstOut DEF Sent, Leaves
  <2>2. SameRequests
    BY <2>1 DEF SameRequests, Requested
  <2> QED BY <2>2, RequestsStay DEF Books
<1>21. /\ Ruled(L)' /\ OrderedIn(L, ent, rec)' /\ TrueIn(L)' /\ TrueStore(L)'
  BY <1>1 DEF Books, Ruled, OrderedIn, TrueIn, TrueStore
<1>22. Books(L, ent, trans2, rec)'
  BY <1>12, <1>16, <1>17, <1>18, <1>19, <1>20, <1>21 DEF Books
<1> QED BY <1>22

-----------------------------------------------------------------------------
(* A Sync leaves: a new entry in the books *)

\* The books U are the books L once p has sent the Sync n.
AddedTo(U, L, p, n) ==
  /\ U \in LedgerT /\ L \in LedgerT /\ p \in Down /\ n \in Nat
  /\ U.mechanism = L.mechanism /\ U.twoStep = L.twoStep /\ U.turned = L.turned
  /\ \A q \in Down : q # p => U.passed[q] = L.passed[q] /\ U.due[q] = L.due[q]
  /\ U.passed[p] = L.passed[p] \cup {n} /\ n \notin L.passed[p]
  /\ \A k \in Nat : k # n => U.due[p][k] = L.due[p][k] /\ U.sent[k] = L.sent[k]
  /\ p # MasterPort => U.sent = L.sent

Allowed(U, L, p, n) ==
  /\ p # MasterPort => n \in L.passed[Before(p)]
  /\ p \notin L.turned \/ p = MasterPort => U.due[p][n] = 0
  /\ p # MasterPort /\ ~L.twoStep[p[1]] => U.due[p][n] = L.due[Before(p)][n]

LEMMA EntryExists ==
  ASSUME NEW L \in LedgerT, NEW p \in Down, NEW n \in Nat, n \notin L.passed[p],
         NEW time \in Int, NEW d \in Int
  PROVE  \E U : /\ AddedTo(U, L, p, n) /\ U.due[p][n] = d
                /\ U.sent[n] = IF p = MasterPort THEN time ELSE L.sent[n]
<1>1. PICK pass : pass = [L.passed EXCEPT ![p] = L.passed[p] \cup {n}]
  OBVIOUS
<1>2. PICK dp : dp = [L.due[p] EXCEPT ![n] = d]
  OBVIOUS
<1>3. PICK due : due = [L.due EXCEPT ![p] = dp]
  OBVIOUS
<1>4. PICK sent : sent = [L.sent EXCEPT ![n] = IF p = MasterPort THEN time ELSE L.sent[n]]
  OBVIOUS
<1>5. PICK U : U = [L EXCEPT !.passed = pass, !.due = due, !.sent = sent]
  OBVIOUS
<1>6. /\ L.passed \in [Down -> SUBSET Nat] /\ L.due \in [Down -> [Nat -> Int]]
      /\ L.sent \in [Nat -> Int] /\ L.passed[p] \subseteq Nat
  BY LedgerTyped
<1>7. pass \in [Down -> SUBSET Nat] /\ pass[p] = L.passed[p] \cup {n}
      /\ \A q \in Down : q # p => pass[q] = L.passed[q]
  BY <1>1, <1>6
<1>8. dp \in [Nat -> Int] /\ dp[n] = d /\ \A k \in Nat : k # n => dp[k] = L.due[p][k]
  BY <1>2, <1>6
<1>9. due \in [Down -> [Nat -> Int]] /\ due[p] = dp
      /\ \A q \in Down : q # p => due[q] = L.due[q]
  BY <1>3, <1>6, <1>8
<1>10. /\ sent \in [Nat -> Int] /\ \A k \in Nat : k # n => sent[k] = L.sent[k]
       /\ sent[n] = IF p = MasterPort THEN time ELSE L.sent[n]
       /\ p # MasterPort => sent = L.sent
  BY <1>4, <1>6
<1>11. /\ U \in LedgerT /\ U.passed = pass /\ U.due = due /\ U.sent = sent
       /\ U.mechanism = L.mechanism /\ U.twoStep = L.twoStep /\ U.turned = L.turned
  BY <1>5, <1>7, <1>9, <1>10 DEF LedgerT
<1>12. AddedTo(U, L, p, n)
  BY <1>7, <1>8, <1>9, <1>10, <1>11 DEF AddedTo
<1> QED BY <1>8, <1>9, <1>10, <1>11, <1>12

\* What is in the books stays there.
LEMMA Booked ==
  ASSUME NEW U, NEW L, NEW p, NEW n, AddedTo(U, L, p, n), Passing(L),
         NEW q \in Down, NEW k \in L.passed[q]
  PROVE  /\ k \in U.passed[q] /\ U.sent[k] = L.sent[k] /\ U.due[q][k] = L.due[q][k]
         /\ k \in Nat /\ (q = p \/ p = MasterPort => k # n)
<1>1. k \in Nat /\ k \in L.passed[MasterPort]
  BY LedgerTyped DEF AddedTo, Passing
<1>2. q = p \/ p = MasterPort => k # n
  BY <1>1 DEF AddedTo
<1> QED BY <1>1, <1>2 DEF AddedTo

LEMMA FrameLater ==
  ASSUME NEW U, NEW L, NEW p, NEW n, AddedTo(U, L, p, n), Passing(L),
         NEW q \in Down, NEW f \in FrameT, FrameOK(L, q, f),
         q = p /\ f.type = "FOLLOW_UP" => f.seq # n
  PROVE  FrameOK(U, q, f)
<1>1. U.turned = L.turned
  BY DEF AddedTo
<1>2. CASE f.type = "SYNC"
  <2>1. f.seq \in L.passed[q]
    BY <1>2 DEF FrameOK
  <2>2. f.seq \in U.passed[q] /\ U.sent[f.seq] = L.sent[f.seq]
    BY <2>1, Booked
  <2> QED BY <1>1, <1>2, <2>2 DEF FrameOK, TrueStart
<1>3. CASE f.type = "FOLLOW_UP"
  <2>1. SUFFICES ASSUME f.seq \in U.passed[q]
                 PROVE  TrueStart(U, f) /\ f.corr = U.due[q][f.seq]
    BY <1>3 DEF FrameOK
  <2>2. f.seq \in L.passed[q]
    BY <1>3, <2>1 DEF AddedTo
  <2>3. U.sent[f.seq] = L.sent[f.seq] /\ U.due[q][f.seq] = L.due[q][f.seq]
    BY <2>2, Booked
  <2> QED BY <1>3, <2>2, <2>3 DEF FrameOK, TrueStart
<1>4. CASE f.type \notin {"SYNC", "FOLLOW_UP"}
  BY <1>4 DEF FrameOK
<1> QED BY <1>2, <1>3, <1>4

LEMMA TimedLater ==
  ASSUME NEW U, NEW L, NEW p, NEW n, AddedTo(U, L, p, n), Passing(L),
         NEW q \in Down, NEW k \in L.passed[q], NEW corr, NEW t, Timed(L, q, k, corr, t)
  PROVE  Timed(U, q, k, corr, t)
<1>1. U.sent[k] = L.sent[k] /\ U.due[q][k] = L.due[q][k] /\ Base(U, q) = Base(L, q)
  BY Booked DEF AddedTo, Base
<1> QED BY <1>1 DEF Timed

LEMMA StampedLater ==
  ASSUME NEW U, NEW L, NEW p, NEW n, AddedTo(U, L, p, n), Passing(L),
         NEW x \in Ports \ Down, NEW k \in L.passed[Peer[x]], NEW corr, NEW stamp, NEW c,
         Stamped(L, x, k, corr, stamp, c)
  PROVE  Stamped(U, x, k, corr, stamp, c)
<1>1. PICK q \in Down : q = Peer[x]
  BY WayDown
<1>2. Added(U, x) = Added(L, x)
  BY DEF AddedTo, Added
<1>3. \A t : Timed(L, q, k, corr, t) => Timed(U, q, k, corr, t)
  BY <1>1, TimedLater
<1> QED BY <1>1, <1>2, <1>3 DEF Stamped

LEMMA HeldLater ==
  ASSUME NEW U, NEW L, NEW p, NEW n, AddedTo(U, L, p, n), Passing(L),
         NEW x \in Ports \ Down, NEW c, NEW f \in Held(L, x, c),
         Peer[x] = p /\ f.type = "FOLLOW_UP" => f.seq # n
  PROVE  f \in Held(U, x, c)
<1>1. PICK q \in Down : q = Peer[x]
  BY WayDown
<1>2. f \in FrameT /\ FrameOK(L, q, f)
  BY <1>1 DEF Held
<1>3. FrameOK(U, q, f)
  BY <1>1, <1>2, FrameLater
<1>4. CASE f.type = "SYNC"
  <2>1. f.seq \in L.passed[q]
    BY <1>2, <1>4 DEF FrameOK
  <2>2. f.clean => Stamped(U, x, f.seq, f.corr, f.stamp, c)
    BY <1>1, <1>4, <2>1, StampedLater DEF Held
  <2> QED BY <1>1, <1>2, <1>3, <1>4, <2>2 DEF Held
<1>5. CASE f.type # "SYNC"
  BY <1>1, <1>2, <1>3, <1>5 DEF Held
<1> QED BY <1>4, <1>5

LEMMA InFlightLater ==
  ASSUME NEW U, NEW L, NEW p, NEW n, AddedTo(U, L, p, n), Passing(L),
         NEW q \in Down, NEW t, NEW w \in InFlight(L, q, t),
         q = p /\ w.frame.type = "FOLLOW_UP" => w.frame.seq # n
  PROVE  w \in InFlight(U, q, t)
<1>1. w \in WireT /\ w.frame \in FrameT /\ FrameOK(L, q, w.frame)
  BY DEF InFlight, WireT
<1>2. PICK f \in FrameT : f = w.frame
  BY <1>1
<1>3. FrameOK(U, q, f)
  BY <1>1, <1>2, FrameLater
<1>4. CASE f.type = "SYNC"
  <2>1. f.seq \in L.passed[q]
    BY <1>1, <1>2, <1>4 DEF FrameOK
  <2>2. PICK y : y = t + w.left - LinkDelay[q]
    OBVIOUS
  <2>3. f.clean => Timed(L, q, f.seq, f.corr, y)
    BY <1>2, <1>4, <2>2 DEF InFlight
  <2>4. f.clean => Timed(U, q, f.seq, f.corr, y)
    BY <2>1, <2>3, TimedLater
  <2> QED BY <1>1, <1>2, <1>3, <2>2, <2>4 DEF InFlight
<1>5. CASE f.type # "SYNC"
  BY <1>1, <1>2, <1>3, <1>5 DEF InFlight
<1> QED BY <1>4, <1>5

LEMMA PassingLater ==
  ASSUME NEW U, NEW L, NEW p, NEW n, AddedTo(U, L, p, n), Allowed(U, L, p, n), Passing(L)
  PROVE  Passing(U)
<1>1. p \in Down /\ U.turned = L.turned /\ U.twoStep = L.twoStep
  BY DEF AddedTo
<1>2. \A q \in Down : \A k \in U.passed[q] : k \in L.passed[q] \/ (q = p /\ k = n)
  BY DEF AddedTo
<1>3. \A q \in Down : L.passed[q] \subseteq U.passed[q]
  BY DEF AddedTo
<1>4. ASSUME NEW q \in Down, NEW k \in U.passed[q] PROVE k \in U.passed[MasterPort]
  <2>1. CASE k \in L.passed[q]
    BY <1>3, <2>1, WayDown DEF Passing
  <2>2. CASE q = p /\ k = n
    <3>1. CASE p = MasterPort
      BY <1>4, <2>2, <3>1
    <3>2. CASE p # MasterPort
      <4>1. n \in L.passed[Before(p)] /\ Before(p) \in Down
        BY <1>1, <3>2, WayUp, WayDown DEF Allowed
      <4> QED BY <1>3, <2>2, <4>1, WayDown DEF Passing
    <3> QED BY <3>1, <3>2
  <2> QED BY <1>2, <2>1, <2>2
<1>5. ASSUME NEW q \in Inner, NEW k \in U.passed[q] PROVE k \in U.passed[Before(q)]
  <2>1. q \in Down /\ Before(q) \in Down /\ q # MasterPort
    BY WayUp, WayDown
  <2>2. CASE k \in L.passed[q]
    BY <1>3, <2>1, <2>2 DEF Passing
  <2>3. CASE q = p /\ k = n
    BY <1>3, <2>1, <2>3 DEF Allowed
  <2> QED BY <1>2, <2>1, <2>2, <2>3
<1>6. ASSUME NEW q \in Down, NEW k \in U.passed[q]
      PROVE  /\ q \notin L.turned \/ q = MasterPort => U.due[q][k] = 0
             /\ q # MasterPort /\ ~L.twoStep[q[1]] => U.due[q][k] = U.due[Before(q)][k]
  <2>1. CASE k \in L.passed[q]
    <3>1. U.due[q][k] = L.due[q][k]
      BY <2>1, Booked
    <3>2. q # MasterPort => U.due[Before(q)][k] = L.due[Before(q)][k]
      <4>1. SUFFICES ASSUME q # MasterPort PROVE U.due[Before(q)][k] = L.due[Before(q)][k]
        OBVIOUS
      <4>2. q \in Inner /\ Before(q) \in Down
        BY <4>1, WayDown, WayUp
      <4>3. k \in L.passed[Before(q)]
        BY <2>1, <4>2 DEF Passing
      <4> QED BY <4>2, <4>3, Booked
    <3> QED BY <2>1, <3>1, <3>2 DEF Passing
  <2>2. CASE q = p /\ k = n
    <3>1. p # MasterPort => U.due[Before(p)] = L.due[Before(p)]
      <4>1. SUFFICES ASSUME p # MasterPort PROVE U.due[Before(p)] = L.due[Before(p)]
        OBVIOUS
      <4>2. Before(p) \in Down /\ Before(p) # p
        BY <1>1, <4>1, WayDown, WayUp
      <4> QED BY <4>2 DEF AddedTo
    <3> QED BY <2>2, <3>1 DEF Allowed
  <2> QED BY <1>2, <2>1, <2>2
<1> QED BY <1>1, <1>4, <1>5, <1>6 DEF Passing

\* No Follow_Up has passed p that is not below all that p has sent.
LEMMA BelowMarks ==
  ASSUME Typed, NEW L, NEW ent, NEW trans, NEW rec, Books(L, ent, trans, rec),
         NEW p \in Down, NEW n \in Nat, trans[p].s < n
  PROVE  /\ \A i \in DOMAIN wire[p] :
              wire[p][i].frame.type = "FOLLOW_UP" => wire[p][i].frame.seq # n
         /\ \A i \in DOMAIN ingress[Peer[p]] :
              ingress[Peer[p]][i].type = "FOLLOW_UP" => ingress[Peer[p]][i].seq # n
         /\ \A q \in Inner : Before(q) = p => \A i \in DOMAIN egress[q] :
              egress[q][i].type = "FOLLOW_UP" => egress[q][i].seq # n
         /\ trans[p].f < n
<1>1. PICK x \in Ports \ Down, o \in Down \cup {SlavePort} :
        x = Peer[p] /\ Peer[x] = p /\ o = Onward(x)
  BY WayDown
<1>2. PICK t \in MarkT, r \in MarkT, m \in MarkT : t = trans[p] /\ r = rec[p] /\ m = ent[o]
  BY DEF Books, MarksOf
<1>3. t.s < n /\ t.f < n
  <2>1. t.s \in Int /\ t.f \in Int /\ t.f <= t.s
    BY DEF MarkT
  <2> QED BY <1>2, <2>1
<1>4. /\ Between(Frames(wire[p]), r, t, p \in L.turned)
      /\ Between(ingress[x], m, r, p \in L.turned)
  BY <1>1, <1>2 DEF Books, OrderedOn, OrderedIn
<1>5. r.s <= t.s /\ m.s <= r.s
  BY <1>4 DEF Between, Behind
<1>6. /\ m.s \in Int /\ m.f \in Int /\ r.s \in Int /\ r.f \in Int /\ t.s \in Int
      /\ m.f <= m.s /\ r.f <= r.s
  BY DEF MarkT
<1>7. m.s < n /\ r.s < n /\ m.f < n /\ r.f < n
  BY <1>3, <1>5, <1>6
<1>8. ASSUME NEW i \in DOMAIN wire[p], wire[p][i].frame.type = "FOLLOW_UP"
      PROVE  wire[p][i].frame.seq # n
  <2>1. i \in DOMAIN Frames(wire[p]) /\ Frames(wire[p])[i] = wire[p][i].frame
    BY <1>8 DEF Frames
  <2>2. wire[p][i].frame.seq <= t.f
    BY <1>4, <1>8, <2>1 DEF Between
  <2>3. t.f \in Int
    BY DEF MarkT
  <2> QED BY <1>3, <2>2, <2>3
<1>9. ASSUME NEW i \in DOMAIN ingress[x], ingress[x][i].type = "FOLLOW_UP"
      PROVE  ingress[x][i].seq # n
  <2>1. ingress[x][i].seq <= r.f
    BY <1>4, <1>9 DEF Between
  <2> QED BY <1>6, <1>7, <2>1
<1>10. ASSUME NEW q \in Inner, Before(q) = p, NEW i \in DOMAIN egress[q],
              egress[q][i].type = "FOLLOW_UP"
       PROVE  egress[q][i].seq # n
  <2>1. Up(q) = x /\ q = o /\ q \in Down
    BY <1>1, <1>10, WayUp, WayDown
  <2>2. Between(egress[q], trans[q], m, q \in L.turned)
    BY <1>2, <2>1 DEF Books, OrderedOut
  <2>3. egress[q][i].seq <= m.f
    BY <1>10, <2>2 DEF Between
  <2> QED BY <1>6, <1>7, <2>3
<1> QED BY <1>1, <1>2, <1>3, <1>8, <1>9, <1>10

\* What the queues hold, the books with one more Sync say as well.
LEMMA QueuesLater ==
  ASSUME Typed, NEW L, NEW ent, NEW trans, NEW rec, Books(L, ent, trans, rec),
         NEW p, NEW n, NEW U, AddedTo(U, L, p, n), trans[p].s < n
  PROVE  TrueOn(U) /\ TrueIn(U) /\ TrueOut(U)
<1>1. p \in Down /\ n \in Nat /\ Passing(L) /\ U.turned = L.turned
  BY DEF AddedTo, Books
<1>2. /\ \A i \in DOMAIN wire[p] :
              wire[p][i].frame.type = "FOLLOW_UP" => wire[p][i].frame.seq # n
      /\ \A i \in DOMAIN ingress[Peer[p]] :
              ingress[Peer[p]][i].type = "FOLLOW_UP" => ingress[Peer[p]][i].seq # n
      /\ \A q \in Inner : Before(q) = p => \A i \in DOMAIN egress[q] :
              egress[q][i].type = "FOLLOW_UP" => egress[q][i].seq # n
  BY <1>1, BelowMarks
<1>3. ASSUME NEW q \in Down PROVE wire[q] \in Seq(InFlight(U, q, now))
  <2>1. PICK S, T, W : S = InFlight(L, q, now) /\ T = InFlight(U, q, now) /\ W = wire[q]
    OBVIOUS
  <2>2. W \in Seq(S)
    BY <2>1 DEF Books, TrueOn
  <2>3. ASSUME NEW i \in DOMAIN W PROVE W[i] \in T
    <3>1. W[i] \in InFlight(L, q, now)
      BY <2>1, <2>2
    <3>2. q = p /\ W[i].frame.type = "FOLLOW_UP" => W[i].frame.seq # n
      BY <1>2, <2>1
    <3> QED BY <1>1, <2>1, <3>1, <3>2, InFlightLater
  <2>4. W \in Seq(T)
    BY <2>2, <2>3, ElementsOf
  <2> QED BY <2>1, <2>4
<1>4. ASSUME NEW x \in Ports \ Down PROVE ingress[x] \in Seq(Held(U, x, clock[x[1]]))
  <2>1. PICK c, S, T, Q :
          /\ c = clock[x[1]] /\ S = Held(L, x, c) /\ T = Held(U, x, c) /\ Q = ingress[x]
    OBVIOUS
  <2>2. Q \in Seq(S)
    BY <2>1 DEF Books, TrueIn
  <2>3. ASSUME NEW i \in DOMAIN Q PROVE Q[i] \in T
    <3>1. Q[i] \in Held(L, x, c)
      BY <2>1, <2>2
    <3>2. Peer[x] = p => x = Peer[p]
      BY <1>1, WayDown
    <3>3. Peer[x] = p /\ Q[i].type = "FOLLOW_UP" => Q[i].seq # n
      BY <1>2, <2>1, <3>2
    <3> QED BY <1>1, <2>1, <3>1, <3>3, HeldLater
  <2>4. Q \in Seq(T)
    BY <2>2, <2>3, ElementsOf
  <2> QED BY <2>1, <2>4
<1>5. ASSUME NEW q \in Down PROVE egress[q] \in Seq(ToLeave(U, q, clock[q[1]]))
  <2>1. egress[q] \in Seq(ToLeave(L, q, clock[q[1]]))
    BY DEF Books, TrueOut
  <2>2. CASE q = MasterPort
    <3>1. ToLeave(U, q, clock[q[1]]) = ToLeave(L, q, clock[q[1]])
      BY <1>1, <2>2 DEF ToLeave, Fresh
    <3> QED BY <2>1, <3>1
  <2>3. CASE q # MasterPort
    <3>1. PICK x \in Ports \ Down : x = Up(q) /\ Peer[x] = Before(q) /\ q \in Inner
      BY <2>3, WayUp, WayDown DEF Before
    <3>2. PICK c, S, T, Q :
            /\ c = clock[q[1]] /\ S = Held(L, x, c) /\ T = Held(U, x, c) /\ Q = egress[q]
      OBVIOUS
    <3>3. Q \in Seq(S)
      BY <2>1, <2>3, <3>1, <3>2 DEF ToLeave
    <3>4. ASSUME NEW i \in DOMAIN Q PROVE Q[i] \in T
      <4>1. Q[i] \in Held(L, x, c)
        BY <3>2, <3>3
      <4>2. Peer[x] = p /\ Q[i].type = "FOLLOW_UP" => Q[i].seq # n
        BY <1>2, <3>1, <3>2
      <4> QED BY <1>1, <3>2, <4>1, <4>2, HeldLater
    <3>5. Q \in Seq(T)
      BY <3>3, <3>4, ElementsOf
    <3> QED BY <2>3, <3>1, <3>2, <3>5 DEF ToLeave
  <2> QED BY <2>2, <2>3
<1> QED BY <1>3, <1>4, <1>5 DEF TrueOn, TrueIn, TrueOut

\* So for the requests and for what ports and slave remember.
LEMMA AsksLater ==
  ASSUME NEW U, NEW L, NEW p, NEW n, AddedTo(U, L, p, n), Passing(L),
         NEW q \in Inner, NEW C, NEW done, Asks(L, q, C, done)
  PROVE  Asks(U, q, C, done)
<1>1. ASSUME NEW f \in Asked(L, q, done) PROVE f \in Asked(U, q, done)
  <2>1. PICK k \in L.passed[q] : k = f.seq /\ q \in Down
    BY DEF Asked, Inner
  <2>2. k \in U.passed[q] /\ U.sent[k] = L.sent[k]
    BY <2>1, Booked
  <2>3. U.turned = L.turned
    BY DEF AddedTo
  <2> QED BY <2>1, <2>2, <2>3 DEF Asked, TrueStart
<1> QED BY <1>1 DEF Asks

LEMMA RemembersLater ==
  ASSUME NEW U, NEW L, NEW p, NEW n, AddedTo(U, L, p, n), Passing(L),
         NEW q \in Down, NEW Q, NEW done, Remembers(L, q, Q, done)
  PROVE  /\ Q \in Seq(Remembered(U, q)) /\ Rising(Q, MasterPort)
         /\ L.twoStep[q[1]] =>
              \A k \in L.passed[q] : k > done => \E i \in DOMAIN Q : Q[i].sequenceId = k
         /\ q # p => Remembers(U, q, Q, done)
<1>1. ASSUME NEW e \in Remembered(L, q) PROVE e \in Remembered(U, q)
  <2>1. PICK k \in L.passed[q] : k = e.sequenceId
    BY DEF Remembered
  <2>2. k \in U.passed[q] /\ U.sent[k] = L.sent[k] /\ U.due[q][k] = L.due[q][k]
    BY Booked
  <2>3. q # MasterPort => U.due[Before(q)][k] = L.due[Before(q)][k]
    <3>1. SUFFICES ASSUME q # MasterPort PROVE U.due[Before(q)][k] = L.due[Before(q)][k]
      OBVIOUS
    <3>2. q \in Inner /\ Before(q) \in Down
      BY <3>1, WayDown, WayUp
    <3>3. k \in L.passed[Before(q)]
      BY <3>2 DEF Passing
    <3> QED BY <3>2, <3>3, Booked
  <2> QED BY <2>1, <2>2, <2>3 DEF Remembered
<1>2. PICK S, T : S = Remembered(L, q) /\ T = Remembered(U, q)
  OBVIOUS
<1>3. Q \in Seq(T)
  <2>1. Q \in Seq(S) /\ S \subseteq T
    BY <1>1, <1>2 DEF Remembers
  <2> QED BY <2>1, SeqOf
<1>4. q # p => U.passed[q] = L.passed[q] /\ U.twoStep = L.twoStep
  BY DEF AddedTo
<1> QED BY <1>2, <1>3, <1>4 DEF Remembers

LEMMA StoreLater ==
  ASSUME Typed, NEW U, NEW L, NEW p, NEW n, AddedTo(U, L, p, n), Passing(L), TrueStore(L)
  PROVE  TrueStore(U)
<1>1. PICK s, c : s = sync[SlavePort] /\ c = clock[SlavePort[1]]
  OBVIOUS
<1>2. PICK q \in Down : q = Peer[SlavePort] /\ SlavePort \in Ports \ Down
  BY WayDown
<1>3. SUFFICES ASSUME s.clean
               PROVE  /\ s.syncSequID \in U.passed[q]
                      /\ Stamped(U, SlavePort, s.syncSequID, s.syncCorr, s.syncIngress, c)
  BY <1>1, <1>2 DEF TrueStore, Stored
<1>4. /\ s.syncSequID \in L.passed[q]
      /\ Stamped(L, SlavePort, s.syncSequID, s.syncCorr, s.syncIngress, c)
  BY <1>1, <1>2, <1>3 DEF TrueStore, Stored
<1> QED BY <1>2, <1>4, Booked, StampedLater

-----------------------------------------------------------------------------
(* What a MAC makes of a Sync *)

\* How long p has held the Sync f, and the delay of the link it came by.
Residence(p, f) ==
  (IF f.stamp.epoch = clock[p[1]].epoch
   THEN now + clock[p[1]].offset - f.stamp.time ELSE 0)
    + IF config.mechanism = "P2P" THEN nic[p[1]].peerMeanPathDelay[f.rx] ELSE 0

LEMMA HandlesOwnSync ==
  ASSUME Typed, NEW f, NEW out, NEW e, Sent(MasterPort, f, out, e), f.type = "SYNC",
         NEW n \in Nodes, n = MasterPort[1],
         NEW Q, Q = nic[n].syncFu, NEW time, time = now + clock[n].offset
  PROVE  /\ e.frame.corr = f.corr /\ e.frame.twoStep = f.twoStep /\ out.requ = "NONE"
         /\ config.twoStep[n] =>
              out.nic.syncFu = Append(Q, Entry(MasterPort, f.seq, time))
         /\ ~config.twoStep[n] => out.nic.syncFu = Q /\ e.frame.origin = time
<1>1. PICK two \in BOOLEAN, clk \in TimeT :
        two = config.twoStep[n] /\ clk = Reading(n) /\ clk.time = time
  <2>1. Reading(n) \in TimeT /\ Reading(n).time = time
    BY ReadingTyped DEF Reading
  <2> QED BY <2>1, PortTypes, MacIs
<1>2. PICK ctl \in NicT(n) : ctl = nic[n]
  BY MacIs, PortTypes
<1>3. PICK mac : mac = MacOf(config.mechanism, two, MasterPort)
  OBVIOUS
<1>4. /\ out = HandleEgress(mac, ctl, f, clk) /\ mac.id = MasterPort /\ MasterPort \in Ports
      /\ f \in FrameT /\ f.source = MasterPort
      /\ e.frame.corr = out.frame.corr /\ e.frame.origin = out.frame.origin
      /\ e.frame.twoStep = out.frame.twoStep
  BY <1>1, <1>2, <1>3, MacIs, PortTypes DEF Sent, InEgress, OnWire, Genuine, MacOf
<1>5. out = HandleEgressOwnSync(mac, ctl, f, clk)
  BY <1>4 DEF HandleEgress, HandleEgressOwnPtp
<1>6. /\ out.requ = "NONE" /\ out.frame.twoStep = f.twoStep /\ out.frame.corr = f.corr
      /\ IF two
         THEN /\ out.nic.syncFu = Append(ctl.syncFu, Entry(f.source, f.seq, clk.time))
         ELSE out.nic = ctl /\ out.frame.origin = clk.time
  BY <1>1, <1>3, <1>4, <1>5, OwnSync
<1> QED BY <1>1, <1>2, <1>4, <1>6

LEMMA HandlesForeignSync ==
  ASSUME Typed, NEW p \in Inner, NEW f, NEW out, NEW e, Sent(p, f, out, e), f.type = "SYNC",
         NEW n \in Nodes, n = p[1], NEW Q, Q = nic[n].syncFu,
         NEW x \in Ports, x = Up(p), NEW res, res = Residence(p, f)
  PROVE  /\ f.rx = x /\ res \in Int /\ e.frame.origin = f.origin
         /\ out.requ = IF config.twoStep[n] /\ ~f.twoStep THEN "TRIG_SFU" ELSE "NONE"
         /\ config.twoStep[n] =>
              /\ e.frame.twoStep /\ e.frame.corr = f.corr
              /\ out.nic.syncFu =
                   Append(Q, Entry(MasterPort, f.seq, res + Asymmetry[x]))
         /\ ~config.twoStep[n] =>
              /\ e.frame.twoStep = f.twoStep /\ e.frame.corr = f.corr + res
              /\ out.nic.syncFu = Q
<1>1. PICK two \in BOOLEAN, clk \in TimeT :
        /\ two = config.twoStep[n] /\ clk = Reading(n)
        /\ clk.time = now + clock[n].offset /\ clk.epoch = clock[n].epoch
  <2>1. Reading(n) \in TimeT /\ Reading(n).time = now + clock[n].offset
        /\ Reading(n).epoch = clock[n].epoch
    BY ReadingTyped DEF Reading
  <2> QED BY <2>1, WayUp, MacIs
<1>2. PICK ctl \in NicT(n) : ctl = nic[n]
  BY MacIs, WayUp
<1>3. PICK m, mac : m = config.mechanism /\ mac = MacOf(m, two, p)
  OBVIOUS
<1>4. /\ p \in Ports /\ p # MasterPort /\ ClockType(n) = "TRANSPARENT"
      /\ PortsOf(n) = {x, p} /\ x # p
  BY WayUp DEF Inner
<1>5. /\ out = HandleEgress(mac, ctl, f, clk) /\ mac.id = p
      /\ f \in FrameT /\ f.source = MasterPort /\ f.rx \in PortsOf(n) \ {p}
      /\ e.frame.corr = out.frame.corr /\ e.frame.origin = out.frame.origin
      /\ e.frame.twoStep = out.frame.twoStep
      /\ out.requ \in {"NONE", "TRIG_SFU"}
  BY <1>1, <1>2, <1>3, <1>4, MacIs DEF Sent, InEgress, OnWire, Genuine, MacOf, OutT
<1>6. f.rx = x /\ f.rx \in PortsOf(n)
  BY <1>4, <1>5
<1>7. CalcResidenceTime(mac, ctl, f, f.rx, clk) = res
  <2>1. CalcResidenceTime(mac, ctl, f, f.rx, clk) =
          (IF f.stamp.epoch = clk.epoch THEN clk.time - f.stamp.time ELSE 0)
            + IF mac.mechanism = "P2P" THEN ctl.peerMeanPathDelay[f.rx] ELSE 0
    BY DEF CalcResidenceTime
  <2>2. mac.mechanism = m
    BY <1>3 DEF MacOf
  <2>3. PICK t, a \in Int, b \in Int, h \in Int :
          /\ t = clk.epoch /\ a = now /\ b = clock[p[1]].offset /\ h = f.stamp.time
    BY <1>5 DEF Typed, ClocksTyped, FrameT, TimeT
  <2>4. PICK o : o = clk.time
    OBVIOUS
  <2>5. res = (IF f.stamp.epoch = t THEN o - h ELSE 0)
                + IF m = "P2P" THEN ctl.peerMeanPathDelay[f.rx] ELSE 0
    <3>1. o = a + b /\ t = clock[p[1]].epoch /\ nic[p[1]] = ctl
      BY <1>1, <1>2, <2>3, <2>4
    <3>2. o - h = a + (b - h)
      BY <3>1
    <3> QED BY <1>3, <2>3, <2>4, <3>1, <3>2 DEF Residence
  <2> QED BY <2>1, <2>2, <2>3, <2>4, <2>5
<1>8. out = HandleEgressForeignSync(mac, ctl, f, clk)
  BY <1>4, <1>5 DEF HandleEgress, HandleEgressForeignPtp
<1>9. /\ res \in Int
      /\ out.requ = "TRIG_SFU" <=> two /\ ~f.twoStep
      /\ out.frame.origin = f.origin
      /\ IF two
         THEN /\ out.frame.twoStep /\ out.frame.corr = f.corr
              /\ out.nic.syncFu = Append(ctl.syncFu,
                   Entry(f.source, f.seq, res + ctl.asymmetry[f.rx]))
         ELSE /\ out.frame.twoStep = f.twoStep /\ out.frame.corr = f.corr + res
              /\ out.nic = ctl
  BY <1>1, <1>3, <1>4, <1>5, <1>6, <1>7, <1>8, ForeignSync
<1>10. ctl.asymmetry[f.rx] = Asymmetry[x]
  BY <1>2, <1>6 DEF Typed, NicTyped
<1> QED BY <1>1, <1>2, <1>5, <1>6, <1>9, <1>10

\* A two-step port remembers the Sync n until its Follow_Up comes.
Pushed(U, p, n, Q, R) ==
  IF U.twoStep[p[1]]
  THEN \E x \in Remembered(U, p) : x.sequenceId = n /\ R = Append(Q, x)
  ELSE R = Q

\* A Sync starts its journey.
LEMMA SetsOff ==
  ASSUME NEW U, NEW p \in Down, NEW e \in WireT, e.left = LinkDelay[p], FrameOK(U, p, e.frame),
         now \in Nat, e.frame.clean => Timed(U, p, e.frame.seq, e.frame.corr, now)
  PROVE  e \in InFlight(U, p, now)
<1>1. PICK d \in Int, t \in Int : d = LinkDelay[p] /\ t = now
  BY WayDown, NetworkAssumption
<1>2. t + (d - d) = t
  OBVIOUS
<1> QED BY <1>1, <1>2 DEF InFlight

LEMMA MasterSync ==
  ASSUME Typed, clock[MasterPort[1]].offset = Start[MasterPort[1]],
         NEW L \in LedgerT, Ruled(L), Turning(L), NEW U, NEW n, AddedTo(U, L, MasterPort, n),
         U.due[MasterPort][n] = 0, U.sent[n] = now,
         NEW f \in Fresh(L), NEW out, NEW e, Sent(MasterPort, f, out, e), f.type = "SYNC", f.seq = n
  PROVE  /\ FrameOK(U, MasterPort, e.frame) /\ e \in InFlight(U, MasterPort, now)
         /\ out.requ = "NONE"
         /\ Pushed(U, MasterPort, n, nic[MasterPort[1]].syncFu, out.nic.syncFu)
<1>1. PICK k \in Nodes : k = MasterPort[1]
  BY PortTypes
<1>2. PICK Q, time : Q = nic[k].syncFu /\ time = now + clock[k].offset
  OBVIOUS
<1>3. PICK g \in FrameT : g = e.frame /\ g.type = "SYNC" /\ g.seq = n
  BY DEF Sent, WireT
<1>4. /\ g.corr = f.corr /\ g.twoStep = f.twoStep /\ out.requ = "NONE"
      /\ config.twoStep[k] =>
           out.nic.syncFu = Append(Q, Entry(MasterPort, n, time))
      /\ ~config.twoStep[k] => out.nic.syncFu = Q /\ g.origin = time
  BY <1>1, <1>2, <1>3, HandlesOwnSync
<1>5. /\ U.twoStep = config.twoStep /\ U.turned = L.turned /\ n \in U.passed[MasterPort]
      /\ U.mechanism = L.mechanism /\ n \in Nat /\ MasterPort \in Down
  BY DEF AddedTo, Ruled
<1>6. PICK s \in Int, z \in Int : s = now /\ z = Start[k]
  BY NetworkAssumption DEF Typed, ClocksTyped
<1>7. time = s + z /\ U.sent[n] + Start[MasterPort[1]] = s + z
  BY <1>1, <1>2, <1>6
<1>8. f.corr = 0 /\ f.twoStep = (MasterPort \in U.turned)
  BY <1>5 DEF Fresh
<1>9. MasterPort \notin U.turned => ~config.twoStep[k]
  BY <1>1, <1>5 DEF Turning, Ruled
<1>10. FrameOK(U, MasterPort, g)
  <2>1. MasterPort \notin U.turned => TrueStart(U, g)
    BY <1>3, <1>4, <1>7, <1>9 DEF TrueStart
  <2> QED BY <1>3, <1>4, <1>5, <1>8, <2>1 DEF FrameOK
<1>11. Timed(U, MasterPort, n, g.corr, now)
  <2>1. Base(U, MasterPort) = 0
    BY NetworkAssumption DEF Base
  <2>2. s - s - 0 - 0 = 0
    OBVIOUS
  <2> QED BY <1>4, <1>6, <1>8, <2>1, <2>2 DEF Timed
<1>12. e \in InFlight(U, MasterPort, now)
  <2>1. e \in WireT /\ e.left = LinkDelay[MasterPort] /\ now \in Nat
    BY DEF Sent, Typed, ClocksTyped
  <2> QED BY <1>3, <1>5, <1>10, <1>11, <2>1, SetsOff
<1>13. ASSUME U.twoStep[k]
       PROVE  \E x \in Remembered(U, MasterPort) :
                x.sequenceId = n /\ out.nic.syncFu = Append(Q, x)
  <2>1. PICK x : x = Entry(MasterPort, n, time)
    OBVIOUS
  <2>2. x \in EntryT /\ x.source = MasterPort /\ x.sequenceId = n /\ x.time = time
    BY <1>5, <1>6, <1>7, <2>1, PortTypes DEF Entry, EntryT, PortOrNone
  <2>3. x \in Remembered(U, MasterPort)
    BY <1>5, <1>7, <2>2 DEF Remembered
  <2> QED BY <1>4, <1>5, <1>13, <2>1, <2>2, <2>3
<1>14. Pushed(U, MasterPort, n, Q, out.nic.syncFu)
  BY <1>1, <1>4, <1>5, <1>13 DEF Pushed
<1> QED BY <1>1, <1>2, <1>3, <1>4, <1>10, <1>12, <1>14

\* Once p has sent the Sync f, its delay is accounted for.
Balanced(L, p, f, res) ==
  now - L.sent[f.seq] - (IF L.twoStep[p[1]] THEN f.corr ELSE f.corr + res)
    - (L.due[Before(p)][f.seq] + IF L.twoStep[p[1]] THEN res + Asymmetry[Up(p)] ELSE 0)
  = Base(L, p)

\* What a transparent clock adds to a Sync, at once or with its Follow_Up, is the time for
\* which it has held it and, with peer delays, the delay of the link it came by.
LEMMA ResidenceTrue ==
  ASSUME Typed, NEW L \in LedgerT, Ruled(L), NEW p \in Inner, NEW f \in FrameT, f.rx = Up(p),
         f.clean, f.epoch = f.stamp.epoch, f.epoch = clock[p[1]].epoch,
         Stamped(L, Up(p), f.seq, f.corr, f.stamp, clock[p[1]]),
         ~E2E => nic[p[1]].peerMeanPathDelay[Up(p)] = MeanDelay[Up(p)],
         NEW res \in Int, res = Residence(p, f)
  PROVE  Balanced(L, p, f, res)
<1>1. PICK x, B, c, n : x = Up(p) /\ B = Before(p) /\ c = clock[p[1]] /\ n = f.seq
  OBVIOUS
<1>2. B \in Down /\ n \in Nat
  BY <1>1, WayUp DEF FrameT
<1>3. /\ p \in Ports /\ p[1] \in Nodes /\ ClockType(p[1]) = "TRANSPARENT" /\ x \in Ports
      /\ Peer[x] = B /\ Peer[B] = x /\ x[1] = p[1]
  BY <1>1, WayUp, WayDown DEF Before
<1>4. c \in [offset : Int, epoch : Nat]
  BY <1>3, <1>1 DEF Typed, ClocksTyped
<1>5. Timed(L, B, n, f.corr, f.stamp.time - c.offset - LinkDelay[B] + Added(L, x))
  BY <1>3, <1>1 DEF Stamped
<1>6. PICK st \in Int, off \in Int, corr \in Int, t \in Int :
        st = f.stamp.time /\ off = c.offset /\ corr = f.corr /\ t = now
  BY <1>4 DEF Typed, ClocksTyped, FrameT, TimeT
<1>7. PICK sent \in Int, due \in Int : sent = L.sent[n] /\ due = L.due[B][n]
  BY <1>2, LedgerTyped
<1>8. PICK ld \in Int, md \in Int, asy \in Int, far \in Int, farB \in Int :
        /\ ld = LinkDelay[B] /\ md = MeanDelay[x] /\ asy = Asymmetry[x] /\ far = Far[p[1]]
        /\ farB = Far[B[1]]
  <2>1. /\ LinkDelay \in [Ports -> Nat] /\ MeanDelay \in [Ports -> Nat]
        /\ Asymmetry \in [Ports -> Int] /\ Far \in [Nodes -> Nat]
    BY NetworkAssumption
  <2>2. B \in Ports /\ B[1] \in Nodes
    BY <1>2, WayDown
  <2>3. LinkDelay[B] \in Int
    BY <2>1, <2>2
  <2>4. MeanDelay[x] \in Int
    BY <1>3, <2>1
  <2>5. Asymmetry[x] \in Int
    BY <1>3, <2>1
  <2>6. Far[p[1]] \in Int
    BY <1>3, <2>1
  <2>7. Far[B[1]] \in Int
    BY <2>1, <2>2
  <2> QED BY <2>3, <2>4, <2>5, <2>6, <2>7
<1>9. ld = md + asy /\ far = farB + md
  <2>1. B \in Ports
    BY <1>2, WayDown
  <2>2. LinkDelay[B] = MeanDelay[x] + Asymmetry[x] /\ MeanDelay[x] = MeanDelay[B]
    BY <1>3, <2>1, NetworkAssumption
  <2>3. Far[x[1]] = Far[B[1]] + MeanDelay[B]
    BY <1>3, <1>2, NetworkAssumption
  <2> QED BY <1>3, <1>8, <2>2, <2>3
<1>10. PICK e2e \in BOOLEAN, two \in BOOLEAN : e2e = E2E /\ two = L.twoStep[p[1]]
  <2>1. E2E \in BOOLEAN
    BY DEF E2E
  <2> QED BY <1>3, <2>1, LedgerTyped
<1>11. (e2e <=> L.mechanism = "E2E") /\ (config.mechanism = "P2P" <=> ~e2e)
  BY <1>10 DEF E2E, Ruled, Typed, ConfigTyped
<1>12. PICK add \in Int : add = Added(L, x) /\ add = IF two THEN 0 ELSE asy
  BY <1>3, <1>8, <1>10 DEF Added
<1>13. PICK b \in Int, bB \in Int :
         /\ b = Base(L, p) /\ bB = Base(L, B)
         /\ b = (IF e2e THEN far ELSE 0) /\ bB = IF e2e THEN farB ELSE 0
  <2>1. Base(L, p) = IF e2e THEN far ELSE 0
    BY <1>8, <1>11 DEF Base
  <2>2. Base(L, B) = IF e2e THEN farB ELSE 0
    BY <1>8, <1>11 DEF Base
  <2> QED BY <2>1, <2>2
<1>14. res = (t + (off - st)) + IF e2e THEN 0 ELSE md
  <2>1. f.stamp.epoch = clock[p[1]].epoch
    OBVIOUS
  <2>2. now + clock[p[1]].offset - f.stamp.time = t + (off - st)
    BY <1>6, <1>1
  <2>3. (IF config.mechanism = "P2P" THEN nic[p[1]].peerMeanPathDelay[f.rx] ELSE 0)
          = IF e2e THEN 0 ELSE md
    BY <1>8, <1>10, <1>11, <1>1
  <2> QED BY <2>1, <2>2, <2>3 DEF Residence
<1>15. (((st - off) - ld) + add) - sent - corr - due = bB
  BY <1>5, <1>6, <1>7, <1>8, <1>12, <1>13 DEF Timed
<1>16. t - sent - (IF two THEN corr ELSE corr + res)
         - (due + IF two THEN res + asy ELSE 0) = b
  <2>1. CASE two /\ e2e
    <3>1. add = 0 /\ b = far /\ bB = farB /\ res = t + (off - st)
      BY <1>12, <1>13, <1>14, <2>1
    <3>2. ((st - off) - ld) - sent - corr - due = bB
      <4>1. ((st - off) - ld) + add = (st - off) - ld
        BY <3>1
      <4> QED BY <1>15, <4>1
    <3>3. PICK u \in Int : u = st - off
      OBVIOUS
    <3>4. ((((u - md) - asy) - sent) - corr) - due = bB
      BY <1>9, <3>2, <3>3
    <3>5. res = t - u
      BY <3>1, <3>3
    <3>6. b = bB + md
      BY <1>9, <3>1
    <3>7. t - sent - corr - (due + (res + asy)) = b
      BY <3>4, <3>5, <3>6
    <3> QED BY <2>1, <3>7
  <2>2. CASE two /\ ~e2e
    <3>1. add = 0 /\ b = 0 /\ bB = 0 /\ res = (t + (off - st)) + md
      BY <1>12, <1>13, <1>14, <2>2
    <3>2. ((st - off) - ld) - sent - corr - due = bB
      <4>1. ((st - off) - ld) + add = (st - off) - ld
        BY <3>1
      <4> QED BY <1>15, <4>1
    <3>3. PICK u \in Int : u = st - off
      OBVIOUS
    <3>4. ((((u - md) - asy) - sent) - corr) - due = bB
      BY <1>9, <3>2, <3>3
    <3>5. res = (t - u) + md
      BY <3>1, <3>3
    <3>6. b = bB
      BY <1>9, <3>1
    <3>7. t - sent - corr - (due + (res + asy)) = b
      BY <3>4, <3>5, <3>6
    <3> QED BY <2>2, <3>7
  <2>3. CASE ~two /\ e2e
    <3>1. add = asy /\ b = far /\ bB = farB /\ res = t + (off - st)
      BY <1>12, <1>13, <1>14, <2>3
    <3>2. t - sent - (corr + res) - (due + 0) = b
      BY <1>9, <1>15, <3>1
    <3> QED BY <2>3, <3>2
  <2>4. CASE ~two /\ ~e2e
    <3>1. add = asy /\ b = 0 /\ bB = 0 /\ res = (t + (off - st)) + md
      BY <1>12, <1>13, <1>14, <2>4
    <3>2. t - sent - (corr + res) - (due + 0) = b
      BY <1>9, <1>15, <3>1
    <3> QED BY <2>4, <3>2
  <2> QED BY <2>1, <2>2, <2>3, <2>4
<1> QED BY <1>6, <1>7, <1>8, <1>10, <1>13, <1>16, <1>1 DEF Balanced

\* The books U are L with the Sync n, which p sends as e; out is what the MAC makes of it.
SyncBooked(U, L, p, n, out, e) ==
  /\ AddedTo(U, L, p, n) /\ Allowed(U, L, p, n)
  /\ FrameOK(U, p, e.frame) /\ e \in InFlight(U, p, now)
  /\ Pushed(U, p, n, nic[p[1]].syncFu, out.nic.syncFu)
  /\ out.requ # "NONE" =>
       /\ out.requ = "TRIG_SFU" /\ p \in Inner /\ p \in L.turned /\ Before(p) \notin L.turned
       /\ out.frame \in FrameT /\ out.frame.seq = n /\ TrueStart(U, out.frame)

LEMMA InnerSync ==
  ASSUME Typed, NEW p \in Inner, NEW L \in LedgerT, Ruled(L), Turning(L), Passing(L),
         NEW f \in Held(L, Up(p), clock[p[1]]), NEW out, NEW e, Sent(p, f, out, e),
         f.type = "SYNC", NEW n, n = f.seq, NEW U, AddedTo(U, L, p, n),
         U.due[p][n] = L.due[Before(p)][n] +
           IF L.twoStep[p[1]] THEN Residence(p, f) + Asymmetry[Up(p)] ELSE 0
  PROVE  SyncBooked(U, L, p, n, out, e)
<1>1. PICK k \in Nodes, x \in Ports, B \in Down : k = p[1] /\ x = Up(p) /\ B = Before(p)
  BY WayUp
<1>2. PICK Q, res : Q = nic[k].syncFu /\ res = Residence(p, f)
  OBVIOUS
<1>3. /\ p \in Down /\ p # MasterPort /\ B # p /\ Peer[x] = B /\ x \in Ports \ Down
  BY <1>1, WayUp DEF Inner, Before
<1>4. /\ f.rx = x /\ res \in Int /\ e.frame.origin = f.origin
      /\ out.requ = IF config.twoStep[k] /\ ~f.twoStep THEN "TRIG_SFU" ELSE "NONE"
      /\ config.twoStep[k] =>
           /\ e.frame.twoStep /\ e.frame.corr = f.corr
           /\ out.nic.syncFu = Append(Q, Entry(MasterPort, f.seq, res + Asymmetry[x]))
      /\ ~config.twoStep[k] =>
           /\ e.frame.twoStep = f.twoStep /\ e.frame.corr = f.corr + res
           /\ out.nic.syncFu = Q
  BY <1>1, <1>2, HandlesForeignSync
<1>5. PICK g \in FrameT : g = e.frame /\ g.type = "SYNC" /\ g.seq = n
                          /\ g.clean = StaysClean(p, f, f.source # p)
  BY DEF Sent, WireT
<1>6. PICK two \in BOOLEAN : two = config.twoStep[k] /\ two = L.twoStep[k]
  BY LedgerTyped DEF Ruled
<1>7. /\ U.twoStep[k] = two /\ U.turned = L.turned /\ U.mechanism = L.mechanism
      /\ U.sent = L.sent /\ n \in Nat /\ n \in U.passed[p] /\ U.due[B] = L.due[B]
      /\ U \in LedgerT
  BY <1>3, <1>6 DEF AddedTo
<1>8. /\ f \in FrameT /\ FrameOK(L, B, f) /\ n \in L.passed[B]
      /\ f.twoStep = (B \in L.turned) /\ (B \notin L.turned => TrueStart(L, f))
  BY <1>1, <1>3 DEF Held, FrameOK
<1>9. p \in L.turned <=> two \/ B \in L.turned
  BY <1>1, <1>3, <1>6 DEF Turning
<1>10. PICK asy \in Int, d \in Int, due \in Int :
        asy = Asymmetry[x] /\ d = L.due[B][n] /\ due = U.due[p][n]
  <2>1. Asymmetry[x] \in Int
    BY <1>1, NetworkAssumption
  <2>2. L.due[B][n] \in Int
    BY <1>1, <1>7, LedgerTyped
  <2>3. U.due[p][n] \in Int
    BY <1>3, <1>7, LedgerTyped
  <2> QED BY <2>1, <2>2, <2>3
<1>11. due = d + IF two THEN res + asy ELSE 0
  BY <1>1, <1>2, <1>6, <1>10
<1>12. Allowed(U, L, p, n)
  <2>1. ~two => due = d
    BY <1>11
  <2>2. p \notin L.turned => d = 0
    BY <1>8, <1>9, <1>10 DEF Passing
  <2>3. p \notin L.turned => ~two
    BY <1>9
  <2>4. p \notin L.turned => due = 0
    BY <2>1, <2>2, <2>3
  <2> QED BY <1>1, <1>3, <1>6, <1>8, <1>10, <2>1, <2>4 DEF Allowed
<1>13. FrameOK(U, p, g)
  <2>1. g.twoStep = (p \in U.turned)
    <3>1. (p \in L.turned) \in BOOLEAN /\ (B \in L.turned) \in BOOLEAN
      BY <1>1, <1>3, LedgerTyped, WayDown
    <3>2. g.twoStep \in BOOLEAN /\ (two => g.twoStep) /\ (~two => g.twoStep = (B \in L.turned))
      BY <1>4, <1>5, <1>6, <1>8 DEF FrameT
    <3>3. g.twoStep <=> p \in L.turned
      BY <1>9, <3>2
    <3> QED BY <1>7, <3>1, <3>2, <3>3
  <2>2. p \notin U.turned => TrueStart(U, g)
    BY <1>4, <1>5, <1>7, <1>8, <1>9 DEF TrueStart
  <2> QED BY <1>5, <1>7, <2>1, <2>2 DEF FrameOK
<1>14. ASSUME g.clean PROVE Timed(U, p, n, g.corr, now)
  <2>1. PICK c : c = clock[p[1]]
    OBVIOUS
  <2>2. f.source # p
    BY <1>3 DEF Sent, InEgress, OnWire, Genuine
  <2>3. /\ f.clean /\ f.epoch = c.epoch
        /\ ~E2E => nic[p[1]].peerMeanPathDelay[x] = MeanDelay[x]
    BY <1>4, <1>5, <1>14, <2>1, <2>2 DEF StaysClean
  <2>4. f.epoch = f.stamp.epoch /\ Stamped(L, x, n, f.corr, f.stamp, c)
    BY <1>1, <2>1, <2>3 DEF Held
  <2>5. Balanced(L, p, f, res)
    BY <1>1, <1>4, <1>8, <1>2, <2>1, <2>3, <2>4, ResidenceTrue
  <2>6. g.corr = IF L.twoStep[p[1]] THEN f.corr ELSE f.corr + res
    BY <1>1, <1>4, <1>5, <1>6
  <2>7. due = L.due[B][n] + IF L.twoStep[p[1]] THEN res + Asymmetry[x] ELSE 0
    BY <1>1, <1>10, <1>2
  <2>8. Base(U, p) = Base(L, p)
    BY <1>7 DEF Base
  <2> QED BY <1>1, <1>7, <1>10, <2>5, <2>6, <2>7, <2>8 DEF Timed, Balanced
<1>15. e \in InFlight(U, p, now)
  <2>1. e \in WireT /\ e.left = LinkDelay[p] /\ now \in Nat
    BY DEF Sent, Typed, ClocksTyped
  <2> QED BY <1>3, <1>5, <1>13, <1>14, <2>1, SetsOff
<1>16. ASSUME two PROVE \E r \in Remembered(U, p) : r.sequenceId = n
                                                   /\ out.nic.syncFu = Append(Q, r)
  <2>1. PICK time \in Int : time = res + asy
    BY <1>4
  <2>2. PICK r : r = Entry(MasterPort, n, time)
    OBVIOUS
  <2>3. r \in EntryT /\ r.source = MasterPort /\ r.sequenceId = n /\ r.time = time
    BY <1>7, <2>2, PortTypes DEF Entry, EntryT, PortOrNone
  <2>4. time = due - d
    BY <1>4, <1>11, <1>16, <2>1
  <2>5. r \in Remembered(U, p)
    BY <1>1, <1>3, <1>7, <1>10, <2>3, <2>4 DEF Remembered
  <2>6. out.nic.syncFu = Append(Q, r)
    BY <1>4, <1>6, <1>10, <1>16, <2>1, <2>2
  <2> QED BY <2>3, <2>5, <2>6
<1>17. Pushed(U, p, n, Q, out.nic.syncFu)
  BY <1>1, <1>4, <1>6, <1>7, <1>16 DEF Pushed
<1>18. ASSUME out.requ # "NONE"
       PROVE  /\ out.requ = "TRIG_SFU" /\ p \in L.turned /\ B \notin L.turned
              /\ out.frame \in FrameT /\ out.frame.seq = n /\ TrueStart(U, out.frame)
  <2>1. two /\ ~f.twoStep /\ out.requ = "TRIG_SFU"
    BY <1>4, <1>6, <1>18
  <2>2. out.frame \in FrameT /\ out.frame.seq = n /\ out.frame.origin = f.origin
    BY <1>4 DEF Sent, OutT, SameFrame
  <2>3. B \notin L.turned /\ p \in L.turned
    BY <1>8, <1>9, <2>1
  <2> QED BY <1>7, <1>8, <2>1, <2>2, <2>3 DEF TrueStart
<1> QED BY <1>1, <1>2, <1>5, <1>12, <1>13, <1>15, <1>17, <1>18 DEF SyncBooked

\* A port that sends the Sync n remembers it, and all that it has remembered before.
LEMMA PushMemory ==
  ASSUME NEW U, NEW L, NEW p, NEW n, AddedTo(U, L, p, n), Passing(L),
         NEW Q, NEW done \in Int, Remembers(L, p, Q, done), \A k \in L.passed[p] : k < n,
         NEW R, Pushed(U, p, n, Q, R)
  PROVE  Remembers(U, p, R, done)
<1>1. /\ p \in Down /\ n \in Nat /\ U.twoStep = L.twoStep /\ U.passed[p] = L.passed[p] \cup {n}
  BY DEF AddedTo
<1>2. PICK S : S = Remembered(U, p)
  OBVIOUS
<1>3. /\ Q \in Seq(S) /\ Rising(Q, MasterPort)
      /\ L.twoStep[p[1]] =>
           \A k \in L.passed[p] : k > done => \E i \in DOMAIN Q : Q[i].sequenceId = k
  BY <1>1, <1>2, RemembersLater
<1>4. CASE ~U.twoStep[p[1]]
  BY <1>1, <1>2, <1>3, <1>4 DEF Pushed, Remembers
<1>5. CASE U.twoStep[p[1]]
  <2>1. PICK x \in S : x.sequenceId = n /\ R = Append(Q, x)
    BY <1>2, <1>5 DEF Pushed
  <2>2. x.source = MasterPort
    BY <1>2 DEF Remembered
  <2>3. R \in Seq(S) /\ DOMAIN R = 1 .. Len(Q) + 1 /\ DOMAIN Q = 1 .. Len(Q) /\ Len(Q) \in Nat
        /\ R[Len(Q) + 1] = x /\ \A i \in 1 .. Len(Q) : R[i] = Q[i]
    BY <1>3, <2>1
  <2>4. \A i \in DOMAIN Q : Q[i].sequenceId < n
    <3>1. Q \in Seq(Remembered(L, p))
      BY DEF Remembers
    <3>2. \A i \in DOMAIN Q : Q[i] \in Remembered(L, p)
      BY <3>1
    <3> QED BY <3>2 DEF Remembered
  <2>5. Rising(R, MasterPort)
    <3>1. ASSUME NEW i \in DOMAIN R PROVE R[i].source = MasterPort /\ R[i].sequenceId \in Int
      <4>1. CASE i \in DOMAIN Q
        BY <1>3, <2>3, <4>1 DEF Rising
      <4>2. CASE i = Len(Q) + 1
        BY <1>1, <2>1, <2>2, <2>3, <4>2
      <4> QED BY <2>3, <4>1, <4>2
    <3>2. ASSUME NEW i \in DOMAIN R, NEW j \in DOMAIN R, i < j
          PROVE  R[i].sequenceId < R[j].sequenceId
      <4>1. i \in DOMAIN Q
        BY <2>3, <3>2
      <4>2. CASE j \in DOMAIN Q
        BY <1>3, <2>3, <3>2, <4>1, <4>2 DEF Rising
      <4>3. CASE j = Len(Q) + 1
        BY <2>1, <2>3, <2>4, <4>1, <4>3
      <4> QED BY <2>3, <4>2, <4>3
    <3> QED BY <3>1, <3>2 DEF Rising
  <2>6. ASSUME NEW k \in U.passed[p], k > done
        PROVE  \E i \in DOMAIN R : R[i].sequenceId = k
    <3>1. CASE k = n
      <4>1. Len(Q) + 1 \in DOMAIN R
        BY <2>3
      <4> QED BY <2>1, <2>3, <3>1, <4>1
    <3>2. CASE k # n
      <4>1. k \in L.passed[p]
        BY <1>1, <3>2
      <4>2. PICK i \in DOMAIN Q : Q[i].sequenceId = k
        BY <1>1, <1>3, <1>5, <2>6, <4>1
      <4>3. i \in DOMAIN R /\ R[i] = Q[i]
        BY <2>3
      <4> QED BY <4>2, <4>3
    <3> QED BY <3>1, <3>2
  <2> QED BY <1>2, <2>3, <2>5, <2>6 DEF Remembers
<1> QED BY <1>4, <1>5

\* A Follow_Up of the Sync n is requested, behind those that are under way.
LEMMA PushRequest ==
  ASSUME NEW U, NEW L, NEW p \in Inner, NEW n, AddedTo(U, L, p, n), Passing(L),
         NEW T, NEW C \in Seq(T), NEW done \in Int, Asks(L, p, C, done),
         \A k \in L.passed[p] : k < n, done < n, NEW m, m.what = "TRIG_SFU",
         p \in L.turned, Before(p) \notin L.turned,
         m.frame \in FrameT, m.frame.seq = n, TrueStart(U, m.frame)
  PROVE  Asks(U, p, Append(C, m), done)
<1>1. n \in Nat /\ U.turned = L.turned /\ n \in U.passed[p]
  BY DEF AddedTo
<1>2. Asks(U, p, C, done)
  BY AsksLater
<1>3. m.frame \in Asked(U, p, done)
  BY <1>1 DEF Asked
<1>4. PICK D : D = Append(C, m)
  OBVIOUS
<1>5. /\ DOMAIN D = 1 .. Len(C) + 1 /\ DOMAIN C = 1 .. Len(C) /\ Len(C) \in Nat
      /\ D[Len(C) + 1] = m /\ \A i \in 1 .. Len(C) : D[i] = C[i]
  BY <1>4
<1>6. ASSUME NEW i \in DOMAIN D, D[i].what = "TRIG_SFU" PROVE D[i].frame \in Asked(U, p, done)
  <2>1. CASE i \in DOMAIN C
    BY <1>2, <1>5, <1>6, <2>1 DEF Asks
  <2>2. CASE i = Len(C) + 1
    BY <1>3, <1>5, <2>2
  <2> QED BY <1>5, <2>1, <2>2
<1>7. ASSUME NEW i \in DOMAIN D, NEW j \in DOMAIN D, i < j,
             D[i].what = "TRIG_SFU", D[j].what = "TRIG_SFU"
      PROVE  D[i].frame.seq < D[j].frame.seq
  <2>1. i \in DOMAIN C
    BY <1>5, <1>7
  <2>2. CASE j \in DOMAIN C
    BY <1>2, <1>5, <1>7, <2>1, <2>2 DEF Asks
  <2>3. CASE j = Len(C) + 1
    <3>1. C[i].frame \in Asked(L, p, done)
      BY <1>5, <1>7, <2>1 DEF Asks
    <3>2. C[i].frame.seq < n
      BY <3>1 DEF Asked
    <3> QED BY <1>5, <2>1, <2>3, <3>2
  <2> QED BY <1>5, <2>2, <2>3
<1> QED BY <1>4, <1>6, <1>7 DEF Asks

LEMMA SyncLeaves ==
  ASSUME Typed, clock[MasterPort[1]].offset = Start[MasterPort[1]],
         NEW L \in LedgerT, Ruled(L), Turning(L), Passing(L),
         NEW p \in Down, NEW f, f \in ToLeave(L, p, clock[p[1]]), NEW out, NEW e,
         Sent(p, f, out, e), f.type = "SYNC", NEW n, n = f.seq, n \notin L.passed[p]
  PROVE  \E U : SyncBooked(U, L, p, n, out, e)
<1>1. n \in Nat /\ f \in FrameT
  BY DEF Sent, FrameT
<1>2. CASE p = MasterPort
  <2>1. f \in Fresh(L)
    BY <1>2 DEF ToLeave
  <2>2. PICK time \in Int : time = now
    BY DEF Typed, ClocksTyped
  <2>3. PICK U : AddedTo(U, L, p, n) /\ U.due[p][n] = 0 /\ U.sent[n] = time
    <3>1. \E U : /\ AddedTo(U, L, p, n) /\ U.due[p][n] = 0
                 /\ U.sent[n] = IF p = MasterPort THEN time ELSE L.sent[n]
      BY <1>1, EntryExists
    <3> QED BY <1>2, <3>1
  <2>4. /\ FrameOK(U, MasterPort, e.frame) /\ e \in InFlight(U, MasterPort, now)
        /\ out.requ = "NONE"
        /\ Pushed(U, MasterPort, n, nic[MasterPort[1]].syncFu, out.nic.syncFu)
    BY <1>2, <2>1, <2>2, <2>3, MasterSync
  <2>5. Allowed(U, L, p, n)
    BY <1>2, <2>3 DEF Allowed
  <2> QED BY <1>2, <2>3, <2>4, <2>5 DEF SyncBooked
<1>3. CASE p # MasterPort
  <2>1. p \in Inner /\ f \in Held(L, Up(p), clock[p[1]])
    BY <1>3 DEF ToLeave, Inner
  <2>2. PICK k \in Nodes, x \in Ports, B \in Down : k = p[1] /\ x = Up(p) /\ B = Before(p)
    BY <2>1, WayUp
  <2>3. PICK Q, res : Q = nic[k].syncFu /\ res = Residence(p, f)
    OBVIOUS
  <2>4. res \in Int
    BY <2>1, <2>2, <2>3, HandlesForeignSync
  <2>5. PICK d \in Int : d = L.due[B][n] + IF L.twoStep[k] THEN res + Asymmetry[x] ELSE 0
    <3>1. PICK asy \in Int : asy = Asymmetry[x]
      BY <2>2, NetworkAssumption
    <3>2. PICK due \in Int : due = L.due[B][n]
      BY <1>1, <2>2, LedgerTyped
    <3>3. due + (IF L.twoStep[k] THEN res + asy ELSE 0) \in Int
      BY <2>4
    <3> QED BY <3>1, <3>2, <3>3
  <2>6. PICK U : AddedTo(U, L, p, n) /\ U.due[p][n] = d
    <3>1. \E U : /\ AddedTo(U, L, p, n) /\ U.due[p][n] = d
                 /\ U.sent[n] = IF p = MasterPort THEN 0 ELSE L.sent[n]
      BY <1>1, EntryExists
    <3> QED BY <3>1
  <2>7. U.due[p][n] = L.due[Before(p)][n] +
           IF L.twoStep[p[1]] THEN Residence(p, f) + Asymmetry[Up(p)] ELSE 0
    BY <2>2, <2>3, <2>5, <2>6
  <2>8. SyncBooked(U, L, p, n, out, e)
    BY <2>1, <2>6, <2>7, InnerSync
  <2> QED BY <2>8
<1> QED BY <1>2, <1>3

LEMMA TransmitSync ==
  ASSUME Typed, clock[MasterPort[1]].offset = Start[MasterPort[1]],
         NEW L, NEW ent, NEW trans, NEW rec, Books(L, ent, trans, rec),
         NEW p \in Down, NEW f, NEW out, NEW e,
         Sent(p, f, out, e), Leaves(p, f, out, e), Requested(p, out), f.type = "SYNC"
  PROVE  \E U, t : U.turned = L.turned /\ Books(U, ent, t, rec)'
<1>1. p \in Ports /\ UNCHANGED <<config, now, clock, ingress, sync>>
  BY WayDown DEF Leaves
<1>2. PICK Q \in Seq(FrameT) :
        Q = egress[p] /\ Q # <<>> /\ f = Head(Q) /\ egress'[p] = Tail(Q)
  BY OutTail
<1>3. PICK m \in MarkT, t \in MarkT, r \in MarkT : m = ent[p] /\ t = trans[p] /\ r = rec[p]
  BY DEF Books, MarksOf
<1>4. PICK n \in Nat : n = f.seq
  BY DEF Sent, FrameT
<1>5. PICK two \in BOOLEAN : two = (p \in L.turned)
  <2>1. (p \in L.turned) \in BOOLEAN
    BY <1>1, LedgerTyped DEF Books
  <2> QED BY <2>1, Zenon
<1>6. PICK t2 : t2 = Mark(f, t)
  OBVIOUS
<1>7. f \in FrameT /\ e.frame \in FrameT /\ e \in WireT
  BY DEF Sent, WireT
<1>8. Fits(f, t) /\ Between(Tail(Q), t2, m, two)
  <2>1. Between(Q, t, m, two)
    BY <1>2, <1>3, <1>5 DEF Books, OrderedOut
  <2> QED BY <1>2, <1>6, <2>1, GoesOut
<1>9. t2 \in MarkT /\ t2.s = n /\ t2.f = t.f /\ t.s < n /\ t.s \in Int /\ t.f \in Int
  <2>1. t2 \in MarkT /\ t2.s = n /\ t2.f = t.f
    BY <1>4, <1>6, <1>7, <1>8, MarkTyped
  <2>2. t.s < n
    BY <1>4, <1>8 DEF Fits
  <2> QED BY <2>1, <2>2 DEF MarkT
<1>10. PICK trans2 : trans2 = [trans EXCEPT ![p] = t2]
  OBVIOUS
<1>11. trans2 \in MarksOf(Down) /\ trans2[p] = t2 /\ Elsewhere(trans2, trans, p)
  BY <1>9, <1>10 DEF Books, MarksOf, Elsewhere
<1>12. \A k \in L.passed[p] : k < n
  <2>1. SUFFICES ASSUME NEW k \in L.passed[p] PROVE k < n
    OBVIOUS
  <2>2. k \in Nat /\ k <= t.s
    BY <1>3, LedgerTyped DEF Books, Counted
  <2> QED BY <1>9, <2>2
<1>13. f \in ToLeave(L, p, clock[p[1]])
  <2>1. PICK S : S = ToLeave(L, p, clock[p[1]])
    OBVIOUS
  <2>2. Q \in Seq(S)
    BY <1>2, <2>1 DEF Books, TrueOut
  <2> QED BY <1>2, <2>1, <2>2
<1>14. PICK U : SyncBooked(U, L, p, n, out, e)
  <2>1. n \notin L.passed[p]
    BY <1>12
  <2> QED BY <1>4, <1>13, <2>1, SyncLeaves DEF Books
<1>15. /\ AddedTo(U, L, p, n) /\ Allowed(U, L, p, n) /\ Passing(L)
       /\ U.turned = L.turned /\ U.mechanism = L.mechanism /\ U.twoStep = L.twoStep
       /\ U \in LedgerT
  BY <1>14 DEF SyncBooked, AddedTo, Books
<1>16. TrueOn(U) /\ TrueIn(U) /\ TrueOut(U)
  BY <1>3, <1>9, <1>15, QueuesLater
<1>17. Passing(U) /\ Turning(U) /\ Ruled(U)'
  <2>1. Passing(U)
    BY <1>15, PassingLater
  <2>2. Turning(L) /\ Ruled(L)
    BY DEF Books
  <2> QED BY <1>1, <1>15, <2>1, <2>2 DEF Turning, Ruled
<1>18. OrderedOut(U, ent, trans2)' /\ TrueOut(U)'
  <2>1. OrderedOut(L, ent, trans)
    BY DEF Books
  <2>2. OrderedOut(U, ent, trans)
    BY <1>15, <2>1 DEF OrderedOut
  <2>3. Elsewhere(ent, ent, p)
    BY DEF Elsewhere
  <2>4. Between(egress'[p], trans2[p], ent[p], p \in U.turned)
    BY <1>2, <1>3, <1>5, <1>8, <1>11, <1>15
  <2>5. egress'[p] \in Seq(ToLeave(U, p, clock[p[1]]))
    <3>1. PICK S : S = ToLeave(U, p, clock[p[1]])
      OBVIOUS
    <3>2. Q \in Seq(S)
      BY <1>2, <1>16, <3>1 DEF TrueOut
    <3>3. Tail(Q) \in Seq(S)
      BY <1>2, <3>2
    <3> QED BY <1>2, <3>1, <3>3
  <2>6. p \in Inner /\ Before(p) \notin U.turned => ent[p].f <= trans2[p].s
    <3>1. SUFFICES ASSUME p \in Inner, Before(p) \notin U.turned PROVE m.f <= t2.s
      BY <1>3, <1>11
    <3>2. m.f <= t.s
      BY <1>3, <2>2, <3>1 DEF OrderedOut
    <3>3. m.f \in Int
      BY DEF MarkT
    <3> QED BY <1>9, <3>2, <3>3
  <2>7. ent[MasterPort].s < sync'[MasterPort].sequId
    BY <1>1, <2>1 DEF OrderedOut
  <2>8. OutElsewhere(p) /\ clock' = clock
    BY <1>1, OutTail
  <2> QED BY <1>11, <1>16, <2>2, <2>3, <2>4, <2>5, <2>6, <2>7, <2>8, OutAt
<1>19. OrderedOn(U, trans2, rec)' /\ TrueOn(U)'
  <2>1. OrderedOn(U, trans, rec)
    BY <1>15 DEF Books, OrderedOn
  <2>2. PICK W \in Seq(WireT), g \in FrameT : W = wire[p] /\ g = e.frame
    BY <1>1, <1>7 DEF Typed, WireTyping
  <2>3. PICK F \in Seq(FrameT) : F = Frames(W)
    BY <2>2, FramesOf
  <2>4. Between(F, r, t, two)
    BY <1>3, <1>5, <1>15, <2>1, <2>2, <2>3 DEF OrderedOn
  <2>5. g.type = f.type /\ g.seq = f.seq
    BY <2>2 DEF Sent
  <2>6. Fits(g, t) /\ Mark(g, t) = t2
    BY <1>6, <1>8, <2>5, MarkOf, FitsAlike
  <2>7. Between(Append(F, g), r, Mark(g, t), two)
    BY <2>4, <2>5, <2>6, ComesIn
  <2>8. Between(Append(Frames(wire[p]), e.frame), rec[p], trans2[p], p \in U.turned)
    BY <1>3, <1>5, <1>11, <1>15, <2>2, <2>3, <2>6, <2>7
  <2>9. e \in InFlight(U, p, now)
    BY <1>14 DEF SyncBooked
  <2>10. now' = now /\ wire' = [wire EXCEPT ![p] = Append(@, e)]
    BY DEF Leaves
  <2> QED BY <1>11, <1>16, <2>1, <2>8, <2>9, <2>10, WireOn
<1>20. OrderedIn(U, ent, rec)' /\ TrueIn(U)'
  BY <1>1, <1>15, <1>16 DEF Books, OrderedIn, TrueIn
<1>21. TrueMemory(U, trans2)'
  <2>1. SUFFICES ASSUME NEW q \in Down PROVE Remembers(U, q, nic'[q[1]].syncFu, trans2[q].f)
    BY DEF TrueMemory
  <2>2. CASE q = p
    <3>1. PICK M, R, k : M = nic[p[1]].syncFu /\ R = out.nic.syncFu /\ k = t.f
      OBVIOUS
    <3>2. Remembers(L, p, M, k) /\ Pushed(U, p, n, M, R) /\ k \in Int
      BY <1>3, <1>9, <1>14, <3>1 DEF Books, TrueMemory, SyncBooked
    <3>3. Remembers(U, p, R, k)
      BY <1>12, <1>15, <3>2, PushMemory
    <3>4. nic'[p[1]] = out.nic
      BY <1>1, NicAt
    <3> QED BY <1>9, <1>11, <2>2, <3>1, <3>3, <3>4
  <2>3. CASE q # p
    <3>1. q[1] # p[1] /\ q \in Ports
      BY <2>3, OneDownEach, WayDown
    <3>2. nic'[q[1]].syncFu = nic[q[1]].syncFu /\ trans2[q] = trans[q]
      BY <1>1, <1>11, <2>3, <3>1, NicAt DEF Elsewhere
    <3>3. Remembers(L, q, nic[q[1]].syncFu, trans[q].f)
      BY DEF Books, TrueMemory
    <3> QED BY <1>15, <2>3, <3>2, <3>3, RemembersLater
  <2> QED BY <2>2, <2>3
<1>22. Counted(U, trans2)'
  <2>1. SUFFICES ASSUME NEW q \in Down, NEW k \in U.passed[q] PROVE k <= trans2[q].s
    BY DEF Counted
  <2>2. CASE q = p
    <3>1. k \in L.passed[p] \/ k = n
      BY <1>15, <2>2 DEF AddedTo
    <3>2. k \in Nat
      BY <1>15, LedgerTyped
    <3>3. k <= n
      BY <1>12, <3>1, <3>2
    <3> QED BY <1>9, <1>11, <2>2, <3>3
  <2>3. CASE q # p
    <3>1. k \in L.passed[q] /\ trans2[q] = trans[q]
      BY <1>11, <1>15, <2>3 DEF AddedTo, Elsewhere
    <3> QED BY <3>1 DEF Books, Counted
  <2> QED BY <2>2, <2>3
<1>23. TrueStore(U)'
  <2>1. TrueStore(U)
    BY <1>15, StoreLater DEF Books
  <2> QED BY <1>1, <2>1 DEF TrueStore
<1>24. TrueRequests(U, ent)'
  <2>1. SUFFICES ASSUME NEW q \in Inner PROVE Asks(U, q, control'[q[1]], ent[q].f)
    BY DEF TrueRequests
  <2>2. Asks(L, q, control[q[1]], ent[q].f)
    BY DEF Books, TrueRequests
  <2>3. Asks(U, q, control[q[1]], ent[q].f)
    BY <1>15, <2>2, AsksLater
  <2>4. control = [k \in Nodes |-> control[k]]
    BY DEF Typed, ControlTyped
  <2>5. CASE out.requ = "NONE" \/ q # p
    <3>1. q[1] \in Nodes /\ (q # p => q[1] # p[1])
      BY OneDownEach, WayDown
    <3>2. control'[q[1]] = control[q[1]]
      BY <2>4, <2>5, <3>1 DEF Requested
    <3> QED BY <2>3, <3>2
  <2>6. CASE out.requ # "NONE" /\ q = p
    <3>1. PICK a : a = [what |-> out.requ, port |-> p, frame |-> out.frame]
      OBVIOUS
    <3>2. /\ out.requ = "TRIG_SFU" /\ p \in Inner /\ p \in L.turned /\ Before(p) \notin L.turned
          /\ out.frame \in FrameT /\ out.frame.seq = n /\ TrueStart(U, out.frame)
      BY <1>14, <2>6 DEF SyncBooked
    <3>3. a.what = "TRIG_SFU" /\ a.frame = out.frame
      BY <3>1, <3>2
    <3>4. PICK k \in Int : k = ent[p].f
      BY <1>3 DEF MarkT
    <3>5. PICK C : C = control[p[1]]
      OBVIOUS
    <3>6. C \in Seq(Messages(p[1])) /\ p[1] \in Nodes
      BY <1>1, <3>5, PortTypes DEF Typed, ControlTyped
    <3>7. k < n
      BY <1>3, <1>9, <3>2, <3>4 DEF Books, OrderedOut
    <3>8. Asks(U, p, Append(C, a), k)
      BY <1>12, <1>15, <2>2, <2>6, <3>2, <3>3, <3>4, <3>6, <3>7, <3>5, PushRequest
    <3>9. control'[p[1]] = Append(C, a)
      BY <2>4, <2>6, <3>1, <3>6, <3>5 DEF Requested
    <3> QED BY <2>6, <3>4, <3>8, <3>9
  <2> QED BY <2>5, <2>6
<1>25. Books(U, ent, trans2, rec)'
  BY <1>11, <1>15, <1>17, <1>18, <1>19, <1>20, <1>21, <1>22, <1>23, <1>24 DEF Books
<1> QED BY <1>15, <1>25

LEMMA TransmitBooked ==
  ASSUME Typed, clock[MasterPort[1]].offset = Start[MasterPort[1]],
         NEW L, NEW ent, NEW trans, NEW rec, Books(L, ent, trans, rec),
         NEW p \in Ports, Transmit(p)
  PROVE  \E U, t : U.turned = L.turned /\ Books(U, ent, t, rec)'
<1>1. PICK f, out, e : Sent(p, f, out, e) /\ Leaves(p, f, out, e) /\ Requested(p, out)
  BY TransmitLeaves
<1>2. CASE p \notin Down
  BY <1>1, <1>2, TransmitAway
<1>3. CASE p \in Down /\ f.type = "SYNC"
  BY <1>1, <1>3, TransmitSync
<1>4. CASE p \in Down /\ f.type = "FOLLOW_UP"
  BY <1>1, <1>4, TransmitFollowUp
<1>5. CASE p \in Down /\ f.type \notin {"SYNC", "FOLLOW_UP"}
  BY <1>1, <1>5, TransmitPlain
<1> QED BY <1>2, <1>3, <1>4, <1>5

-----------------------------------------------------------------------------
(* The offset of the slave *)

\* What a step leaves of the samples and of the master's clock.
SamplesTrue == OffsetIsTrue' /\ clock'[MasterPort[1]] = clock[MasterPort[1]]

\* The books are kept in every step.
LEMMA BooksNext ==
  ASSUME Typed, OffsetIsTrue, clock[MasterPort[1]].offset = Start[MasterPort[1]],
         NEW L, NEW ent, NEW trans, NEW rec, Books(L, ent, trans, rec), Next
  PROVE  SamplesTrue /\ \E U, e, t, r : U.turned = L.turned /\ Books(U, e, t, r)'
<1>1. UNCHANGED <<sample, clock>> => SamplesTrue
  BY DEF SamplesTrue, OffsetIsTrue
<1>2. CASE SendSync
  BY <1>1, <1>2, SendSyncBooked DEF SendSync
<1>3. CASE SendDelayReq
  BY <1>1, <1>3, SendDelayReqBooked DEF SendDelayReq
<1>4. CASE \E p \in Requesters : SendPDelayReq(p)
  <2>1. PICK p \in Ports : SendPDelayReq(p)
    BY <1>4, NetworkAssumption
  <2> QED BY <1>1, <2>1, SendPDelayReqBooked DEF SendPDelayReq
<1>5. ASSUME NEW p \in Ports, Transmit(p)
      PROVE  SamplesTrue /\ \E U, e, t, r : U.turned = L.turned /\ Books(U, e, t, r)'
  BY <1>1, <1>5, TransmitBooked DEF Transmit
<1>6. ASSUME NEW p \in Ports, Receive(p)
      PROVE  SamplesTrue /\ \E U, e, t, r : U.turned = L.turned /\ Books(U, e, t, r)'
  BY <1>1, <1>6, ReceiveBooked DEF Receive
<1>7. ASSUME NEW p \in Ports, Lose(p)
      PROVE  SamplesTrue /\ \E U, e, t, r : U.turned = L.turned /\ Books(U, e, t, r)'
  BY <1>1, <1>7, LoseBooked DEF Lose
<1>8. ASSUME NEW p \in Ports, Deliver(p)
      PROVE  SamplesTrue /\ \E U, e, t, r : U.turned = L.turned /\ Books(U, e, t, r)'
  BY <1>8, DeliverBooked DEF SamplesTrue
<1>9. ASSUME NEW n \in Nodes, Control(n)
      PROVE  SamplesTrue /\ \E U, e, t, r : U.turned = L.turned /\ Books(U, e, t, r)'
  <2>1. UNCHANGED <<sample, clock>>
    BY <1>9 DEF Control
  <2>2. CASE Head(control[n]).what = "TRIG_SFU"
    BY <1>1, <1>9, <2>1, <2>2, TriggerBooked
  <2>3. CASE Head(control[n]).what # "TRIG_SFU"
    BY <1>1, <1>9, <2>1, <2>3, UpdateBooked
  <2> QED BY <2>2, <2>3
<1>10. ASSUME NEW n \in Nodes, JumpTransparent(n)
       PROVE  SamplesTrue /\ \E U, e, t, r : U.turned = L.turned /\ Books(U, e, t, r)'
  BY <1>10, JumpTransparentBooked DEF SamplesTrue, OffsetIsTrue
<1>11. CASE Elapse
  BY <1>1, <1>11, ElapseBooked DEF Elapse
<1> QED BY <1>2, <1>3, <1>4, <1>5, <1>6, <1>7, <1>8, <1>9, <1>10, <1>11 DEF Next

LEMMA BooksStutter ==
  ASSUME NEW L, NEW ent, NEW trans, NEW rec, Books(L, ent, trans, rec), UNCHANGED vars
  PROVE  Books(L, ent, trans, rec)'
<1>1. UNCHANGED <<config, now, clock, nic, ingress, egress, wire, control, sync>>
  BY DEF vars
<1>2. Ruled(L)' /\ OrderedOut(L, ent, trans)' /\ OrderedOn(L, trans, rec)'
      /\ OrderedIn(L, ent, rec)'
  BY <1>1 DEF Books, Ruled, OrderedOut, OrderedOn, OrderedIn
<1>3. TrueOut(L)' /\ TrueOn(L)' /\ TrueIn(L)'
  BY <1>1 DEF Books, TrueOut, TrueOn, TrueIn
<1>4. TrueMemory(L, trans)' /\ TrueRequests(L, ent)' /\ TrueStore(L)'
  BY <1>1 DEF Books, TrueMemory, TrueRequests, TrueStore
<1> QED BY <1>2, <1>3, <1>4 DEF Books, Counted

LEMMA AccountedNext == Accounted /\ [Next]_vars => Accounted'
<1> SUFFICES ASSUME Accounted, [Next]_vars PROVE Accounted'
  OBVIOUS
<1>1. Typed'
  BY TypedNext DEF Accounted
<1>2. PICK L, ent, trans, rec : Books(L, ent, trans, rec)
  BY DEF Accounted
<1>3. SamplesTrue /\ \E U, e, t, r : U.turned = L.turned /\ Books(U, e, t, r)'
  <2>1. CASE Next
    BY <1>2, <2>1, BooksNext DEF Accounted
  <2>2. CASE UNCHANGED vars
    <3>1. Books(L, ent, trans, rec)'
      BY <1>2, <2>2, BooksStutter
    <3>2. SamplesTrue
      BY <2>2 DEF vars, SamplesTrue, OffsetIsTrue, Accounted
    <3> QED BY <3>1, <3>2
  <2> QED BY <2>1, <2>2
<1>4. OffsetIsTrue' /\ clock'[MasterPort[1]].offset = Start[MasterPort[1]]
  BY <1>3 DEF SamplesTrue, Accounted
<1> QED BY <1>1, <1>3, <1>4 DEF Accounted

\* What the slave takes for its offset is the true one, but for the error of the path delay
\* it knows: along a chain of any number of transparent clocks, whichever of the clocks
\* work in one or in two steps, however long frames wait and whichever are lost.
THEOREM OffsetAlwaysTrue == Spec => []OffsetIsTrue
<1>1. Accounted => OffsetIsTrue
  BY DEF Accounted
<1> QED BY <1>1, BooksOpen, AccountedNext, PTL DEF Spec

-----------------------------------------------------------------------------
(* How far the Syncs have come while none is lost *)

\* A frame passes a place: its number is the last that has come by, of Syncs or of
\* Follow_Ups.
Pass(f, m) ==
  [s |-> IF f.type = "SYNC" THEN f.seq ELSE m.s,
   f |-> IF f.type = "FOLLOW_UP" THEN f.seq ELSE m.f]

\* The number hi is that of the last frame of the type in Q, lo if there is none.
Last(Q, type, lo, hi) ==
  \/ hi = lo /\ \A i \in DOMAIN Q : Q[i].type # type
  \/ \E i \in DOMAIN Q : /\ Q[i].type = type /\ Q[i].seq = hi
                         /\ \A j \in DOMAIN Q : i < j => Q[j].type # type

\* A queue between two places by which the last frames lo and hi have come; two tells
\* whether Follow_Ups come this way.  No Follow_Up overtakes its Sync.
Exact(Q, lo, hi, two) ==
  /\ lo.s \in Int /\ hi.s \in Int /\ lo.s <= hi.s
  /\ \A i \in DOMAIN Q : Q[i].type = "SYNC" => lo.s < Q[i].seq /\ Q[i].seq <= hi.s
  /\ \A i, j \in DOMAIN Q :
       i < j /\ Q[i].type = "SYNC" /\ Q[j].type = "SYNC" => Q[i].seq < Q[j].seq
  /\ \A i \in DOMAIN Q : Q[i].type = "FOLLOW_UP" =>
       \/ Q[i].seq <= lo.s
       \/ \E j \in DOMAIN Q : j < i /\ Q[j].type = "SYNC" /\ Q[i].seq <= Q[j].seq
  /\ Last(Q, "SYNC", lo.s, hi.s)
  /\ two => Last(Q, "FOLLOW_UP", lo.f, hi.f)

LEMMA LastIn ==
  ASSUME NEW T, NEW Q \in Seq(T), NEW f, NEW type, NEW lo, NEW hi, Last(Q, type, lo, hi),
         NEW hi2, hi2 = IF f.type = type THEN f.seq ELSE hi
  PROVE  Last(Append(Q, f), type, lo, hi2)
<1>1. PICK R : R = Append(Q, f)
  OBVIOUS
<1>2. /\ DOMAIN R = 1 .. Len(Q) + 1 /\ DOMAIN Q = 1 .. Len(Q) /\ Len(Q) \in Nat
      /\ R[Len(Q) + 1] = f /\ \A i \in 1 .. Len(Q) : R[i] = Q[i]
  BY <1>1
<1>3. CASE f.type = type
  <2>1. Len(Q) + 1 \in DOMAIN R /\ \A j \in DOMAIN R : ~(Len(Q) + 1 < j)
    BY <1>2
  <2> QED BY <1>1, <1>2, <1>3, <2>1 DEF Last
<1>4. CASE f.type # type /\ hi = lo /\ \A i \in DOMAIN Q : Q[i].type # type
  <2>1. \A i \in DOMAIN R : R[i].type # type
    BY <1>2, <1>4
  <2> QED BY <1>1, <1>4, <2>1 DEF Last
<1>5. CASE f.type # type /\ \E i \in DOMAIN Q :
             /\ Q[i].type = type /\ Q[i].seq = hi
             /\ \A j \in DOMAIN Q : i < j => Q[j].type # type
  <2>1. PICK i \in DOMAIN Q : /\ Q[i].type = type /\ Q[i].seq = hi
                              /\ \A j \in DOMAIN Q : i < j => Q[j].type # type
    BY <1>5
  <2>2. i \in DOMAIN R /\ R[i].type = type /\ R[i].seq = hi
    BY <1>2, <2>1
  <2>3. \A j \in DOMAIN R : i < j => R[j].type # type
    BY <1>2, <1>5, <2>1
  <2> QED BY <1>1, <1>5, <2>2, <2>3 DEF Last
<1> QED BY <1>3, <1>4, <1>5 DEF Last

LEMMA LastOut ==
  ASSUME NEW T, NEW Q \in Seq(T), Q # <<>>, NEW type, NEW lo, NEW hi, Last(Q, type, lo, hi),
         NEW lo2, lo2 = IF Head(Q).type = type THEN Head(Q).seq ELSE lo
  PROVE  Last(Tail(Q), type, lo2, hi)
<1>1. PICK R : R = Tail(Q)
  OBVIOUS
<1>2. /\ DOMAIN R = 1 .. Len(Q) - 1 /\ DOMAIN Q = 1 .. Len(Q) /\ Len(Q) \in Nat /\ Len(Q) > 0
      /\ Head(Q) = Q[1] /\ \A i \in DOMAIN R : R[i] = Q[i + 1]
  BY <1>1
<1>3. CASE hi = lo /\ \A i \in DOMAIN Q : Q[i].type # type
  <2>1. \A i \in DOMAIN R : R[i].type # type
    BY <1>2, <1>3
  <2>2. lo2 = lo
    BY <1>2, <1>3
  <2> QED BY <1>1, <1>3, <2>1, <2>2 DEF Last
<1>4. ASSUME NEW i \in DOMAIN Q, Q[i].type = type, Q[i].seq = hi,
             \A j \in DOMAIN Q : i < j => Q[j].type # type
      PROVE  Last(R, type, lo2, hi)
  <2>1. CASE i = 1
    <3>1. lo2 = hi
      BY <1>2, <1>4, <2>1
    <3>2. \A j \in DOMAIN R : R[j].type # type
      BY <1>2, <1>4, <2>1
    <3> QED BY <3>1, <3>2 DEF Last
  <2>2. CASE i # 1
    <3>1. PICK k : k = i - 1
      OBVIOUS
    <3>2. k \in DOMAIN R /\ R[k] = Q[i]
      BY <1>2, <2>2, <3>1
    <3>3. \A j \in DOMAIN R : k < j => R[j].type # type
      BY <1>2, <1>4, <3>1
    <3> QED BY <1>4, <3>2, <3>3 DEF Last
  <2> QED BY <2>1, <2>2
<1> QED BY <1>1, <1>3, <1>4 DEF Last

\* A frame comes into a queue.
LEMMA ExactIn ==
  ASSUME NEW Q \in Seq(FrameT), NEW lo, NEW hi, NEW two, Exact(Q, lo, hi, two),
         NEW f \in FrameT, f.type = "SYNC" => hi.s < f.seq,
         f.type = "FOLLOW_UP" => f.seq <= hi.s
  PROVE  Exact(Append(Q, f), lo, Pass(f, hi), two)
<1>1. PICK R, up : R = Append(Q, f) /\ up = Pass(f, hi)
  OBVIOUS
<1>2. /\ DOMAIN R = 1 .. Len(Q) + 1 /\ DOMAIN Q = 1 .. Len(Q) /\ Len(Q) \in Nat
      /\ R[Len(Q) + 1] = f /\ (\A i \in 1 .. Len(Q) : R[i] = Q[i]) /\ R \in Seq(FrameT)
  BY <1>1
<1>3. /\ up.s = IF f.type = "SYNC" THEN f.seq ELSE hi.s
      /\ up.f = IF f.type = "FOLLOW_UP" THEN f.seq ELSE hi.f
  BY <1>1 DEF Pass
<1>4. \A i \in DOMAIN Q : Q[i] \in FrameT
  BY <1>2
<1>5. f \in FrameT
  BY <1>2, <1>4
<1>6. f.seq \in Nat /\ \A i \in DOMAIN Q : Q[i].seq \in Nat
  BY <1>4, <1>5 DEF FrameT
<1>7. PICK us : us = up.s
  OBVIOUS
<1>8. PICK ls \in Int, hs \in Int : ls = lo.s /\ hs = hi.s /\ us = up.s /\ ls <= hs
  BY <1>7 DEF Exact
<1>9. us \in Int /\ hs <= us /\ (f.type = "SYNC" => us = f.seq /\ hs < us)
  BY <1>3, <1>6, <1>8
<1>10. \A i \in DOMAIN Q : Q[i].type = "SYNC" => ls < Q[i].seq /\ Q[i].seq <= hs
  BY <1>8 DEF Exact
<1>11. ASSUME NEW i \in DOMAIN R, R[i].type = "SYNC" PROVE ls < R[i].seq /\ R[i].seq <= us
  <2>1. CASE i \in DOMAIN Q
    BY <1>2, <1>6, <1>8, <1>9, <1>10, <1>11, <2>1
  <2>2. CASE i = Len(Q) + 1
    BY <1>2, <1>6, <1>8, <1>9, <1>11, <2>2
  <2> QED BY <1>2, <2>1, <2>2
<1>12. ASSUME NEW i \in DOMAIN R, NEW j \in DOMAIN R, i < j, R[i].type = "SYNC", R[j].type = "SYNC"
      PROVE  R[i].seq < R[j].seq
  <2>1. i \in DOMAIN Q
    BY <1>2, <1>12
  <2>2. CASE j \in DOMAIN Q
    BY <1>2, <1>12, <2>1, <2>2 DEF Exact
  <2>3. CASE j = Len(Q) + 1
    BY <1>2, <1>6, <1>8, <1>9, <1>10, <1>12, <2>1, <2>3
  <2> QED BY <1>2, <2>2, <2>3
<1>13. ASSUME NEW i \in DOMAIN R, R[i].type = "FOLLOW_UP"
       PROVE  \/ R[i].seq <= ls
              \/ \E j \in DOMAIN R : j < i /\ R[j].type = "SYNC" /\ R[i].seq <= R[j].seq
  <2>1. CASE i \in DOMAIN Q
    <3>1. R[i] = Q[i] /\ \A j \in DOMAIN Q : j \in DOMAIN R /\ R[j] = Q[j]
      BY <1>2, <2>1
    <3>2. \/ Q[i].seq <= ls
          \/ \E j \in DOMAIN Q : j < i /\ Q[j].type = "SYNC" /\ Q[i].seq <= Q[j].seq
      BY <1>8, <1>13, <2>1, <3>1 DEF Exact
    <3> QED BY <3>1, <3>2
  <2>2. CASE i = Len(Q) + 1
    <3>1. R[i] = f /\ f.seq <= hs
      BY <1>2, <1>8, <1>13, <2>2
    <3>2. hs = ls \/ \E j \in DOMAIN Q : Q[j].type = "SYNC" /\ Q[j].seq = hs
      BY <1>8 DEF Exact, Last
    <3>3. \A j \in DOMAIN Q : j \in DOMAIN R /\ R[j] = Q[j] /\ j < i
      BY <1>2, <2>2
    <3> QED BY <3>1, <3>2, <3>3
  <2> QED BY <1>2, <2>1, <2>2
<1>14. Last(R, "SYNC", lo.s, up.s)
  BY <1>1, <1>3, LastIn DEF Exact
<1>15. two => Last(R, "FOLLOW_UP", lo.f, up.f)
  BY <1>1, <1>3, LastIn DEF Exact
<1>16. ls <= us
  BY <1>8, <1>9
<1> QED BY <1>1, <1>8, <1>9, <1>11, <1>12, <1>13, <1>14, <1>15, <1>16 DEF Exact

\* The first frame leaves a queue.
LEMMA ExactOut ==
  ASSUME NEW Q \in Seq(FrameT), Q # <<>>, NEW lo, NEW hi, NEW two, Exact(Q, lo, hi, two),
         NEW f, f = Head(Q)
  PROVE  /\ Exact(Tail(Q), Pass(f, lo), hi, two)
         /\ f.type = "SYNC" => lo.s < f.seq
         /\ f.type = "FOLLOW_UP" => f.seq <= lo.s
<1>1. PICK R, up : R = Tail(Q) /\ up = Pass(f, lo)
  OBVIOUS
<1>2. /\ DOMAIN R = 1 .. Len(Q) - 1 /\ DOMAIN Q = 1 .. Len(Q) /\ Len(Q) \in Nat /\ Len(Q) > 0
      /\ f = Q[1] /\ \A i \in DOMAIN R : i + 1 \in DOMAIN Q /\ R[i] = Q[i + 1]
  BY <1>1
<1>3. /\ up.s = IF f.type = "SYNC" THEN f.seq ELSE lo.s
      /\ up.f = IF f.type = "FOLLOW_UP" THEN f.seq ELSE lo.f
  BY <1>1 DEF Pass
<1>4. \A i \in DOMAIN Q : Q[i] \in FrameT
  BY <1>2
<1>5. f \in FrameT
  BY <1>2, <1>4
<1>6. f.seq \in Nat /\ \A i \in DOMAIN Q : Q[i].seq \in Nat
  BY <1>4, <1>5 DEF FrameT
<1>7. PICK us : us = up.s
  OBVIOUS
<1>8. PICK ls \in Int, hs \in Int : ls = lo.s /\ hs = hi.s /\ us = up.s /\ ls <= hs
  BY <1>7 DEF Exact
<1>9. \A i \in DOMAIN Q : Q[i].type = "SYNC" => ls < Q[i].seq /\ Q[i].seq <= hs
  BY <1>8 DEF Exact
<1>10. us \in Int /\ ls <= us /\ us <= hs /\ (f.type = "SYNC" => ls < f.seq /\ us = f.seq)
      /\ (f.type # "SYNC" => us = ls)
  BY <1>2, <1>3, <1>6, <1>8, <1>9
<1>11. f.type = "FOLLOW_UP" => f.seq <= ls
  <2>1. \A j \in DOMAIN Q : ~(j < 1)
    BY <1>2
  <2>2. 1 \in DOMAIN Q
    BY <1>2
  <2> QED BY <1>2, <1>8, <2>1, <2>2 DEF Exact
<1>12. ASSUME NEW i \in DOMAIN R, R[i].type = "SYNC" PROVE us < R[i].seq /\ R[i].seq <= hs
  <2>1. PICK k \in DOMAIN Q : k = i + 1 /\ R[i] = Q[k]
    BY <1>2
  <2>2. ls < R[i].seq /\ R[i].seq <= hs
    BY <1>9, <1>12, <2>1
  <2>3. CASE f.type = "SYNC"
    <3>1. 1 < k /\ 1 \in DOMAIN Q
      BY <1>2, <2>1
    <3>2. Q[1].seq < Q[k].seq
      BY <1>2, <1>12, <2>1, <2>3, <3>1 DEF Exact
    <3> QED BY <1>2, <1>10, <2>1, <2>2, <2>3, <3>2
  <2>4. CASE f.type # "SYNC"
    BY <1>10, <2>2, <2>4
  <2> QED BY <2>3, <2>4
<1>13. ASSUME NEW i \in DOMAIN R, NEW j \in DOMAIN R, i < j, R[i].type = "SYNC", R[j].type = "SYNC"
       PROVE  R[i].seq < R[j].seq
  <2>1. i + 1 < j + 1
    BY <1>2, <1>13
  <2> QED BY <1>2, <1>13, <2>1 DEF Exact
<1>14. ASSUME NEW i \in DOMAIN R, R[i].type = "FOLLOW_UP"
       PROVE  \/ R[i].seq <= us
              \/ \E j \in DOMAIN R : j < i /\ R[j].type = "SYNC" /\ R[i].seq <= R[j].seq
  <2>1. PICK k \in DOMAIN Q : k = i + 1 /\ R[i] = Q[k]
    BY <1>2
  <2>2. CASE Q[k].seq <= ls
    BY <1>6, <1>8, <1>10, <2>1, <2>2
  <2>3. CASE \E j \in DOMAIN Q : j < k /\ Q[j].type = "SYNC" /\ Q[k].seq <= Q[j].seq
    <3>1. PICK j \in DOMAIN Q : j < k /\ Q[j].type = "SYNC" /\ Q[k].seq <= Q[j].seq
      BY <2>3
    <3>2. CASE j = 1
      BY <1>2, <1>10, <2>1, <3>1, <3>2
    <3>3. CASE j # 1
      <4>1. PICK m : m = j - 1
        OBVIOUS
      <4>2. m \in DOMAIN R /\ R[m] = Q[j] /\ m < i
        BY <1>2, <2>1, <3>1, <3>3, <4>1
      <4> QED BY <2>1, <3>1, <4>2
    <3> QED BY <3>2, <3>3
  <2> QED BY <1>8, <1>14, <2>1, <2>2, <2>3 DEF Exact
<1>15. Last(R, "SYNC", up.s, hi.s)
  BY <1>1, <1>3, LastOut DEF Exact
<1>16. two => Last(R, "FOLLOW_UP", up.f, hi.f)
  BY <1>1, <1>3, LastOut DEF Exact
<1>17. Exact(R, up, hi, two)
  BY <1>8, <1>10, <1>12, <1>13, <1>14, <1>15, <1>16 DEF Exact
<1> QED BY <1>1, <1>8, <1>10, <1>11, <1>17

\* An empty queue: all has come by both places.
LEMMA ExactEmpty ==
  ASSUME NEW lo, NEW hi, NEW two, Exact(<<>>, lo, hi, two)
  PROVE  hi.s = lo.s /\ (two => hi.f = lo.f)
BY DEF Exact, Last

LEMMA NothingYet ==
  ASSUME NEW two PROVE Exact(<<>>, [s |-> -1, f |-> -1], [s |-> -1, f |-> -1], two)
BY DEF Exact, Last

\* A frame of another type leaves no trace.
LEMMA PassPlain ==
  ASSUME NEW f, f.type \notin {"SYNC", "FOLLOW_UP"}, NEW m, NEW s, NEW n, m = [s |-> s, f |-> n]
  PROVE  Pass(f, m) = m
BY DEF Pass

\* A queue but for frames of another type that come or go.
Alike(R, Q) ==
  \/ R = Q
  \/ Q # <<>> /\ Head(Q) \in Plain /\ R = Tail(Q)
  \/ \E X \in Seq(Plain) : R = Q \o X

PointT == [s : Int, f : Int]

LEMMA PassTyped ==
  ASSUME NEW f \in FrameT, NEW m \in PointT
  PROVE  /\ Pass(f, m) \in PointT
         /\ f.type = "SYNC" => Pass(f, m).s = f.seq /\ Pass(f, m).f = m.f
         /\ f.type = "FOLLOW_UP" => Pass(f, m).s = m.s /\ Pass(f, m).f = f.seq
<1>1. f.seq \in Int /\ m.s \in Int /\ m.f \in Int
  BY DEF FrameT, PointT
<1> QED BY <1>1 DEF Pass, PointT

LEMMA PassAlike ==
  \A f, g, m : f.type = g.type /\ f.seq = g.seq => Pass(f, m) = Pass(g, m)
BY DEF Pass

LEMMA PlainExact ==
  ASSUME NEW Q \in Seq(FrameT), NEW X \in Seq(Plain), NEW lo, NEW hi, NEW two,
         Exact(Q, lo, hi, two)
  PROVE  Exact(Q \o X, lo, hi, two)
<1>1. X \in Seq(FrameT) /\ \A i \in DOMAIN X : X[i] \in Plain
  BY DEF Plain
<1>2. PICK V : V = Q \o X
  OBVIOUS
<1>3. /\ Len(Q) \in Nat /\ DOMAIN Q = 1 .. Len(Q) /\ DOMAIN V = 1 .. (Len(Q) + Len(X))
      /\ Len(X) \in Nat /\ DOMAIN X = 1 .. Len(X)
      /\ \A i \in 1 .. Len(Q) : V[i] = Q[i]
      /\ \A i \in 1 .. Len(X) : V[Len(Q) + i] = X[i]
  BY <1>1, <1>2
<1>4. \A f \in Plain : f.type # "SYNC" /\ f.type # "FOLLOW_UP"
  BY DEF Plain
<1>5. /\ \A i \in DOMAIN Q : i \in DOMAIN V /\ V[i] = Q[i]
      /\ \A i \in DOMAIN V : i \notin DOMAIN Q => V[i].type # "SYNC" /\ V[i].type # "FOLLOW_UP"
  <2>1. \A i \in DOMAIN Q : i \in DOMAIN V /\ V[i] = Q[i]
    BY <1>3
  <2>2. ASSUME NEW i \in DOMAIN V, i \notin DOMAIN Q
        PROVE  V[i].type # "SYNC" /\ V[i].type # "FOLLOW_UP"
    <3>1. i - Len(Q) \in DOMAIN X /\ Len(Q) + (i - Len(Q)) = i
      BY <2>2, <1>3
    <3> QED BY <3>1, <1>1, <1>3, <1>4
  <2> QED BY <2>1, <2>2
<1>6. ASSUME NEW type \in {"SYNC", "FOLLOW_UP"}, NEW a, NEW b, Last(Q, type, a, b)
      PROVE  Last(V, type, a, b)
  <2>1. CASE b = a /\ \A i \in DOMAIN Q : Q[i].type # type
    <3>1. \A i \in DOMAIN V : V[i].type # type
      BY <1>5, <2>1
    <3> QED BY <2>1, <3>1 DEF Last
  <2>2. CASE \E i \in DOMAIN Q : /\ Q[i].type = type /\ Q[i].seq = b
                                 /\ \A j \in DOMAIN Q : i < j => Q[j].type # type
    <3>1. PICK i \in DOMAIN Q : /\ Q[i].type = type /\ Q[i].seq = b
                                /\ \A j \in DOMAIN Q : i < j => Q[j].type # type
      BY <2>2
    <3>2. \A j \in DOMAIN V : i < j => V[j].type # type
      BY <1>5, <3>1
    <3> QED BY <1>5, <3>1, <3>2 DEF Last
  <2> QED BY <1>6, <2>1, <2>2 DEF Last
<1>7. \A i \in DOMAIN V : V[i].type \in {"SYNC", "FOLLOW_UP"} => i \in DOMAIN Q /\ V[i] = Q[i]
  BY <1>5
<1>8. \A i \in DOMAIN V : V[i].type = "FOLLOW_UP" =>
        \/ V[i].seq <= lo.s
        \/ \E j \in DOMAIN V : j < i /\ V[j].type = "SYNC" /\ V[i].seq <= V[j].seq
  <2>1. SUFFICES ASSUME NEW i \in DOMAIN V, V[i].type = "FOLLOW_UP"
                 PROVE  \/ V[i].seq <= lo.s
                        \/ \E j \in DOMAIN V : j < i /\ V[j].type = "SYNC" /\ V[i].seq <= V[j].seq
    OBVIOUS
  <2>2. i \in DOMAIN Q /\ V[i] = Q[i]
    BY <1>7, <2>1
  <2>3. \/ Q[i].seq <= lo.s
        \/ \E j \in DOMAIN Q : j < i /\ Q[j].type = "SYNC" /\ Q[i].seq <= Q[j].seq
    BY <2>1, <2>2 DEF Exact
  <2> QED BY <1>5, <2>2, <2>3
<1>9. /\ Last(V, "SYNC", lo.s, hi.s)
      /\ two => Last(V, "FOLLOW_UP", lo.f, hi.f)
  BY <1>6 DEF Exact
<1>10. /\ lo.s \in Int /\ hi.s \in Int /\ lo.s <= hi.s
       /\ \A i \in DOMAIN V : V[i].type = "SYNC" => lo.s < V[i].seq /\ V[i].seq <= hi.s
       /\ \A i, j \in DOMAIN V :
            i < j /\ V[i].type = "SYNC" /\ V[j].type = "SYNC" => V[i].seq < V[j].seq
  BY <1>7 DEF Exact
<1> QED BY <1>2, <1>8, <1>9, <1>10 DEF Exact

LEMMA AlikeExact ==
  ASSUME NEW Q \in Seq(FrameT), NEW R, Alike(R, Q), NEW lo \in PointT, NEW hi, NEW two,
         Exact(Q, lo, hi, two)
  PROVE  Exact(R, lo, hi, two)
<1>1. CASE R = Q
  BY <1>1
<1>2. CASE Q # <<>> /\ Head(Q) \in Plain /\ R = Tail(Q)
  <2>1. PICK f \in Plain : f = Head(Q)
    BY <1>2
  <2>2. f.type \notin {"SYNC", "FOLLOW_UP"}
    BY DEF Plain
  <2>3. lo = [s |-> lo.s, f |-> lo.f]
    BY DEF PointT
  <2>4. Pass(f, lo) = lo
    BY <2>2, <2>3, PassPlain
  <2> QED BY <1>2, <2>1, <2>4, ExactOut
<1>3. CASE \E X \in Seq(Plain) : R = Q \o X
  BY <1>3, PlainExact
<1> QED BY <1>1, <1>2, <1>3 DEF Alike

\* Where no Follow_Ups come, only the Syncs count.
LEMMA SyncsOnly ==
  ASSUME NEW Q, NEW lo, NEW hi, NEW two, two = FALSE, Exact(Q, lo, hi, two),
         NEW lo2, lo2.s = lo.s, NEW hi2, hi2.s = hi.s
  PROVE  Exact(Q, lo2, hi2, two)
BY DEF Exact

-----------------------------------------------------------------------------
(* The Follow_Ups that the NIC control has yet to request *)

\* The requests of a node, when the Follow_Up of the Sync k was the last that was issued
\* and n is the last Sync that has left.
AllAsked(C, k, n) ==
  /\ \A i \in DOMAIN C : C[i].what = "TRIG_SFU" => C[i].frame.seq <= n
  /\ \/ n = k /\ \A i \in DOMAIN C : C[i].what # "TRIG_SFU"
     \/ \E i \in DOMAIN C : /\ C[i].what = "TRIG_SFU" /\ C[i].frame.seq = n
                            /\ \A j \in DOMAIN C : i < j => C[j].what # "TRIG_SFU"

\* Messages but for those that request no Follow_Up.
Calm(D, C) ==
  \/ D = C
  \/ C # <<>> /\ Head(C).what # "TRIG_SFU" /\ D = Tail(C)
  \/ \E m : m.what # "TRIG_SFU" /\ D = Append(C, m)

LEMMA AskedTail ==
  ASSUME NEW S, NEW C \in Seq(S), C # <<>>, NEW k, NEW n, AllAsked(C, k, n), NEW m, m = Head(C),
         NEW k2, k2 = IF m.what = "TRIG_SFU" THEN m.frame.seq ELSE k
  PROVE  AllAsked(Tail(C), k2, n) /\ (m.what = "TRIG_SFU" => m.frame.seq <= n)
<1>1. PICK D : D = Tail(C)
  OBVIOUS
<1>2. /\ Len(C) \in Nat /\ Len(C) >= 1 /\ DOMAIN C = 1 .. Len(C)
      /\ DOMAIN D = 1 .. (Len(C) - 1) /\ \A i \in DOMAIN D : D[i] = C[i + 1]
      /\ m = C[1]
  BY <1>1
<1>3. \A i \in DOMAIN D : i \in Int /\ i + 1 \in DOMAIN C /\ 1 < i + 1
  BY <1>2
<1>4. 1 \in DOMAIN C
  BY <1>2
<1>5. \A i \in DOMAIN D : D[i].what = "TRIG_SFU" => D[i].frame.seq <= n
  BY <1>2, <1>3 DEF AllAsked
<1>6. CASE n = k /\ \A i \in DOMAIN C : C[i].what # "TRIG_SFU"
  <2>1. \A i \in DOMAIN D : D[i].what # "TRIG_SFU"
    BY <1>2, <1>3, <1>6
  <2>2. k2 = k /\ m.what # "TRIG_SFU"
    BY <1>2, <1>4, <1>6
  <2> QED BY <1>1, <1>5, <1>6, <2>1, <2>2 DEF AllAsked
<1>7. ASSUME NEW i \in DOMAIN C, C[i].what = "TRIG_SFU", C[i].frame.seq = n,
             \A j \in DOMAIN C : i < j => C[j].what # "TRIG_SFU"
      PROVE  AllAsked(D, k2, n)
  <2>1. CASE i = 1
    <3>1. \A j \in DOMAIN D : D[j].what # "TRIG_SFU"
      BY <1>2, <1>3, <1>7, <2>1
    <3>2. k2 = n
      BY <1>2, <1>7, <2>1
    <3> QED BY <1>5, <3>1, <3>2 DEF AllAsked
  <2>2. CASE i # 1
    <3>1. PICK h : h = i - 1
      OBVIOUS
    <3>2. h \in DOMAIN D /\ D[h] = C[i]
      BY <1>2, <2>2, <3>1
    <3>3. \A j \in DOMAIN D : h < j => D[j].what # "TRIG_SFU"
      BY <1>2, <1>3, <1>7, <3>1
    <3> QED BY <1>5, <1>7, <3>2, <3>3 DEF AllAsked
  <2> QED BY <2>1, <2>2
<1>8. AllAsked(D, k2, n)
  BY <1>6, <1>7, <1>1 DEF AllAsked
<1> QED BY <1>1, <1>2, <1>4, <1>8 DEF AllAsked

LEMMA AskedMore ==
  ASSUME NEW S, NEW C \in Seq(S), NEW k, NEW n \in Int, AllAsked(C, k, n), NEW m,
         NEW n2 \in Int, n <= n2, IF m.what = "TRIG_SFU" THEN m.frame.seq = n2 ELSE n2 = n,
         \A i \in DOMAIN C : C[i].what = "TRIG_SFU" => C[i].frame.seq \in Int
  PROVE  AllAsked(Append(C, m), k, n2)
<1>1. PICK D : D = Append(C, m)
  OBVIOUS
<1>2. /\ Len(C) \in Nat /\ DOMAIN C = 1 .. Len(C) /\ DOMAIN D = 1 .. (Len(C) + 1)
      /\ D[Len(C) + 1] = m /\ \A i \in 1 .. Len(C) : D[i] = C[i]
  BY <1>1
<1>3. ASSUME NEW i \in DOMAIN D, D[i].what = "TRIG_SFU" PROVE D[i].frame.seq <= n2
  <2>1. CASE i \in DOMAIN C
    <3>1. D[i] = C[i] /\ C[i].frame.seq <= n /\ C[i].frame.seq \in Int
      BY <1>2, <1>3, <2>1 DEF AllAsked
    <3> QED BY <3>1
  <2>2. CASE i = Len(C) + 1
    BY <1>2, <1>3, <2>2
  <2> QED BY <1>2, <2>1, <2>2
<1>4. CASE m.what = "TRIG_SFU"
  <2>1. Len(C) + 1 \in DOMAIN D /\ \A j \in DOMAIN D : ~(Len(C) + 1 < j)
    BY <1>2
  <2> QED BY <1>1, <1>2, <1>3, <1>4, <2>1 DEF AllAsked
<1>5. CASE m.what # "TRIG_SFU" /\ n = k /\ \A i \in DOMAIN C : C[i].what # "TRIG_SFU"
  <2>1. \A i \in DOMAIN D : D[i].what # "TRIG_SFU"
    BY <1>2, <1>5
  <2> QED BY <1>1, <1>3, <1>5, <2>1 DEF AllAsked
<1>6. ASSUME m.what # "TRIG_SFU", NEW i \in DOMAIN C, C[i].what = "TRIG_SFU",
             C[i].frame.seq = n, \A j \in DOMAIN C : i < j => C[j].what # "TRIG_SFU"
      PROVE  AllAsked(D, k, n2)
  <2>1. i \in DOMAIN D /\ D[i] = C[i]
    BY <1>2
  <2>2. \A j \in DOMAIN D : i < j => D[j].what # "TRIG_SFU"
    BY <1>2, <1>6
  <2> QED BY <1>3, <1>6, <2>1, <2>2 DEF AllAsked
<1> QED BY <1>1, <1>4, <1>5, <1>6 DEF AllAsked

LEMMA CalmAsked ==
  ASSUME NEW S, NEW C \in Seq(S), NEW D, Calm(D, C), NEW k, NEW n \in Int, AllAsked(C, k, n),
         \A i \in DOMAIN C : C[i].what = "TRIG_SFU" => C[i].frame.seq \in Int
  PROVE  AllAsked(D, k, n)
<1>1. CASE D = C
  BY <1>1
<1>2. CASE C # <<>> /\ Head(C).what # "TRIG_SFU" /\ D = Tail(C)
  BY <1>2, AskedTail
<1>3. CASE \E m : m.what # "TRIG_SFU" /\ D = Append(C, m)
  <2>1. PICK m : m.what # "TRIG_SFU" /\ D = Append(C, m)
    BY <1>3
  <2> QED BY <2>1, AskedMore
<1> QED BY <1>1, <1>2, <1>3 DEF Calm

-----------------------------------------------------------------------------
(* While no frame is lost, the marks are those of the last frames *)

PointsOf(S) == [S -> PointT]

\* T: the ports whose Syncs are two-step.
FullOut(T, ent, trans) == \A p \in Down : Exact(egress[p], trans[p], ent[p], p \in T)

FullOn(T, trans, rec) == \A p \in Down : Exact(Frames(wire[p]), rec[p], trans[p], p \in T)

FullIn(T, ent, rec) ==
  \A q \in Ports \ Down : Exact(ingress[q], ent[Onward(q)], rec[Peer[q]], Peer[q] \in T)

\* The last Sync has been issued, with its Follow_Up if that is the way of the master.
FullStart(T, ent) ==
  /\ ent[MasterPort].s = sync[MasterPort].sequId - 1
  /\ MasterPort \in T => ent[MasterPort].f = ent[MasterPort].s

\* Where the first of the two-step clocks is, every Sync has led to a request.
FullRequests(T, ent, trans) ==
  \A p \in Inner : p \in T /\ Before(p) \notin T =>
    AllAsked(control[p[1]], ent[p].f, trans[p].s)

\* The slave has used the last Sync that has come, or waits for its Follow_Up.
FullEnd(T, ent) ==
  LET m == ent[SlavePort]
  IN  IF Peer[SlavePort] \in T
      THEN /\ m.f <= m.s
           /\ m.s = -1 \/ sync[SlavePort].syncSequID = m.s
           /\ m.f = m.s => used = m.s
      ELSE used = m.s

Full(T, ent, trans, rec) ==
  /\ ent \in PointsOf(Down \cup {SlavePort})
  /\ trans \in PointsOf(Down) /\ rec \in PointsOf(Down)
  /\ FullOut(T, ent, trans) /\ FullOn(T, trans, rec) /\ FullIn(T, ent, rec)
  /\ FullStart(T, ent) /\ FullRequests(T, ent, trans) /\ FullEnd(T, ent)

Recorded(L) == \E ent, trans, rec : Books(L, ent, trans, rec)

\* What the books say of the ports whose Syncs are two-step.
OnlyTurned(T) ==
  /\ T \subseteq Down
  /\ MasterPort \in T <=> config.twoStep[MasterPort[1]]
  /\ \A p \in Inner : p \in T /\ Before(p) \notin T => config.twoStep[p[1]]
  /\ \A p \in Inner : config.twoStep[p[1]] \/ Before(p) \in T => p \in T

\* What they say of the frames and requests that are under way.
FramesTurned(T) ==
  /\ \A p \in Down : \A i \in DOMAIN egress[p] : egress[p][i].type = "FOLLOW_UP" => p \in T
  /\ \A p \in Inner : \A i \in DOMAIN egress[p] :
       egress[p][i].type = "SYNC" => egress[p][i].twoStep = (Before(p) \in T)
  /\ \A q \in Ports \ Down : \A i \in DOMAIN ingress[q] :
       /\ ingress[q][i].type = "FOLLOW_UP" => Peer[q] \in T
       /\ ingress[q][i].type = "SYNC" => ingress[q][i].twoStep = (Peer[q] \in T)

RequestsTurned(T) ==
  \A p \in Inner : \A i \in DOMAIN control[p[1]] :
    control[p[1]][i].what = "TRIG_SFU" => p \in T /\ Before(p) \notin T

LEMMA TurnedTold ==
  ASSUME Typed, NEW L, Recorded(L)
  PROVE  OnlyTurned(L.turned) /\ FramesTurned(L.turned) /\ RequestsTurned(L.turned)
<1>1. PICK ent, trans, rec : Books(L, ent, trans, rec)
  BY DEF Recorded
<1>2. PICK T : T = L.turned
  OBVIOUS
<1>3. OnlyTurned(T)
  <2>1. L \in LedgerT /\ Turning(L) /\ Ruled(L)
    BY <1>1 DEF Books
  <2> QED BY <1>2, <2>1, WayDown, WayUp DEF OnlyTurned, Turning, Ruled, LedgerT
<1>4. \A p \in Down : \A i \in DOMAIN egress[p] : egress[p][i].type = "FOLLOW_UP" => p \in T
  BY <1>1, <1>2 DEF Books, OrderedOut, Between
<1>5. \A q \in Ports \ Down : \A i \in DOMAIN ingress[q] :
        ingress[q][i].type = "FOLLOW_UP" => Peer[q] \in T
  BY <1>1, <1>2 DEF Books, OrderedIn, Between
<1>6. ASSUME NEW p \in Inner, NEW i \in DOMAIN egress[p], egress[p][i].type = "SYNC"
      PROVE  egress[p][i].twoStep = (Before(p) \in T)
  <2>1. PICK S : S = Held(L, Up(p), clock[p[1]])
    OBVIOUS
  <2>2. egress[p] \in Seq(S)
    <3>1. p \in Down /\ p # MasterPort
      BY DEF Inner
    <3> QED BY <1>1, <2>1, <3>1 DEF Books, TrueOut, ToLeave
  <2>3. egress[p][i] \in S
    BY <2>2
  <2> QED BY <1>2, <1>6, <2>1, <2>3 DEF Held, FrameOK, Before
<1>7. ASSUME NEW q \in Ports \ Down, NEW i \in DOMAIN ingress[q], ingress[q][i].type = "SYNC"
      PROVE  ingress[q][i].twoStep = (Peer[q] \in T)
  <2>1. PICK S : S = Held(L, q, clock[q[1]])
    OBVIOUS
  <2>2. ingress[q] \in Seq(S)
    BY <1>1, <2>1 DEF Books, TrueIn
  <2>3. ingress[q][i] \in S
    BY <2>2
  <2> QED BY <1>2, <1>7, <2>1, <2>3 DEF Held, FrameOK
<1>8. RequestsTurned(T)
  <2>1. SUFFICES ASSUME NEW p \in Inner, NEW i \in DOMAIN control[p[1]],
                        control[p[1]][i].what = "TRIG_SFU"
                 PROVE  p \in T /\ Before(p) \notin T
    BY DEF RequestsTurned
  <2>2. control[p[1]][i].frame \in Asked(L, p, ent[p].f)
    BY <1>1, <2>1 DEF Books, TrueRequests, Asks
  <2> QED BY <1>2, <2>2 DEF Asked
<1>9. FramesTurned(T)
  BY <1>4, <1>5, <1>6, <1>7 DEF FramesTurned
<1> QED BY <1>2, <1>3, <1>8, <1>9

LEMMA FullAtStart ==
  ASSUME Init, NEW T
  PROVE  \E ent, trans, rec : Full(T, ent, trans, rec)
<1>1. PICK m : m = [s |-> -1, f |-> -1]
  OBVIOUS
<1>2. m \in PointT /\ m.s = -1 /\ m.f = -1
  BY <1>1 DEF PointT
<1>3. PICK ent, marks : ent = [p \in Down \cup {SlavePort} |-> m] /\ marks = [p \in Down |-> m]
  OBVIOUS
<1>4. /\ ent \in PointsOf(Down \cup {SlavePort}) /\ marks \in PointsOf(Down)
      /\ \A p \in Down \cup {SlavePort} : ent[p] = m
      /\ \A p \in Down : marks[p] = m
  BY <1>2, <1>3 DEF PointsOf
<1>5. \A two : Exact(<<>>, m, m, two)
  BY <1>1, NothingYet
<1>6. \A p \in Down : egress[p] = <<>> /\ wire[p] = <<>>
  BY WayDown DEF Init
<1>7. FullOut(T, ent, marks)
  BY <1>4, <1>5, <1>6 DEF FullOut
<1>8. FullOn(T, marks, marks)
  <2>1. Frames(<<>>) = <<>>
    BY DEF Frames
  <2> QED BY <1>4, <1>5, <1>6, <2>1 DEF FullOn
<1>9. FullIn(T, ent, marks)
  <2>1. \A q \in Ports \ Down :
          ingress[q] = <<>> /\ Onward(q) \in Down \cup {SlavePort} /\ Peer[q] \in Down
    BY WayDown DEF Init
  <2> QED BY <1>4, <1>5, <2>1 DEF FullIn
<1>10. FullStart(T, ent)
  <2>1. sync[MasterPort].sequId = 0
    BY DEF Init, AppSync
  <2> QED BY <1>2, <1>4, <2>1, WayDown DEF FullStart
<1>11. FullRequests(T, ent, marks)
  <2>1. \A p \in Inner : control[p[1]] = <<>> /\ p \in Down
    BY WayUp, WayDown DEF Init
  <2>2. AllAsked(<<>>, -1, -1)
    BY DEF AllAsked
  <2> QED BY <1>2, <1>4, <2>1, <2>2 DEF FullRequests
<1>12. FullEnd(T, ent)
  <2>1. used = -1
    BY DEF Init
  <2> QED BY <1>2, <1>4, <2>1 DEF FullEnd
<1> QED BY <1>4, <1>7, <1>8, <1>9, <1>10, <1>11, <1>12 DEF Full

\* A step that neither Sync nor Follow_Up takes part in.
NoneFlows ==
  /\ \A p \in Down : Alike(egress'[p], egress[p]) /\ Alike(Frames(wire'[p]), Frames(wire[p]))
  /\ \A q \in Ports \ Down : Alike(ingress'[q], ingress[q])
  /\ \A p \in Inner : Calm(control'[p[1]], control[p[1]])
  /\ UNCHANGED <<sync, used>>

\* The numbers of the requests of a node.
LEMMA RequestsTyped ==
  ASSUME Typed, NEW p \in Inner
  PROVE  /\ control[p[1]] \in Seq(Messages(p[1]))
         /\ \A i \in DOMAIN control[p[1]] : control[p[1]][i].what = "TRIG_SFU" =>
              /\ control[p[1]][i] \in Requests(p[1])
              /\ control[p[1]][i].frame.seq \in Int
<1>1. PICK n \in Nodes : n = p[1]
  BY WayUp
<1>2. PICK C \in Seq(Messages(n)) : C = control[n]
  BY DEF Typed, ControlTyped
<1>3. ASSUME NEW i \in DOMAIN C, C[i].what = "TRIG_SFU"
      PROVE  C[i] \in Requests(n) /\ C[i].frame.seq \in Int
  <2>1. C[i] \in Messages(n)
    BY <1>2
  <2>2. C[i] \in Requests(n)
    BY <1>3, <2>1 DEF Messages, Updates
  <2> QED BY <2>2 DEF Requests, FrameT
<1> QED BY <1>1, <1>2, <1>3

LEMMA NothingFlows ==
  ASSUME Typed, NoneFlows, NEW T, NEW ent, NEW trans, NEW rec, Full(T, ent, trans, rec)
  PROVE  Full(T, ent, trans, rec)'
<1>1. FullOut(T, ent, trans)'
  <2>1. SUFFICES ASSUME NEW p \in Down PROVE Exact(egress'[p], trans[p], ent[p], p \in T)
    BY DEF FullOut
  <2>2. PICK Q, R : Q \in Seq(FrameT) /\ Q = egress[p] /\ R = egress'[p]
    BY WayDown DEF Typed, EgressTyping
  <2>3. PICK lo \in PointT, hi \in PointT : lo = trans[p] /\ hi = ent[p]
    BY DEF Full, PointsOf
  <2>4. PICK two : two = (p \in T)
    OBVIOUS
  <2>5. Exact(Q, lo, hi, two) /\ Alike(R, Q)
    BY <2>2, <2>3, <2>4 DEF Full, FullOut, NoneFlows
  <2>6. Exact(R, lo, hi, two)
    BY <2>2, <2>5, AlikeExact
  <2> QED BY <2>2, <2>3, <2>4, <2>6
<1>2. FullOn(T, trans, rec)'
  <2>1. SUFFICES ASSUME NEW p \in Down PROVE Exact(Frames(wire'[p]), rec[p], trans[p], p \in T)
    BY DEF FullOn
  <2>2. PICK Q, R : Q \in Seq(FrameT) /\ Q = Frames(wire[p]) /\ R = Frames(wire'[p])
    <3>1. PICK W \in Seq(WireT) : W = wire[p]
      BY WayDown DEF Typed, WireTyping
    <3> QED BY <3>1, FramesOf
  <2>3. PICK lo \in PointT, hi \in PointT : lo = rec[p] /\ hi = trans[p]
    BY DEF Full, PointsOf
  <2>4. PICK two : two = (p \in T)
    OBVIOUS
  <2>5. Exact(Q, lo, hi, two) /\ Alike(R, Q)
    BY <2>2, <2>3, <2>4 DEF Full, FullOn, NoneFlows
  <2>6. Exact(R, lo, hi, two)
    BY <2>2, <2>5, AlikeExact
  <2> QED BY <2>2, <2>3, <2>4, <2>6
<1>3. FullIn(T, ent, rec)'
  <2>1. SUFFICES ASSUME NEW q \in Ports \ Down
                 PROVE  Exact(ingress'[q], ent[Onward(q)], rec[Peer[q]], Peer[q] \in T)
    BY DEF FullIn
  <2>2. PICK Q, R : Q \in Seq(FrameT) /\ Q = ingress[q] /\ R = ingress'[q]
    BY DEF Typed, IngressTyping
  <2>3. PICK lo \in PointT, hi \in PointT : lo = ent[Onward(q)] /\ hi = rec[Peer[q]]
    BY WayDown DEF Full, PointsOf
  <2>4. PICK two : two = (Peer[q] \in T)
    OBVIOUS
  <2>5. Exact(Q, lo, hi, two) /\ Alike(R, Q)
    BY <2>2, <2>3, <2>4 DEF Full, FullIn, NoneFlows
  <2>6. Exact(R, lo, hi, two)
    BY <2>2, <2>5, AlikeExact
  <2> QED BY <2>2, <2>3, <2>4, <2>6
<1>4. FullRequests(T, ent, trans)'
  <2>1. SUFFICES ASSUME NEW p \in Inner, p \in T, Before(p) \notin T
                 PROVE  AllAsked(control'[p[1]], ent[p].f, trans[p].s)
    BY DEF FullRequests
  <2>2. PICK C, D, S, k, n : /\ C = control[p[1]] /\ D = control'[p[1]] /\ S = Messages(p[1])
                             /\ k = ent[p].f /\ n = trans[p].s
    OBVIOUS
  <2>3. /\ C \in Seq(S) /\ Calm(D, C) /\ AllAsked(C, k, n)
        /\ \A i \in DOMAIN C : C[i].what = "TRIG_SFU" => C[i].frame.seq \in Int
    BY <2>1, <2>2, RequestsTyped DEF Full, FullRequests, NoneFlows
  <2>4. n \in Int
    BY <2>2 DEF Full, PointsOf, PointT, Inner
  <2>5. AllAsked(D, k, n)
    BY <2>3, <2>4, CalmAsked
  <2> QED BY <2>2, <2>5
<1>5. FullStart(T, ent)' /\ FullEnd(T, ent)'
  BY DEF Full, FullStart, FullEnd, NoneFlows
<1> QED BY <1>1, <1>2, <1>3, <1>4, <1>5 DEF Full

LEMMA AlikeSelf == (\A Q : Alike(Q, Q)) /\ (\A C : Calm(C, C))
BY DEF Alike, Calm

LEMMA PlainAlike ==
  /\ SameOut \/ PlainOut => \A p \in Down : Alike(egress'[p], egress[p])
  /\ SameRequests \/ MoreRequests => \A p \in Inner : Calm(control'[p[1]], control[p[1]])
<1>1. ASSUME SameOut \/ PlainOut, NEW p \in Down PROVE Alike(egress'[p], egress[p])
  BY <1>1 DEF SameOut, PlainOut, Alike
<1>2. ASSUME SameRequests \/ MoreRequests, NEW p \in Inner
      PROVE  Calm(control'[p[1]], control[p[1]])
  BY <1>2 DEF SameRequests, MoreRequests, Calm
<1> QED BY <1>1, <1>2

LEMMA RestFlows ==
  ASSUME SameOut \/ PlainOut, SameRequests \/ MoreRequests, UNCHANGED <<ingress, wire, sync, used>>
  PROVE  NoneFlows
BY PlainAlike, AlikeSelf DEF NoneFlows

LEMMA SendDelayReqFlows == Typed /\ SendDelayReq => NoneFlows
<1> SUFFICES ASSUME Typed, SendDelayReq PROVE NoneFlows
  OBVIOUS
<1>1. PICK d \in DelayT : d = delay
  BY DEF Typed, ServicesTyped
<1>2. <<CreateDelayReqFrame(d, SlavePort)>> \in Seq(Plain)
  <2>1. d.sequId \in Nat
    BY DEF DelayT
  <2> QED BY <2>1, PortTypes, OwnRequests DEF CreateDelayReqFrame
<1>3. PlainOut
  BY <1>1, <1>2, PortTypes, PlainIssued DEF SendDelayReq
<1>4. SameRequests /\ UNCHANGED <<ingress, wire, sync, used>>
  BY DEF SendDelayReq, SameRequests
<1> QED BY <1>3, <1>4, RestFlows

LEMMA SendPDelayReqFlows == ASSUME Typed, NEW p \in Ports, SendPDelayReq(p) PROVE NoneFlows
<1>1. PICK d \in PDelayT : d = pdelay[p]
  BY DEF Typed, ServicesTyped
<1>2. <<CreatePDelayReqFrame(d, p)>> \in Seq(Plain)
  <2>1. d.sequId \in Nat
    BY DEF PDelayT
  <2> QED BY <2>1, OwnRequests DEF CreatePDelayReqFrame
<1>3. PlainOut
  BY <1>1, <1>2, PlainIssued DEF SendPDelayReq
<1>4. SameRequests /\ UNCHANGED <<ingress, wire, sync, used>>
  BY DEF SendPDelayReq, SameRequests
<1> QED BY <1>3, <1>4, RestFlows

LEMMA JumpTransparentFlows == ASSUME NEW n, JumpTransparent(n) PROVE NoneFlows
<1>1. SameOut /\ SameRequests /\ UNCHANGED <<ingress, wire, sync, used>>
  BY DEF JumpTransparent, SameOut, SameRequests
<1> QED BY <1>1, RestFlows

\* All that flies comes nearer: the frames are the same.
LEMMA NearerFrames ==
  ASSUME NEW W \in Seq(WireT), NEW V, V = [i \in DOMAIN W |-> [W[i] EXCEPT !.left = @ - 1]]
  PROVE  Frames(V) = Frames(W)
<1>1. \A i \in DOMAIN W : W[i] \in WireT
  OBVIOUS
<1>2. DOMAIN V = DOMAIN W /\ \A i \in DOMAIN W : V[i].frame = W[i].frame
  BY <1>1 DEF WireT
<1> QED BY <1>2 DEF Frames

LEMMA ElapseFlows == Typed /\ Elapse => NoneFlows
<1> SUFFICES ASSUME Typed, Elapse PROVE NoneFlows
  OBVIOUS
<1>1. /\ wire' = [p \in Ports |->
                    [i \in DOMAIN wire[p] |-> [wire[p][i] EXCEPT !.left = @ - 1]]]
      /\ UNCHANGED <<ingress, egress, control, sync, used>>
  BY DEF Elapse
<1>2. ASSUME NEW p \in Down PROVE Frames(wire'[p]) = Frames(wire[p])
  <2>1. PICK W, V : W \in Seq(WireT) /\ W = wire[p] /\ V = wire'[p]
    BY WayDown DEF Typed, WireTyping
  <2>2. V = [i \in DOMAIN W |-> [W[i] EXCEPT !.left = @ - 1]]
    BY <1>1, <2>1, WayDown
  <2> QED BY <2>1, <2>2, NearerFrames
<1> QED BY <1>1, <1>2, AlikeSelf DEF NoneFlows

LEMMA DeliverPlainFlows ==
  ASSUME Typed, NEW p \in Ports, Deliver(p), Head(ingress[p]).type \notin {"SYNC", "FOLLOW_UP"}
  PROVE  NoneFlows
<1>1. /\ PlainOut /\ MoreRequests /\ Head(ingress[p]) \in Plain
      /\ UNCHANGED <<wire, sync, used>>
  BY DeliverAnswers
<1>2. ingress[p] # <<>> /\ ingress' = [ingress EXCEPT ![p] = Tail(@)]
  BY DEF Deliver
<1>3. ASSUME NEW q \in Ports PROVE Alike(ingress'[q], ingress[q])
  <2>1. ingress'[q] = IF q = p THEN Tail(ingress[q]) ELSE ingress[q]
    BY <1>2, <1>3 DEF Typed, IngressTyping
  <2> QED BY <1>1, <1>2, <2>1 DEF Alike
<1> QED BY <1>1, <1>3, PlainAlike, AlikeSelf DEF NoneFlows

LEMMA UpdateFlows ==
  ASSUME Typed, NEW n \in Nodes, Control(n), Head(control[n]).what # "TRIG_SFU"
  PROVE  NoneFlows
<1>1. /\ control[n] # <<>> /\ control' = [control EXCEPT ![n] = Tail(@)]
      /\ UNCHANGED <<ingress, wire, sync, used>>
  BY DEF Control
<1>2. Head(control[n]) \in Messages(n)
  BY <1>1, EmptiedControl DEF Typed
<1>3. Head(control[n]).what = "PATH_DELAY"
  BY <1>2 DEF Messages, Requests, Updates
<1>4. egress' = egress
  BY <1>3 DEF Control
<1>5. ASSUME NEW p \in Inner PROVE Calm(control'[p[1]], control[p[1]])
  <2>1. PICK k \in Nodes : k = p[1]
    BY WayUp
  <2>2. control'[k] = IF k = n THEN Tail(control[k]) ELSE control[k]
    BY <1>1 DEF Typed, ControlTyped
  <2> QED BY <1>1, <2>1, <2>2 DEF Calm
<1> QED BY <1>1, <1>4, <1>5, AlikeSelf DEF NoneFlows

-----------------------------------------------------------------------------
(* A step in which a frame moves: the marks of one place move with it *)

LEMMA OutFlows ==
  ASSUME NEW T, NEW ent, NEW trans, FullOut(T, ent, trans), NEW p \in Down, OutElsewhere(p),
         NEW ent2, NEW trans2, Elsewhere(ent2, ent, p), Elsewhere(trans2, trans, p),
         Exact(egress'[p], trans2[p], ent2[p], p \in T)
  PROVE  FullOut(T, ent2, trans2)'
<1>1. SUFFICES ASSUME NEW q \in Down PROVE Exact(egress'[q], trans2[q], ent2[q], q \in T)
  BY DEF FullOut
<1>2. CASE q = p
  BY <1>2
<1>3. CASE q # p
  BY <1>3 DEF FullOut, OutElsewhere, Elsewhere
<1> QED BY <1>2, <1>3

LEMMA OnFlows ==
  ASSUME NEW T, NEW trans, NEW rec, FullOn(T, trans, rec), NEW p \in Down,
         \A q \in Down \ {p} : wire'[q] = wire[q],
         NEW trans2, NEW rec2, Elsewhere(trans2, trans, p), Elsewhere(rec2, rec, p),
         Exact(Frames(wire'[p]), rec2[p], trans2[p], p \in T)
  PROVE  FullOn(T, trans2, rec2)'
<1>1. SUFFICES ASSUME NEW q \in Down
               PROVE  Exact(Frames(wire'[q]), rec2[q], trans2[q], q \in T)
  BY DEF FullOn
<1>2. CASE q = p
  BY <1>2
<1>3. CASE q # p
  BY <1>3 DEF FullOn, Elsewhere
<1> QED BY <1>2, <1>3

LEMMA InFlows ==
  ASSUME NEW T, NEW ent, NEW rec, FullIn(T, ent, rec), NEW p \in Ports \ Down, InElsewhere(p),
         NEW ent2, NEW rec2, InMarks(ent2, ent, rec2, rec, p),
         Exact(ingress'[p], ent2[Onward(p)], rec2[Peer[p]], Peer[p] \in T)
  PROVE  FullIn(T, ent2, rec2)'
<1>1. SUFFICES ASSUME NEW q \in Ports \ Down
               PROVE  Exact(ingress'[q], ent2[Onward(q)], rec2[Peer[q]], Peer[q] \in T)
  BY DEF FullIn
<1>2. CASE q = p
  BY <1>2
<1>3. CASE q # p
  BY <1>3 DEF FullIn, InElsewhere, InMarks
<1> QED BY <1>2, <1>3

\* What a clock asks its stack for when a frame leaves by p.
LEMMA LeaveAsks ==
  ASSUME Typed, NEW T, OnlyTurned(T), FramesTurned(T), NEW p \in Inner, NEW f, NEW out, NEW e,
         Sent(p, f, out, e), Leaves(p, f, out, e), p \in T, Before(p) \notin T
  PROVE  out.requ = IF f.type = "SYNC" THEN "TRIG_SFU" ELSE "NONE"
<1>1. p \in Ports /\ p \in Down
  BY WayUp DEF Inner
<1>2. CASE f.type = "SYNC"
  <2>1. PICK Q \in Seq(FrameT) : Q = egress[p] /\ Q # <<>> /\ f = Head(Q)
    BY <1>1, OutTail
  <2>2. 1 \in DOMAIN Q /\ f = Q[1]
    BY <2>1
  <2>3. f.twoStep = (Before(p) \in T)
    BY <1>2, <2>1, <2>2 DEF FramesTurned
  <2>4. config.twoStep[p[1]] /\ ~f.twoStep
    BY <2>3 DEF OnlyTurned
  <2>5. PICK n \in Nodes, x \in Ports : n = p[1] /\ x = Up(p)
    BY WayUp
  <2>6. PICK syncFu, res : syncFu = nic[n].syncFu /\ res = Residence(p, f)
    OBVIOUS
  <2>7. out.requ = IF config.twoStep[n] /\ ~f.twoStep THEN "TRIG_SFU" ELSE "NONE"
    BY <1>2, <2>5, <2>6, HandlesForeignSync
  <2> QED BY <1>2, <2>4, <2>5, <2>7
<1>3. CASE f.type # "SYNC"
  <2>1. egress[p] # <<>> /\ f = Head(egress[p])
    BY DEF Leaves
  <2>2. out = HandleEgress(Mac(p), nic[p[1]], f, Reading(p[1]))
    BY DEF Sent
  <2>3. out.requ = "NONE"
    BY <1>1, <1>3, <2>1, <2>2, FirstOut
  <2> QED BY <1>3, <2>3
<1> QED BY <1>2, <1>3

\* A frame leaves by a port that leads away from the master.
LEMMA LeaveFlows ==
  ASSUME Typed, NEW T, OnlyTurned(T), FramesTurned(T),
         NEW ent, NEW trans, NEW rec, Full(T, ent, trans, rec), NEW p \in Down, NEW f, NEW out,
         NEW e, Sent(p, f, out, e), Leaves(p, f, out, e), Requested(p, out), used' = used
  PROVE  \E t : Full(T, ent, t, rec)'
<1>1. PICK Q \in Seq(FrameT) : Q = egress[p] /\ Q # <<>> /\ f = Head(Q) /\ egress'[p] = Tail(Q)
  BY OutTail
<1>2. PICK m \in PointT, lo \in PointT, hi \in PointT :
        m = trans[p] /\ lo = rec[p] /\ hi = ent[p]
  BY DEF Full, PointsOf
<1>3. PICK two : two = (p \in T)
  OBVIOUS
<1>4. Exact(Q, m, hi, two)
  BY <1>1, <1>2, <1>3 DEF Full, FullOut
<1>5. PICK t : t = Pass(f, m)
  OBVIOUS
<1>6. /\ Exact(Tail(Q), t, hi, two)
      /\ f.type = "SYNC" => m.s < f.seq
      /\ f.type = "FOLLOW_UP" => f.seq <= m.s
  BY <1>1, <1>4, <1>5, ExactOut
<1>7. PICK W \in Seq(WireT) : W = wire[p]
  BY WayDown DEF Typed, WireTyping
<1>8. wire'[p] = Append(W, e) /\ \A q \in Down \ {p} : wire'[q] = wire[q]
  BY <1>7, WayDown DEF Leaves, Typed, WireTyping
<1>9. PICK V \in Seq(FrameT), g \in FrameT :
        /\ V = Frames(W) /\ g = e.frame /\ Frames(wire'[p]) = Append(V, g)
        /\ g.type = f.type /\ g.seq = f.seq /\ f \in FrameT
  <2>1. e \in WireT /\ e.frame \in FrameT /\ f \in FrameT
    BY DEF Sent, WireT
  <2>2. Frames(W) \in Seq(FrameT) /\ Frames(Append(W, e)) = Append(Frames(W), e.frame)
    BY <2>1, FramesOf
  <2>3. e.frame.type = f.type /\ e.frame.seq = f.seq
    BY DEF Sent
  <2> QED BY <1>8, <2>1, <2>2, <2>3
<1>10. Pass(g, m) = t
  BY <1>5, <1>9, PassAlike
<1>11. Exact(Append(V, g), lo, t, two)
  <2>1. Exact(V, lo, m, two)
    BY <1>2, <1>3, <1>7, <1>9 DEF Full, FullOn
  <2>2. g.type = "SYNC" => m.s < g.seq
    BY <1>6, <1>9
  <2>3. g.type = "FOLLOW_UP" => g.seq <= m.s
    BY <1>6, <1>9
  <2> QED BY <1>10, <2>1, <2>2, <2>3, ExactIn
<1>12. t \in PointT
  BY <1>5, <1>9, PassTyped
<1>13. PICK trans2 : trans2 = [trans EXCEPT ![p] = t]
  OBVIOUS
<1>14. /\ trans2 \in PointsOf(Down) /\ trans2[p] = t
       /\ \A q \in Down \ {p} : trans2[q] = trans[q]
  BY <1>12, <1>13 DEF Full, PointsOf
<1>15. Elsewhere(trans2, trans, p) /\ Elsewhere(ent, ent, p) /\ Elsewhere(rec, rec, p)
  BY <1>14 DEF Elsewhere
<1>16. FullOut(T, ent, trans2)'
  <2>1. Exact(egress'[p], trans2[p], ent[p], p \in T)
    BY <1>1, <1>2, <1>3, <1>6, <1>14
  <2>2. FullOut(T, ent, trans) /\ OutElsewhere(p)
    BY OutTail DEF Full
  <2> QED BY <1>15, <2>1, <2>2, OutFlows
<1>17. FullOn(T, trans2, rec)'
  <2>1. Exact(Frames(wire'[p]), rec[p], trans2[p], p \in T)
    BY <1>2, <1>3, <1>9, <1>11, <1>14
  <2>2. FullOn(T, trans, rec)
    BY DEF Full
  <2> QED BY <1>8, <1>15, <2>1, <2>2, OnFlows
<1>18. UNCHANGED <<ingress, sync, used>>
  BY DEF Leaves
<1>19. FullIn(T, ent, rec)' /\ FullStart(T, ent)' /\ FullEnd(T, ent)'
  BY <1>18 DEF Full, FullIn, FullStart, FullEnd
<1>20. FullRequests(T, ent, trans2)'
  <2>1. SUFFICES ASSUME NEW q \in Inner, q \in T, Before(q) \notin T
                 PROVE  AllAsked(control'[q[1]], ent[q].f, trans2[q].s)
    BY DEF FullRequests
  <2>2. AllAsked(control[q[1]], ent[q].f, trans[q].s)
    BY <2>1 DEF Full, FullRequests
  <2>3. q \in Down /\ q[1] \in Nodes
    BY WayUp DEF Inner
  <2>4. CASE q # p
    <3>1. q[1] # p[1]
      BY <2>3, <2>4, OneDownEach
    <3>2. control'[q[1]] = control[q[1]]
      BY <2>3, <3>1 DEF Requested, Typed, ControlTyped
    <3> QED BY <1>14, <2>2, <2>3, <2>4, <3>2
  <2>5. CASE q = p
    <3>1. PICK C, S, k, n, n2 :
            /\ C = control[q[1]] /\ S = Messages(q[1]) /\ k = ent[q].f /\ n = trans[q].s
            /\ n2 = t.s
      OBVIOUS
    <3>2. /\ C \in Seq(S) /\ AllAsked(C, k, n) /\ n \in Int /\ n2 \in Int
          /\ \A i \in DOMAIN C : C[i].what = "TRIG_SFU" => C[i].frame.seq \in Int
      BY <1>2, <1>12, <2>2, <2>5, <3>1, RequestsTyped DEF PointT
    <3>3. out.requ = IF f.type = "SYNC" THEN "TRIG_SFU" ELSE "NONE"
      BY <2>1, <2>5, LeaveAsks
    <3>4. CASE f.type = "SYNC"
      <4>1. PICK r : r = [what |-> out.requ, port |-> p, frame |-> out.frame]
        OBVIOUS
      <4>2. control'[q[1]] = Append(C, r)
        BY <2>3, <2>5, <3>1, <3>3, <3>4, <4>1 DEF Requested, Typed, ControlTyped
      <4>3. f.seq = n2 /\ n < n2
        BY <1>2, <1>6, <1>9, <1>5, <2>5, <3>1, <3>4, PassTyped
      <4>4. r.what = "TRIG_SFU" /\ r.frame.seq = n2
        BY <3>3, <3>4, <4>1, <4>3 DEF Sent, SameFrame
      <4>5. n <= n2
        BY <3>2, <4>3
      <4>6. IF r.what = "TRIG_SFU" THEN r.frame.seq = n2 ELSE n2 = n
        BY <4>4
      <4>7. AllAsked(Append(C, r), k, n2)
        BY <3>2, <4>5, <4>6, AskedMore
      <4> QED BY <1>14, <2>5, <3>1, <4>2, <4>7
    <3>5. CASE f.type # "SYNC"
      <4>1. control'[q[1]] = C
        BY <3>1, <3>3, <3>5 DEF Requested
      <4>2. n2 = n
        BY <1>2, <1>5, <2>5, <3>1, <3>5 DEF Pass
      <4> QED BY <1>14, <2>5, <3>1, <3>2, <4>1, <4>2
    <3> QED BY <3>4, <3>5
  <2> QED BY <2>4, <2>5
<1>21. Full(T, ent, trans2, rec)'
  BY <1>14, <1>16, <1>17, <1>19, <1>20 DEF Full
<1> QED BY <1>21

LEMMA TransmitFlows ==
  ASSUME Typed, NEW T, OnlyTurned(T), FramesTurned(T),
         NEW ent, NEW trans, NEW rec, Full(T, ent, trans, rec), NEW p \in Ports, Transmit(p)
  PROVE  \E t : Full(T, ent, t, rec)'
<1>1. PICK f, out, e : Sent(p, f, out, e) /\ Leaves(p, f, out, e) /\ Requested(p, out)
  BY TransmitLeaves
<1>2. used' = used
  BY DEF Transmit
<1>3. CASE p \in Down
  BY <1>1, <1>2, <1>3, LeaveFlows
<1>4. CASE p \notin Down
  <2>1. f.type \notin {"SYNC", "FOLLOW_UP"}
    BY <1>1, <1>4 DEF Sent, InEgress, OnWire, LeavesBy, PDelays
  <2>2. SameRequests
    BY <1>1, <2>1, PlainLeaves
  <2>3. \A q \in Down : egress'[q] = egress[q] /\ wire'[q] = wire[q]
    BY <1>1, <1>4, WayDown DEF Leaves, Typed, EgressTyping, WireTyping
  <2>4. UNCHANGED <<ingress, sync, used>>
    BY <1>1, <1>2 DEF Leaves
  <2>5. NoneFlows
    BY <2>2, <2>3, <2>4, AlikeSelf DEF NoneFlows, SameRequests
  <2>6. Full(T, ent, trans, rec)'
    BY <2>5, NothingFlows
  <2> QED BY <2>6
<1> QED BY <1>3, <1>4

\* A frame arrives.
LEMMA ArriveFlows ==
  ASSUME Typed, NEW T, NEW ent, NEW trans, NEW rec, Full(T, ent, trans, rec),
         NEW p \in Ports \ Down, Receive(p)
  PROVE  \E r : Full(T, ent, trans, r)'
<1>1. PICK f : f = [Head(wire[Peer[p]]).frame EXCEPT !.epoch = clock[p[1]].epoch]
  OBVIOUS
<1>2. PICK out : out = HandleIngress(Mac(p), nic[p[1]], f, Reading(p[1]))
  OBVIOUS
<1>3. Arrives(p) /\ WireTail(Peer[p]) /\ UNCHANGED <<egress, control, sync, used>>
  BY DEF Receive, WireTail
<1>4. IF DropFrame(Mac(p), f) THEN ingress' = ingress
      ELSE ingress' = [ingress EXCEPT ![p] = Append(@, out.frame)]
  BY <1>1, <1>2 DEF Receive
<1>5. Enters(out, f, p, nic[p[1]]) /\ f \in OnWire(config.mechanism, Peer[p])
  BY <1>1, <1>2, <1>3, FirstIn
<1>6. PICK P \in Down : P = Peer[p] /\ wire[P] # <<>>
  BY <1>3, WayDown DEF Arrives
<1>7. PICK W \in Seq(WireT) : W = wire[P] /\ W # <<>>
  BY <1>6, WayDown DEF Typed, WireTyping
<1>8. PICK a \in FrameT : a = Head(W).frame
  <2>1. Head(W) \in WireT
    BY <1>7
  <2> QED BY <2>1 DEF WireT
<1>9. PICK h \in FrameT : h = f /\ h.type = a.type /\ h.seq = a.seq
  <2>1. f \in FrameT
    BY <1>5 DEF OnWire
  <2>2. f = [a EXCEPT !.epoch = clock[p[1]].epoch]
    BY <1>1, <1>6, <1>7, <1>8
  <2>3. f.type = a.type /\ f.seq = a.seq
    BY <2>2 DEF FrameT
  <2> QED BY <2>1, <2>3
<1>10. PICK Q \in Seq(FrameT) : /\ Q = Frames(W) /\ Q # <<>> /\ Head(Q) = a
                                /\ Frames(Tail(W)) = Tail(Q)
  BY <1>7, <1>8, FramesOf
<1>11. wire'[P] = Tail(W) /\ \A q \in Down \ {P} : wire'[q] = wire[q]
  BY <1>3, <1>6, <1>7, WayDown DEF WireTail, Typed, WireTyping
<1>12. PICK m \in PointT, hi \in PointT, lo \in PointT :
         m = rec[P] /\ hi = trans[P] /\ lo = ent[Onward(p)]
  BY WayDown DEF Full, PointsOf
<1>13. PICK two : two = (P \in T)
  OBVIOUS
<1>14. Exact(Q, m, hi, two)
  BY <1>7, <1>10, <1>12, <1>13 DEF Full, FullOn
<1>15. PICK r : r = Pass(a, m)
  OBVIOUS
<1>16. /\ Exact(Tail(Q), r, hi, two)
       /\ a.type = "SYNC" => m.s < a.seq
       /\ a.type = "FOLLOW_UP" => a.seq <= m.s
  BY <1>10, <1>14, <1>15, ExactOut
<1>17. r \in PointT
  BY <1>15, PassTyped
<1>18. PICK I \in Seq(FrameT) : I = ingress[p]
  BY DEF Typed, IngressTyping
<1>19. Exact(I, lo, m, two)
  BY <1>6, <1>12, <1>13, <1>18 DEF Full, FullIn
<1>20. Exact(ingress'[p], lo, r, two)
  <2>1. CASE DropFrame(Mac(p), f)
    <3>1. a.type \notin {"SYNC", "FOLLOW_UP"}
      BY <1>9, <2>1 DEF DropFrame, Delays, PDelays
    <3>2. r = m
      BY <1>15, <3>1, PassPlain DEF PointT
    <3>3. ingress'[p] = I
      BY <1>4, <1>18, <2>1
    <3> QED BY <1>19, <3>2, <3>3
  <2>2. CASE ~DropFrame(Mac(p), f)
    <3>1. PICK g \in FrameT : g = out.frame /\ g.type = a.type /\ g.seq = a.seq
      <4>1. Arrived(out.frame, h, p)
        BY <1>5, <1>9 DEF Enters
      <4> QED BY <4>1, <1>9 DEF Arrived
    <3>2. ingress'[p] = Append(I, g)
      BY <1>4, <1>18, <2>2, <3>1 DEF Typed, IngressTyping
    <3>3. Pass(g, m) = r
      BY <1>15, <3>1, PassAlike
    <3>4. g.type = "SYNC" => m.s < g.seq
      BY <1>16, <3>1
    <3>5. g.type = "FOLLOW_UP" => g.seq <= m.s
      BY <1>16, <3>1
    <3>6. Exact(Append(I, g), lo, r, two)
      BY <1>19, <3>3, <3>4, <3>5, ExactIn
    <3> QED BY <3>2, <3>6
  <2> QED BY <2>1, <2>2
<1>21. PICK rec2 : rec2 = [rec EXCEPT ![P] = r]
  OBVIOUS
<1>22. /\ rec2 \in PointsOf(Down) /\ rec2[P] = r
       /\ \A q \in Down \ {P} : rec2[q] = rec[q]
  BY <1>17, <1>21 DEF Full, PointsOf
<1>23. FullOn(T, trans, rec2)'
  <2>1. Exact(Frames(wire'[P]), rec2[P], trans[P], P \in T)
    BY <1>10, <1>11, <1>12, <1>13, <1>16, <1>22
  <2>2. Elsewhere(rec2, rec, P) /\ Elsewhere(trans, trans, P)
    BY <1>22 DEF Elsewhere
  <2>3. FullOn(T, trans, rec)
    BY DEF Full
  <2> QED BY <1>11, <2>1, <2>2, <2>3, OnFlows
<1>24. FullIn(T, ent, rec2)'
  <2>1. Exact(ingress'[p], ent[Onward(p)], rec2[Peer[p]], Peer[p] \in T)
    BY <1>6, <1>12, <1>13, <1>20, <1>22
  <2>2. InElsewhere(p)
    BY <1>4 DEF InElsewhere, Typed, IngressTyping
  <2>3. InMarks(ent, ent, rec2, rec, p)
    BY <1>6, <1>22, OneAfter, WayDown DEF InMarks
  <2>4. FullIn(T, ent, rec)
    BY DEF Full
  <2> QED BY <2>1, <2>2, <2>3, <2>4, InFlows
<1>25. FullOut(T, ent, trans)' /\ FullStart(T, ent)' /\ FullRequests(T, ent, trans)'
       /\ FullEnd(T, ent)'
  BY <1>3 DEF Full, FullOut, FullStart, FullRequests, FullEnd
<1>26. Full(T, ent, trans, rec2)'
  BY <1>22, <1>23, <1>24, <1>25 DEF Full
<1> QED BY <1>26

LEMMA ReceiveFlows ==
  ASSUME Typed, NEW T, NEW ent, NEW trans, NEW rec, Full(T, ent, trans, rec),
         NEW p \in Ports, Receive(p)
  PROVE  \E r : Full(T, ent, trans, r)'
<1>1. CASE p \notin Down
  BY <1>1, ArriveFlows
<1>2. CASE p \in Down
  <2>1. /\ WireTail(Peer[p]) /\ UNCHANGED <<egress, control, sync, used>>
        /\ \/ ingress' = ingress
           \/ \E g : ingress' = [ingress EXCEPT ![p] = Append(@, g)]
    BY DEF Receive, WireTail
  <2>2. \A q \in Down : wire'[q] = wire[q]
    BY <1>2, <2>1, WayDown DEF WireTail, Typed, WireTyping
  <2>3. \A q \in Ports \ Down : ingress'[q] = ingress[q]
    BY <1>2, <2>1 DEF Typed, IngressTyping
  <2>4. NoneFlows
    BY <2>1, <2>2, <2>3, AlikeSelf DEF NoneFlows
  <2>5. Full(T, ent, trans, rec)'
    BY <2>4, NothingFlows
  <2> QED BY <2>5
<1> QED BY <1>1, <1>2

\* The master issues a Sync.
LEMMA SendSyncFlows ==
  ASSUME Typed, NEW T, OnlyTurned(T), NEW ent, NEW trans, NEW rec, Full(T, ent, trans, rec),
         SendSync
  PROVE  \E e : Full(T, e, trans, rec)'
<1>1. PICK s \in SyncT : s = sync[MasterPort]
  BY PortTypes DEF Typed, ServicesTyped
<1>2. PICK two \in BOOLEAN : two = config.twoStep[MasterPort[1]]
  BY PortTypes DEF Typed, ConfigTyped
<1>3. two = (MasterPort \in T)
  BY <1>2, WayDown DEF OnlyTurned
<1>4. PICK Q \in Seq(FrameT) : Q = egress[MasterPort]
  BY PortTypes DEF Typed, EgressTyping
<1>5. PICK f : f = CreateSyncFrame(s, MasterPort, two)
  OBVIOUS
<1>6. PICK g : g = CreateFollowUpFrame(f)
  OBVIOUS
<1>7. s.sequId \in Nat
  BY DEF SyncT
<1>8. f \in FrameT /\ f.type = "SYNC" /\ f.seq = s.sequId
  <2>1. "SYNC" \in FrameTypes
    BY DEF FrameTypes
  <2> QED BY <2>1, <1>5, <1>7, PortTypes, FrameTyped DEF CreateSyncFrame
<1>9. g \in FrameT /\ g.type = "FOLLOW_UP" /\ g.seq = s.sequId
  BY <1>6, <1>8, FollowUpOf
<1>10. PICK m \in PointT, lo \in PointT : m = ent[MasterPort] /\ lo = trans[MasterPort]
  BY WayDown DEF Full, PointsOf
<1>11. /\ Exact(Q, lo, m, two) /\ m.s = s.sequId - 1
       /\ m.s \in Int /\ m.f \in Int
  BY <1>1, <1>3, <1>4, <1>10, WayDown DEF Full, FullOut, FullStart, PointT
<1>12. PICK m1 \in PointT : m1 = Pass(f, m) /\ m1.s = s.sequId /\ m1.f = m.f
  BY <1>8, PassTyped
<1>13. PICK m2 \in PointT : m2 = Pass(g, m1) /\ m2.s = s.sequId /\ m2.f = s.sequId
  BY <1>9, <1>12, PassTyped
<1>14. Exact(Append(Q, f), lo, m1, two)
  <2>1. f.type = "SYNC" => m.s < f.seq
    BY <1>7, <1>8, <1>11
  <2>2. f.type # "FOLLOW_UP"
    BY <1>8
  <2> QED BY <2>1, <2>2, <1>8, <1>11, <1>12, ExactIn
<1>15. Exact(Append(Append(Q, f), g), lo, m2, two)
  <2>1. Append(Q, f) \in Seq(FrameT)
    BY <1>8
  <2>2. g.type = "FOLLOW_UP" => g.seq <= m1.s
    BY <1>7, <1>9, <1>12
  <2>3. g.type # "SYNC"
    BY <1>9
  <2> QED BY <2>1, <2>2, <2>3, <1>9, <1>13, <1>14, ExactIn
<1>16. egress' = [egress EXCEPT ![MasterPort] = @ \o SyncFrames(s, MasterPort, two)]
  BY <1>1, <1>2 DEF SendSync, Issue
<1>17. OutElsewhere(MasterPort)
  BY <1>16, WayDown DEF OutElsewhere, Typed, EgressTyping
<1>18. PICK e \in PointT : /\ Exact(egress'[MasterPort], lo, e, two) /\ e.s = s.sequId
                           /\ two => e.f = e.s
  <2>1. egress'[MasterPort] = Q \o SyncFrames(s, MasterPort, two)
    BY <1>4, <1>16, PortTypes DEF Typed, EgressTyping
  <2>2. CASE two
    <3>1. SyncFrames(s, MasterPort, two) = <<f, g>>
      BY <1>5, <1>6, <2>2 DEF SyncFrames
    <3>2. Q \o <<f, g>> = Append(Append(Q, f), g)
      BY <1>8, <1>9
    <3> QED BY <1>13, <1>15, <2>1, <3>1, <3>2
  <2>3. CASE ~two
    <3>1. SyncFrames(s, MasterPort, two) = <<f>>
      BY <1>5, <2>3 DEF SyncFrames
    <3>2. Q \o <<f>> = Append(Q, f)
      BY <1>8
    <3> QED BY <1>12, <1>14, <2>1, <2>3, <3>1, <3>2
  <2> QED BY <2>2, <2>3
<1>19. PICK ent2 : ent2 = [ent EXCEPT ![MasterPort] = e]
  OBVIOUS
<1>20. /\ ent2 \in PointsOf(Down \cup {SlavePort}) /\ ent2[MasterPort] = e
       /\ \A q \in Down \cup {SlavePort} : q # MasterPort => ent2[q] = ent[q]
  BY <1>19, WayDown DEF Full, PointsOf
<1>21. /\ sync' = [sync EXCEPT ![MasterPort].sequId = @ + 1]
       /\ UNCHANGED <<ingress, wire, control, used>>
  BY DEF SendSync
<1>22. sync'[MasterPort].sequId = s.sequId + 1 /\ sync'[SlavePort] = sync[SlavePort]
  BY <1>1, <1>21, PortTypes DEF Typed, ServicesTyped, SyncT
<1>23. FullOut(T, ent2, trans)'
  <2>1. Elsewhere(ent2, ent, MasterPort) /\ Elsewhere(trans, trans, MasterPort)
    BY <1>20 DEF Elsewhere
  <2>2. Exact(egress'[MasterPort], trans[MasterPort], ent2[MasterPort], MasterPort \in T)
    BY <1>3, <1>10, <1>18, <1>20
  <2>3. FullOut(T, ent, trans) /\ MasterPort \in Down
    BY WayDown DEF Full
  <2> QED BY <2>1, <2>2, <2>3, <1>17, OutFlows
<1>24. FullIn(T, ent2, rec)'
  <2>1. \A q \in Ports \ Down : Onward(q) \in Down \cup {SlavePort} /\ Onward(q) # MasterPort
    BY WayDown, WayOn, PortTypes
  <2> QED BY <2>1, <1>20, <1>21 DEF Full, FullIn
<1>25. FullStart(T, ent2)'
  <2>1. ent2[MasterPort].s = sync'[MasterPort].sequId - 1
    BY <1>7, <1>18, <1>20, <1>22
  <2> QED BY <2>1, <1>3, <1>18, <1>20 DEF FullStart
<1>26. FullRequests(T, ent2, trans)'
  BY <1>20, <1>21, WayDown DEF Full, FullRequests
<1>27. FullEnd(T, ent2)' /\ FullOn(T, trans, rec)'
  <2>1. SlavePort # MasterPort
    BY WayDown
  <2> QED BY <2>1, <1>20, <1>21, <1>22 DEF Full, FullEnd, FullOn
<1>28. Full(T, ent2, trans, rec)'
  BY <1>20, <1>23, <1>24, <1>25, <1>26, <1>27 DEF Full
<1> QED BY <1>28

\* A Sync or Follow_Up leaves the ingress delayer of a transparent clock.
LEMMA OnwardFlows ==
  ASSUME Typed, NEW T, FramesTurned(T), NEW ent, NEW trans, NEW rec, Full(T, ent, trans, rec),
         NEW p \in Ports \ Down, p # SlavePort, Deliver(p),
         Head(ingress[p]).type \in {"SYNC", "FOLLOW_UP"}
  PROVE  \E e : Full(T, e, trans, rec)'
<1>1. PICK f \in FrameT : f = Head(ingress[p]) /\ f.type \in {"SYNC", "FOLLOW_UP"}
  BY FirstWaiting DEF Deliver
<1>2. PICK k \in Inner : k = Onward(p) /\ k \in Down /\ k # MasterPort /\ Before(k) = Peer[p]
                         /\ k # SlavePort
  BY WayOn, WayDown
<1>3. PICK I \in Seq(FrameT) : I = ingress[p] /\ I # <<>> /\ f = Head(I)
  BY <1>1 DEF Deliver, Typed, IngressTyping
<1>4. PICK Q \in Seq(FrameT) : Q = egress[k]
  BY <1>2, WayDown DEF Typed, EgressTyping
<1>5. /\ egress'[k] = Append(Q, f) /\ OutElsewhere(k)
      /\ UNCHANGED <<wire, sync, control, used>>
  BY <1>1, <1>2, <1>4, OnwardQueues
<1>6. ingress'[p] = Tail(I) /\ InElsewhere(p)
  BY <1>3 DEF Deliver, InElsewhere, Typed, IngressTyping
<1>7. PICK m \in PointT, r \in PointT, t \in PointT :
        m = ent[k] /\ r = rec[Peer[p]] /\ t = trans[k]
  BY <1>2, WayDown DEF Full, PointsOf
<1>8. PICK one, two : one = (Peer[p] \in T) /\ two = (k \in T)
  OBVIOUS
<1>9. Exact(I, m, r, one) /\ Exact(Q, t, m, two)
  BY <1>2, <1>3, <1>4, <1>7, <1>8 DEF Full, FullIn, FullOut
<1>10. PICK e \in PointT : e = Pass(f, m)
  BY PassTyped
<1>11. /\ Exact(Tail(I), e, r, one)
       /\ f.type = "SYNC" => m.s < f.seq
       /\ f.type = "FOLLOW_UP" => f.seq <= m.s
  BY <1>3, <1>9, <1>10, ExactOut
<1>12. Exact(Append(Q, f), t, e, two)
  BY <1>9, <1>10, <1>11, ExactIn
<1>13. PICK ent2 : ent2 = [ent EXCEPT ![k] = e]
  OBVIOUS
<1>14. /\ ent2 \in PointsOf(Down \cup {SlavePort}) /\ ent2[k] = e
       /\ \A q \in Down \cup {SlavePort} : q # k => ent2[q] = ent[q]
  BY <1>2, <1>13 DEF Full, PointsOf
<1>15. FullOut(T, ent2, trans)'
  <2>1. Exact(egress'[k], trans[k], ent2[k], k \in T)
    BY <1>5, <1>7, <1>8, <1>12, <1>14
  <2>2. Elsewhere(ent2, ent, k) /\ Elsewhere(trans, trans, k)
    BY <1>14 DEF Elsewhere
  <2>3. FullOut(T, ent, trans)
    BY DEF Full
  <2> QED BY <1>2, <1>5, <2>1, <2>2, <2>3, OutFlows
<1>16. FullIn(T, ent2, rec)'
  <2>1. Exact(ingress'[p], ent2[Onward(p)], rec[Peer[p]], Peer[p] \in T)
    BY <1>2, <1>6, <1>7, <1>8, <1>11, <1>14
  <2>2. InMarks(ent2, ent, rec, rec, p)
    BY <1>2, <1>14, OneAfter, WayDown DEF InMarks
  <2>3. FullIn(T, ent, rec)
    BY DEF Full
  <2> QED BY <1>6, <2>1, <2>2, <2>3, InFlows
<1>17. FullRequests(T, ent2, trans)'
  <2>1. SUFFICES ASSUME NEW q \in Inner, q \in T, Before(q) \notin T
                 PROVE  AllAsked(control'[q[1]], ent2[q].f, trans[q].s)
    BY DEF FullRequests
  <2>2. AllAsked(control[q[1]], ent[q].f, trans[q].s)
    BY <2>1 DEF Full, FullRequests
  <2>3. ent2[q].f = ent[q].f
    <3>1. CASE q # k
      BY <1>14, <3>1 DEF Inner
    <3>2. CASE q = k
      <4>1. Peer[p] \notin T /\ 1 \in DOMAIN I /\ f = I[1]
        BY <1>2, <1>3, <2>1, <3>2
      <4>2. f.type = "SYNC"
        BY <1>1, <1>3, <4>1 DEF FramesTurned
      <4>3. e.f = m.f
        BY <1>10, <4>2, PassTyped
      <4> QED BY <1>7, <1>14, <3>2, <4>3
    <3> QED BY <3>1, <3>2
  <2> QED BY <1>5, <2>2, <2>3
<1>18. FullStart(T, ent2)' /\ FullEnd(T, ent2)' /\ FullOn(T, trans, rec)'
  BY <1>2, <1>5, <1>14, WayDown DEF Full, FullStart, FullEnd, FullOn
<1>19. Full(T, ent2, trans, rec)'
  BY <1>14, <1>15, <1>16, <1>17, <1>18 DEF Full
<1> QED BY <1>19

\* The slave gets a Sync or a Follow_Up.
LEMMA SlaveFlows ==
  ASSUME Typed, NEW T, FramesTurned(T), NEW ent, NEW trans, NEW rec, Full(T, ent, trans, rec),
         Deliver(SlavePort), Head(ingress[SlavePort]).type \in {"SYNC", "FOLLOW_UP"}
  PROVE  \E e : Full(T, e, trans, rec)'
<1>1. PICK p \in Ports \ Down : p = SlavePort /\ Onward(p) = p /\ p \notin Inner
  BY WayDown
<1>2. PICK I \in Seq(FrameT), f \in FrameT :
        /\ I = ingress[p] /\ I # <<>> /\ f = Head(I)
        /\ f.type \in {"SYNC", "FOLLOW_UP"}
  <2>1. ingress[p] \in Seq(FrameT) /\ ingress[p] # <<>>
    BY <1>1 DEF Typed, IngressTyping, Deliver
  <2> QED BY <1>1, <2>1, FirstWaiting
<1>3. UNCHANGED wire /\ ingress' = [ingress EXCEPT ![p] = Tail(@)]
  BY <1>1 DEF Deliver
<1>4. Dispatch(ClockType(p[1]), Gates(p[1]), f.type, GateOf(p[2])) = {InternalPort}
  BY <1>1, WayDown DEF Dispatch
<1>5. HandlePtpFrame(p, f)
  BY <1>1, <1>2, <1>4 DEF Deliver
<1>6. control' = control
  BY <1>2, <1>5 DEF HandlePtpFrame
<1>7. \/ f.type = "SYNC" /\ HandleSync(f)
      \/ f.type = "FOLLOW_UP" /\ HandleFollowUp(f)
  BY <1>1, <1>2, <1>5 DEF HandlePtpFrame, Concerns
<1>8. SameOut
  <2>1. SUFFICES ASSUME NEW q \in Down PROVE egress'[q] = egress[q]
    BY DEF SameOut
  <2>2. q \in Ports /\ q[1] # p[1] /\ q # p
    BY <1>1, WayDown
  <2>3. egress'[q] = egress[q] \o <<>> \o <<>>
    BY <1>1, <1>2, <2>2 DEF Deliver
  <2>4. egress[q] \in Seq(FrameT)
    BY <2>2 DEF Typed, EgressTyping
  <2> QED BY <2>3, <2>4
<1>9. ingress'[p] = Tail(I) /\ InElsewhere(p)
  BY <1>2, <1>3 DEF InElsewhere, Typed, IngressTyping
<1>10. PICK s \in SyncT : s = sync[p]
  BY <1>1 DEF Typed, ServicesTyped
<1>11. PICK m \in PointT, r \in PointT : m = ent[p] /\ r = rec[Peer[p]]
  BY <1>1, WayDown DEF Full, PointsOf
<1>12. PICK one : one = (Peer[p] \in T)
  OBVIOUS
<1>13. Exact(I, m, r, one)
  BY <1>1, <1>2, <1>11, <1>12 DEF Full, FullIn
<1>14. PICK e \in PointT : e = Pass(f, m)
  BY <1>2, PassTyped
<1>15. /\ Exact(Tail(I), e, r, one)
       /\ f.type = "SYNC" => m.s < f.seq
       /\ f.type = "FOLLOW_UP" => f.seq <= m.s
  BY <1>2, <1>13, <1>14, ExactOut
<1>16. /\ f.seq \in Nat /\ m.s \in Int /\ m.f \in Int /\ f.twoStep \in BOOLEAN
  BY DEF FrameT, PointT
<1>17. 1 \in DOMAIN I /\ f = I[1]
  BY <1>2
<1>18. /\ f.type = "FOLLOW_UP" => Peer[p] \in T
       /\ f.type = "SYNC" => f.twoStep = (Peer[p] \in T)
  BY <1>2, <1>17 DEF FramesTurned
<1>19. PICK v : v = sync'[p]
  OBVIOUS
<1>20. /\ f.type = "SYNC" /\ ~f.twoStep => used' = f.seq
       /\ f.type = "SYNC" /\ f.twoStep => v.syncSequID = f.seq
       /\ f.type = "FOLLOW_UP" => /\ v = s
                                  /\ f.seq = s.syncSequID => used' = f.seq
       /\ sync'[MasterPort] = sync[MasterPort]
  <2>1. CASE f.type = "SYNC" /\ HandleSync(f)
    <3>1. sync' = [sync EXCEPT ![p] = SyncStored(s, f)]
      BY <1>1, <1>10, <2>1 DEF HandleSync
    <3>2. sync'[MasterPort] = sync[MasterPort] /\ v = SyncStored(s, f)
      BY <1>1, <1>19, <3>1, PortTypes DEF Typed, ServicesTyped
    <3>3. f.twoStep => v.syncSequID = f.seq
      BY <3>2 DEF SyncStored, SyncT
    <3>4. ~f.twoStep => used' = f.seq
      BY <2>1 DEF HandleSync, Associated
    <3> QED BY <2>1, <3>2, <3>3, <3>4
  <2>2. CASE f.type = "FOLLOW_UP" /\ HandleFollowUp(f)
    <3>1. sync' = sync
      BY <2>2 DEF HandleFollowUp
    <3>2. f.seq = s.syncSequID => used' = f.seq
      BY <1>1, <1>10, <2>2 DEF HandleFollowUp, Associated
    <3> QED BY <1>10, <1>19, <2>2, <3>1, <3>2
  <2> QED BY <1>7, <2>1, <2>2
<1>21. PICK ent2 : ent2 = [ent EXCEPT ![p] = e]
  OBVIOUS
<1>22. /\ ent2 \in PointsOf(Down \cup {SlavePort}) /\ ent2[p] = e
       /\ \A q \in Down : ent2[q] = ent[q]
  BY <1>1, <1>21 DEF Full, PointsOf
<1>23. FullEnd(T, ent2)'
  <2>1. CASE Peer[p] \in T
    <3>1. m.f <= m.s /\ (m.s = -1 \/ s.syncSequID = m.s)
      BY <1>1, <1>10, <1>11, <2>1 DEF Full, FullEnd
    <3>2. CASE f.type = "SYNC"
      <4>1. e.s = f.seq /\ e.f = m.f
        BY <1>14, <3>2, PassTyped
      <4>2. v.syncSequID = f.seq
        BY <1>18, <1>20, <2>1, <3>2
      <4>3. e.f <= e.s /\ e.f # e.s
        BY <1>15, <1>16, <3>1, <3>2, <4>1
      <4> QED BY <1>1, <1>19, <1>22, <2>1, <4>1, <4>2, <4>3 DEF FullEnd
    <3>3. CASE f.type = "FOLLOW_UP"
      <4>1. e.s = m.s /\ e.f = f.seq
        BY <1>14, <3>3, PassTyped
      <4>2. v = s /\ (f.seq = s.syncSequID => used' = f.seq)
        BY <1>20, <3>3
      <4>3. e.f <= e.s /\ s.syncSequID = e.s
        BY <1>15, <1>16, <3>1, <3>3, <4>1
      <4> QED BY <1>1, <1>19, <1>22, <2>1, <4>1, <4>2, <4>3 DEF FullEnd
    <3> QED BY <1>2, <3>2, <3>3
  <2>2. CASE Peer[p] \notin T
    <3>1. f.type = "SYNC" /\ ~f.twoStep
      BY <1>2, <1>18, <2>2
    <3>2. used' = f.seq /\ e.s = f.seq
      BY <1>14, <1>20, <3>1, PassTyped
    <3> QED BY <1>1, <1>22, <2>2, <3>2 DEF FullEnd
  <2> QED BY <2>1, <2>2
<1>24. FullOut(T, ent2, trans)'
  BY <1>8, <1>22 DEF Full, FullOut, SameOut
<1>25. FullIn(T, ent2, rec)'
  <2>1. FullIn(T, ent, rec)
    BY DEF Full
  <2>2. \A q \in Down \cup {SlavePort} : q # p => ent2[q] = ent[q]
    BY <1>1, <1>22
  <2>3. InMarks(ent2, ent, rec, rec, p)
    BY <1>1, <2>2, OneAfter, WayDown DEF InMarks
  <2>4. Exact(ingress'[p], ent2[Onward(p)], rec[Peer[p]], Peer[p] \in T)
    BY <1>1, <1>9, <1>11, <1>12, <1>15, <1>22
  <2> QED BY <2>1, <2>3, <2>4, <1>9, InFlows
<1>26. FullStart(T, ent2)' /\ FullOn(T, trans, rec)' /\ FullRequests(T, ent2, trans)'
  BY <1>3, <1>6, <1>20, <1>22, WayDown DEF Full, FullStart, FullOn, FullRequests
<1>27. Full(T, ent2, trans, rec)'
  BY <1>22, <1>23, <1>24, <1>25, <1>26 DEF Full
<1> QED BY <1>27

LEMMA DeliverFlows ==
  ASSUME Typed, NEW T, FramesTurned(T), NEW ent, NEW trans, NEW rec, Full(T, ent, trans, rec),
         NEW p \in Ports, Deliver(p)
  PROVE  \E e : Full(T, e, trans, rec)'
<1>1. CASE Head(ingress[p]).type \notin {"SYNC", "FOLLOW_UP"}
  <2>1. NoneFlows
    BY <1>1, DeliverPlainFlows
  <2>2. Full(T, ent, trans, rec)'
    BY <2>1, NothingFlows
  <2> QED BY <2>2
<1>2. CASE Head(ingress[p]).type \in {"SYNC", "FOLLOW_UP"}
  <2>1. p \notin Down
    BY <1>2, NoneBack DEF Deliver
  <2>2. CASE p = SlavePort
    BY <1>2, <2>2, SlaveFlows
  <2>3. CASE p # SlavePort
    BY <1>2, <2>1, <2>3, OnwardFlows
  <2> QED BY <2>2, <2>3
<1> QED BY <1>1, <1>2

\* A Follow_Up is issued because the NIC control has asked for it.
LEMMA TriggerFlows ==
  ASSUME Typed, NEW T, RequestsTurned(T), NEW ent, NEW trans, NEW rec,
         Full(T, ent, trans, rec),
         NEW n \in Nodes, Control(n), Head(control[n]).what = "TRIG_SFU"
  PROVE  \E e : Full(T, e, trans, rec)'
<1>1. /\ control[n] # <<>> /\ control' = [control EXCEPT ![n] = Tail(@)]
      /\ UNCHANGED <<ingress, wire, sync, used>>
  BY DEF Control
<1>2. PICK C \in Seq(Messages(n)) : C = control[n] /\ C # <<>>
  BY <1>1 DEF Typed, ControlTyped
<1>3. PICK r \in Requests(n) : r = Head(C) /\ r.what = "TRIG_SFU"
  <2>1. Head(C) \in Messages(n)
    BY <1>2
  <2> QED BY <1>2, <2>1 DEF Messages, Updates
<1>4. PICK k \in Inner : /\ k = r.port /\ k \in Down /\ k # MasterPort /\ k[1] = n
                         /\ k # SlavePort
  BY <1>3, WayDown DEF Requests, PortsOf, Inner
<1>5. PICK up \in Ports \ Down : /\ Peer[up] = Before(k) /\ Onward(up) = k
                                 /\ k \in Ports /\ \A q \in Down : q[1] = n => q = k
  BY <1>4, WayUp, WayDown DEF Before
<1>6. PICK s \in FrameT, seq \in Nat : s = r.frame /\ seq = s.seq
  BY <1>3 DEF Requests, FrameT
<1>7. PICK g \in FrameT : g = CreateFollowUpFrame(s) /\ g.type = "FOLLOW_UP" /\ g.seq = seq
  BY <1>6, FollowUpOf
<1>8. egress' = [egress EXCEPT ![k] = @ \o <<g>>]
  BY <1>2, <1>3, <1>4, <1>6, <1>7 DEF Control, Issue
<1>9. PICK m \in PointT, t \in PointT : m = ent[k] /\ t = trans[k]
  BY <1>4 DEF Full, PointsOf
<1>10. k \in T /\ Before(k) \notin T
  <2>1. 1 \in DOMAIN C /\ C[1] = r
    BY <1>2, <1>3
  <2> QED BY <1>2, <1>3, <1>4, <2>1 DEF RequestsTurned
<1>11. AllAsked(Tail(C), seq, t.s) /\ seq <= t.s
  <2>1. PICK S, K, h, l : S = Messages(n) /\ K = C /\ h = m.f /\ l = t.s
    OBVIOUS
  <2>2. AllAsked(K, h, l) /\ K \in Seq(S) /\ K # <<>> /\ r = Head(K)
    BY <1>2, <1>3, <1>4, <1>9, <1>10, <2>1 DEF Full, FullRequests
  <2>3. seq = IF r.what = "TRIG_SFU" THEN r.frame.seq ELSE h
    BY <1>3, <1>6
  <2>4. AllAsked(Tail(K), seq, l) /\ (r.what = "TRIG_SFU" => r.frame.seq <= l)
    BY <2>2, <2>3, AskedTail
  <2> QED BY <1>3, <1>6, <2>1, <2>4
<1>12. PICK Q \in Seq(FrameT) : Q = egress[k]
  BY <1>5 DEF Typed, EgressTyping
<1>13. PICK two : two = (k \in T)
  OBVIOUS
<1>14. Exact(Q, t, m, two)
  BY <1>4, <1>9, <1>12, <1>13 DEF Full, FullOut
<1>15. seq <= m.s
  <2>1. t.s <= m.s /\ t.s \in Int /\ m.s \in Int
    BY <1>14 DEF Exact
  <2> QED BY <1>11, <2>1
<1>16. egress'[k] = Append(Q, g) /\ OutElsewhere(k)
  <2>1. egress'[k] = Q \o <<g>> /\ \A q \in Ports : q # k => egress'[q] = egress[q]
    BY <1>5, <1>8, <1>12 DEF Typed, EgressTyping
  <2>2. Q \o <<g>> = Append(Q, g)
    BY <1>7
  <2> QED BY <2>1, <2>2, WayDown DEF OutElsewhere
<1>17. PICK e \in PointT : e = Pass(g, m) /\ e.s = m.s /\ e.f = seq
  BY <1>7, PassTyped
<1>18. Exact(Append(Q, g), t, e, two)
  <2>1. g.type # "SYNC"
    BY <1>7
  <2>2. g.type = "FOLLOW_UP" => g.seq <= m.s
    BY <1>7, <1>15
  <2> QED BY <1>14, <1>17, <2>1, <2>2, ExactIn
<1>19. PICK ent2 : ent2 = [ent EXCEPT ![k] = e]
  OBVIOUS
<1>20. /\ ent2 \in PointsOf(Down \cup {SlavePort}) /\ ent2[k] = e
       /\ \A q \in Down \cup {SlavePort} : q # k => ent2[q] = ent[q]
  BY <1>4, <1>19 DEF Full, PointsOf
<1>21. FullOut(T, ent2, trans)'
  <2>1. Exact(egress'[k], trans[k], ent2[k], k \in T)
    BY <1>9, <1>13, <1>16, <1>18, <1>20
  <2>2. Elsewhere(ent2, ent, k) /\ Elsewhere(trans, trans, k)
    BY <1>20 DEF Elsewhere
  <2>3. FullOut(T, ent, trans)
    BY DEF Full
  <2> QED BY <1>4, <1>16, <2>1, <2>2, <2>3, OutFlows
<1>22. FullIn(T, ent2, rec)'
  <2>1. FullIn(T, ent, rec)
    BY DEF Full
  <2>2. InMarks(ent2, ent, rec, rec, up)
    BY <1>5, <1>20, OneAfter, WayDown DEF InMarks
  <2>3. Exact(ingress'[up], ent2[Onward(up)], rec[Peer[up]], Peer[up] \in T)
    <3>1. PICK hi, one, I : /\ hi = rec[Peer[up]] /\ one = (Peer[up] \in T) /\ I = ingress[up]
      OBVIOUS
    <3>2. one = FALSE
      <4>1. (Peer[up] \in T) = FALSE
        BY <1>5, <1>10
      <4> QED BY <3>1, <4>1, Zenon
    <3>3. Exact(I, m, hi, one)
      BY <1>5, <1>9, <2>1, <3>1 DEF FullIn
    <3>4. Exact(I, e, hi, one)
      BY <1>17, <3>2, <3>3, SyncsOnly
    <3> QED BY <1>1, <1>5, <1>20, <3>1, <3>4
  <2>4. InElsewhere(up)
    BY <1>1 DEF InElsewhere
  <2> QED BY <2>1, <2>2, <2>3, <2>4, InFlows
<1>23. FullRequests(T, ent2, trans)'
  <2>1. control'[n] = Tail(C) /\ \A q \in Nodes : q # n => control'[q] = control[q]
    BY <1>1, <1>2 DEF Typed, ControlTyped
  <2>2. SUFFICES ASSUME NEW p \in Inner, p \in T, Before(p) \notin T
                 PROVE  AllAsked(control'[p[1]], ent2[p].f, trans[p].s)
    BY DEF FullRequests
  <2>3. CASE p = k
    BY <1>4, <1>9, <1>11, <1>17, <1>20, <2>1, <2>3
  <2>4. CASE p # k
    <3>1. p \in Down /\ p[1] \in Nodes /\ p[1] # n
      BY <1>5, <2>4, WayUp DEF Inner
    <3> QED BY <1>20, <2>1, <2>2, <2>4, <3>1 DEF Full, FullRequests
  <2> QED BY <2>3, <2>4
<1>24. FullStart(T, ent2)' /\ FullEnd(T, ent2)' /\ FullOn(T, trans, rec)'
  BY <1>1, <1>4, <1>20, WayDown DEF Full, FullStart, FullEnd, FullOn
<1>25. Full(T, ent2, trans, rec)'
  BY <1>20, <1>21, <1>22, <1>23, <1>24 DEF Full
<1> QED BY <1>25

LEMMA FullNext ==
  ASSUME Typed, NEW T, OnlyTurned(T), FramesTurned(T), RequestsTurned(T),
         NEW ent, NEW trans, NEW rec, Full(T, ent, trans, rec), Next, ~lost'
  PROVE  \E e, t, r : Full(T, e, t, r)'
<1>1. NoneFlows => \E e, t, r : Full(T, e, t, r)'
  <2>1. ASSUME NoneFlows PROVE Full(T, ent, trans, rec)'
    BY <2>1, NothingFlows
  <2> QED BY <2>1
<1>2. CASE SendSync
  BY <1>2, SendSyncFlows
<1>3. CASE SendDelayReq
  BY <1>1, <1>3, SendDelayReqFlows
<1>4. CASE \E p \in Requesters : SendPDelayReq(p)
  <2>1. PICK p \in Ports : SendPDelayReq(p)
    BY <1>4, NetworkAssumption
  <2> QED BY <1>1, <2>1, SendPDelayReqFlows
<1>5. ASSUME NEW p \in Ports, Transmit(p) PROVE \E e, t, r : Full(T, e, t, r)'
  BY <1>5, TransmitFlows
<1>6. ASSUME NEW p \in Ports, Receive(p) PROVE \E e, t, r : Full(T, e, t, r)'
  BY <1>6, ReceiveFlows
<1>7. \A p \in Ports : ~Lose(p)
  BY DEF Lose
<1>8. ASSUME NEW p \in Ports, Deliver(p) PROVE \E e, t, r : Full(T, e, t, r)'
  BY <1>8, DeliverFlows
<1>9. ASSUME NEW n \in Nodes, Control(n) PROVE \E e, t, r : Full(T, e, t, r)'
  <2>1. CASE Head(control[n]).what = "TRIG_SFU"
    BY <1>9, <2>1, TriggerFlows
  <2>2. CASE Head(control[n]).what # "TRIG_SFU"
    BY <1>1, <1>9, <2>2, UpdateFlows
  <2> QED BY <2>1, <2>2
<1>10. ASSUME NEW n \in Nodes, JumpTransparent(n) PROVE \E e, t, r : Full(T, e, t, r)'
  BY <1>1, <1>10, JumpTransparentFlows
<1>11. CASE Elapse
  BY <1>1, <1>11, ElapseFlows
<1> QED BY <1>2, <1>3, <1>4, <1>5, <1>6, <1>7, <1>8, <1>9, <1>10, <1>11 DEF Next

LEMMA FullStutter ==
  ASSUME NEW T, NEW ent, NEW trans, NEW rec, Full(T, ent, trans, rec), UNCHANGED vars
  PROVE  Full(T, ent, trans, rec)'
BY DEF vars, Full, FullOut, FullOn, FullIn, FullStart, FullRequests, FullEnd

\* A loss is never forgotten.
LEMMA LossStays == [Next]_vars /\ ~lost' => ~lost
<1>1. Next => lost' = lost \/ lost'
  BY DEF Next, SendSync, SendDelayReq, SendPDelayReq, Transmit, Receive, Lose, Deliver, Control,
         JumpTransparent, Elapse
<1> QED BY <1>1 DEF vars

-----------------------------------------------------------------------------
(* The last Sync *)

\* The marks of the last frames are kept along with the books, for as long as none is lost.
Followed ==
  /\ Accounted
  /\ \E L : Recorded(L) /\ (~lost => \E ent, trans, rec : Full(L.turned, ent, trans, rec))

LEMMA FollowedOpen == Init => Followed
<1> SUFFICES ASSUME Init PROVE Followed
  OBVIOUS
<1>1. Accounted
  BY BooksOpen
<1>2. PICK L : Recorded(L)
  BY <1>1 DEF Accounted, Recorded
<1>3. \E ent, trans, rec : Full(L.turned, ent, trans, rec)
  BY FullAtStart
<1> QED BY <1>1, <1>2, <1>3 DEF Followed

LEMMA FollowedNext == Followed /\ [Next]_vars => Followed'
<1> SUFFICES ASSUME Followed, [Next]_vars PROVE Followed'
  OBVIOUS
<1>1. Accounted /\ Accounted' /\ Typed
  BY AccountedNext DEF Followed, Accounted
<1>2. PICK L : Recorded(L) /\ (~lost => \E ent, trans, rec : Full(L.turned, ent, trans, rec))
  BY DEF Followed
<1>3. PICK T : T = L.turned
  OBVIOUS
<1>4. PICK ent, trans, rec : Books(L, ent, trans, rec)
  BY <1>2 DEF Recorded
<1>5. PICK U : U.turned = T /\ Recorded(U)'
  <2>1. CASE Next
    <3>1. \E V, e, t, r : V.turned = L.turned /\ Books(V, e, t, r)'
      BY <1>1, <1>4, <2>1, BooksNext DEF Accounted
    <3> QED BY <1>3, <3>1 DEF Recorded
  <2>2. CASE UNCHANGED vars
    <3>1. Books(L, ent, trans, rec)'
      BY <1>4, <2>2, BooksStutter
    <3> QED BY <1>3, <3>1 DEF Recorded
  <2> QED BY <2>1, <2>2
<1>6. ASSUME ~lost' PROVE \E e, t, r : Full(T, e, t, r)'
  <2>1. PICK e, t, r : Full(T, e, t, r)
    BY <1>2, <1>3, <1>6, LossStays
  <2>2. OnlyTurned(T) /\ FramesTurned(T) /\ RequestsTurned(T)
    BY <1>1, <1>2, <1>3, TurnedTold
  <2>3. CASE Next
    BY <1>1, <1>6, <2>1, <2>2, <2>3, FullNext
  <2>4. CASE UNCHANGED vars
    <3>1. Full(T, e, t, r)'
      BY <2>1, <2>4, FullStutter
    <3> QED BY <3>1
  <2> QED BY <2>3, <2>4
<1> QED BY <1>1, <1>5, <1>6 DEF Followed

\* By p the last Sync n has come, and its Follow_Up if there has to be one.
By(T, ent, n, p) == ent[p].s = n /\ (p \in T => ent[p].f = n)

\* When all is quiet, what has come by a port has come by the next one.
LEMMA QuietOn ==
  ASSUME Quiet, NEW T, OnlyTurned(T), NEW ent, NEW trans, NEW rec, Full(T, ent, trans, rec),
         NEW p \in Down, NEW n, By(T, ent, n, p)
  PROVE  /\ Peer[p] # SlavePort => Onward(Peer[p]) \in Inner /\ By(T, ent, n, Onward(Peer[p]))
         /\ Peer[p] = SlavePort => used = n
<1>1. /\ \A q \in Ports : ingress[q] = <<>> /\ egress[q] = <<>> /\ wire[q] = <<>>
      /\ \A k \in Nodes : control[k] = <<>>
  BY DEF Quiet, Waiting, Flying
<1>2. Frames(<<>>) = <<>>
  BY DEF Frames
<1>3. PICK q \in Ports \ Down : q = Peer[p] /\ Peer[q] = p
  BY WayDown
<1>4. PICK k : k = Onward(q)
  OBVIOUS
<1>5. PICK two, e, t, r, m : /\ two = (p \in T) /\ e = ent[p] /\ t = trans[p] /\ r = rec[p]
                             /\ m = ent[k]
  OBVIOUS
<1>6. Exact(<<>>, t, e, two) /\ Exact(<<>>, r, t, two) /\ Exact(<<>>, m, r, two)
  BY <1>1, <1>2, <1>3, <1>4, <1>5, WayDown DEF Full, FullOut, FullOn, FullIn
<1>7. m.s = e.s /\ (two => m.f = e.f)
  <2>1. e.s = t.s /\ (two => e.f = t.f)
    BY <1>6, ExactEmpty
  <2>2. t.s = r.s /\ (two => t.f = r.f)
    BY <1>6, ExactEmpty
  <2>3. r.s = m.s /\ (two => r.f = m.f)
    BY <1>6, ExactEmpty
  <2> QED BY <2>1, <2>2, <2>3
<1>8. ent[k].s = n /\ (p \in T => ent[k].f = n)
  BY <1>5, <1>7 DEF By
<1>9. ASSUME q # SlavePort PROVE k \in Inner /\ By(T, ent, n, k)
  <2>1. k \in Inner /\ k \in Down /\ Before(k) = p /\ k \in Ports /\ k[1] \in Nodes
    BY <1>3, <1>4, <1>9, WayOn, WayUp, WayDown
  <2>2. ASSUME k \in T PROVE ent[k].f = n
    <3>1. CASE p \in T
      BY <1>8, <3>1
    <3>2. CASE p \notin T
      <4>1. AllAsked(<<>>, ent[k].f, trans[k].s)
        BY <1>1, <2>1, <2>2, <3>2 DEF Full, FullRequests
      <4>2. trans[k].s = ent[k].f
        BY <4>1 DEF AllAsked
      <4>3. PICK on, a, b : on = (k \in T) /\ a = trans[k] /\ b = ent[k]
        OBVIOUS
      <4>4. Exact(<<>>, a, b, on)
        BY <1>1, <2>1, <4>3 DEF Full, FullOut
      <4>5. b.s = a.s
        BY <4>4, ExactEmpty
      <4> QED BY <1>8, <4>2, <4>3, <4>5
    <3> QED BY <3>1, <3>2
  <2> QED BY <1>8, <2>1, <2>2 DEF By
<1>10. ASSUME q = SlavePort PROVE used = n
  <2>1. k = SlavePort
    BY <1>4, <1>10, WayDown
  <2>2. CASE p \in T
    BY <1>3, <1>8, <1>10, <2>1, <2>2 DEF Full, FullEnd
  <2>3. CASE p \notin T
    BY <1>3, <1>8, <1>10, <2>1, <2>3 DEF Full, FullEnd
  <2> QED BY <2>2, <2>3
<1> QED BY <1>3, <1>4, <1>9, <1>10

\* There are finitely many ports, and no way back to the master: the chain has an end.
LEMMA ChainEnds ==
  ASSUME NEW R \in SUBSET Down, MasterPort \in R,
         \A p \in R : Peer[p] # SlavePort => Onward(Peer[p]) \in Inner \cap R
  PROVE  \E p \in R : Peer[p] = SlavePort
<1> SUFFICES ASSUME \A p \in R : Peer[p] # SlavePort PROVE FALSE
  OBVIOUS
<1>1. IsFiniteSet(R)
  <2>1. R \in SUBSET Ports
    BY WayDown
  <2> QED BY <2>1, FS_Subset, NetworkAssumption
<1>2. PICK S : S = R \ {MasterPort}
  OBVIOUS
<1>3. IsFiniteSet(S) /\ Cardinality(S) < Cardinality(R)
  <2>1. Cardinality(R) \in Nat
    BY <1>1, FS_CardinalityType
  <2>2. IsFiniteSet(S) /\ Cardinality(S) = Cardinality(R) - 1
    BY <1>1, <1>2, FS_RemoveElement
  <2> QED BY <2>1, <2>2
<1>4. PICK next : next = [p \in R |-> Onward(Peer[p])]
  OBVIOUS
<1>5. next \in [R -> S]
  BY <1>2, <1>4, WayDown
<1>6. PICK x \in R, y \in R : x # y /\ next[x] = next[y]
  BY <1>1, <1>3, <1>5, FS_PigeonHole
<1>7. Onward(Peer[x]) = Onward(Peer[y])
  BY <1>4, <1>6
<1>8. Peer[x] \in Ports \ Down /\ Peer[y] \in Ports \ Down /\ Peer[Peer[x]] = x /\ Peer[Peer[y]] = y
  BY <1>6, WayDown
<1>9. Peer[x] = Peer[y]
  BY <1>7, <1>8, OneAfter
<1> QED BY <1>6, <1>8, <1>9

LEMMA FollowedCounts == Followed => LastSyncCounts
<1> SUFFICES ASSUME Followed, Quiet, ~lost PROVE used = sync[MasterPort].sequId - 1
  BY DEF LastSyncCounts
<1>1. PICK L : Recorded(L) /\ \E ent, trans, rec : Full(L.turned, ent, trans, rec)
  BY DEF Followed
<1>2. PICK T : T = L.turned
  OBVIOUS
<1>3. PICK ent, trans, rec : Full(T, ent, trans, rec)
  BY <1>1, <1>2
<1>4. OnlyTurned(T)
  BY <1>1, <1>2, TurnedTold DEF Followed, Accounted
<1>5. PICK n : n = sync[MasterPort].sequId - 1
  OBVIOUS
<1>6. PICK R \in SUBSET Down : R = {p \in Down : By(T, ent, n, p)}
  OBVIOUS
<1>7. MasterPort \in R
  BY <1>3, <1>5, <1>6, WayDown DEF Full, FullStart, By
<1>8. ASSUME NEW p \in R
      PROVE  /\ Peer[p] # SlavePort => Onward(Peer[p]) \in Inner \cap R
             /\ Peer[p] = SlavePort => used = n
  <2>1. /\ Peer[p] # SlavePort =>
             Onward(Peer[p]) \in Inner /\ By(T, ent, n, Onward(Peer[p]))
        /\ Peer[p] = SlavePort => used = n
    BY <1>3, <1>4, <1>6, QuietOn
  <2> QED BY <1>6, <2>1, WayDown
<1>9. \E p \in R : Peer[p] = SlavePort
  BY <1>7, <1>8, ChainEnds
<1> QED BY <1>5, <1>8, <1>9

\* When all is quiet and nothing was lost, the slave has used the last Sync of the master:
\* along a chain of any number of transparent clocks, whichever clock on the way adds the
\* first Follow_Up to it, and however long the frames and the requests for that wait.
THEOREM LastSyncAlwaysCounts == Spec => []LastSyncCounts
BY FollowedOpen, FollowedNext, FollowedCounts, PTL DEF Spec

=============================================================================
