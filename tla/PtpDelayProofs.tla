--------------------------- MODULE PtpDelayProofs ---------------------------
(***************************************************************************)
(* What holds of the path delays of the network of PtpNetwork for every    *)
(* length of the chain, every delay, asymmetry and bound.                  *)
(*                                                                         *)
(* The lemmas follow the last request of a port, and the answer to it.     *)
(* A course h says how far both have come and when they were sent; the     *)
(* invariant Tracked says that there is such a course for every port, and  *)
(* that queues, matchers and service agree with it.  A jump of the clock   *)
(* of the port ends the course: no frame has the number that is then       *)
(* expected.                                                               *)
(*                                                                         *)
(* From the course follows what a trusted measurement of a peer delay is   *)
(* worth (TrustsTheTruth), in the service, in the updates on their way to  *)
(* the relay unit and in the hardware.  With that, and with every frame    *)
(* stamped before it leaves (Timely), no MAC fails.                        *)
(***************************************************************************)
EXTENDS PtpNetworkProofs

-----------------------------------------------------------------------------
(* Queues of which some elements matter *)

\* The elements of S in the queue Q are all in C; there is at most one; there is none;
\* one of S2 has one of S1 before it.
All(Q, S, C) == \A i \in DOMAIN Q : Q[i] \in S => Q[i] \in C

One(Q, S) == \A i, j \in DOMAIN Q : Q[i] \in S /\ Q[j] \in S => i = j

None(Q, S) == \A i \in DOMAIN Q : Q[i] \notin S

After(Q, S1, S2) ==
  \A i \in DOMAIN Q : Q[i] \in S2 => \E j \in DOMAIN Q : j < i /\ Q[j] \in S1

\* Elements are taken from the front, or others than those of S are added.
Thinner(Q2, Q, T, S) ==
  \/ Q2 = Q
  \/ Q # <<>> /\ Q2 = Tail(Q)
  \/ \E R \in Seq(T) : Q2 = Q \o R /\ None(R, S)

\* The same, if nothing of S is taken.
Firm(Q2, Q, T, S) == Thinner(Q2, Q, T, S) /\ (Q2 = Tail(Q) /\ Q # <<>> => Head(Q) \notin S)

LEMMA TailIs ==
  ASSUME NEW T, NEW Q \in Seq(T), Q # <<>>
  PROVE  /\ Head(Q) = Q[1] /\ 1 \in DOMAIN Q /\ Tail(Q) \in Seq(T)
         /\ \A i \in DOMAIN Tail(Q) : i \in Nat /\ i + 1 \in DOMAIN Q /\ Tail(Q)[i] = Q[i + 1]
         /\ \A i \in DOMAIN Q : i \in Nat /\ (i # 1 => i - 1 \in DOMAIN Tail(Q))
OBVIOUS

LEMMA AddedIs ==
  ASSUME NEW T, NEW Q \in Seq(T), NEW R \in Seq(T)
  PROVE  /\ Q \o R \in Seq(T) /\ Len(Q) \in Nat
         /\ \A i \in DOMAIN Q : i \in DOMAIN (Q \o R) /\ (Q \o R)[i] = Q[i]
         /\ \A i \in DOMAIN (Q \o R) :
              \/ i \in DOMAIN Q /\ (Q \o R)[i] = Q[i]
              \/ i - Len(Q) \in DOMAIN R /\ (Q \o R)[i] = R[i - Len(Q)] /\ i > Len(Q)
         /\ DOMAIN Q = 1 .. Len(Q)
OBVIOUS

LEMMA OneLess ==
  ASSUME NEW T, NEW Q \in Seq(T), Q # <<>>, NEW S, NEW C, All(Q, S, C), One(Q, S)
  PROVE  /\ All(Tail(Q), S, C) /\ One(Tail(Q), S)
         /\ Head(Q) \in S => Head(Q) \in C /\ None(Tail(Q), S)
<1>1. /\ Head(Q) = Q[1] /\ 1 \in DOMAIN Q
      /\ \A i \in DOMAIN Tail(Q) : i \in Nat /\ i + 1 \in DOMAIN Q /\ Tail(Q)[i] = Q[i + 1]
  BY TailIs
<1>2. \A i, j \in DOMAIN Tail(Q) : (i + 1 = j + 1 => i = j) /\ i + 1 # 1
  BY <1>1
<1>3. All(Tail(Q), S, C)
  BY <1>1 DEF All
<1>4. One(Tail(Q), S)
  BY <1>1, <1>2 DEF One
<1>5. ASSUME Head(Q) \in S PROVE Head(Q) \in C /\ None(Tail(Q), S)
  BY <1>1, <1>2, <1>5 DEF All, One, None
<1> QED BY <1>3, <1>4, <1>5

LEMMA NoneLess ==
  ASSUME NEW T, NEW Q \in Seq(T), Q # <<>>, NEW S, None(Q, S)
  PROVE  None(Tail(Q), S)
<1>1. \A i \in DOMAIN Tail(Q) : i + 1 \in DOMAIN Q /\ Tail(Q)[i] = Q[i + 1]
  BY TailIs
<1> QED BY <1>1 DEF None

LEMMA AfterLess ==
  ASSUME NEW T, NEW Q \in Seq(T), Q # <<>>, NEW S1, NEW S2, After(Q, S1, S2),
         Head(Q) \notin S1
  PROVE  After(Tail(Q), S1, S2)
<1>1. /\ Head(Q) = Q[1] /\ 1 \in DOMAIN Q
      /\ \A i \in DOMAIN Tail(Q) : i \in Nat /\ i + 1 \in DOMAIN Q /\ Tail(Q)[i] = Q[i + 1]
      /\ \A i \in DOMAIN Q : i \in Nat /\ (i # 1 => i - 1 \in DOMAIN Tail(Q))
  BY TailIs
<1>2. SUFFICES ASSUME NEW i \in DOMAIN Tail(Q), Tail(Q)[i] \in S2
               PROVE  \E j \in DOMAIN Tail(Q) : j < i /\ Tail(Q)[j] \in S1
  BY DEF After
<1>3. PICK j \in DOMAIN Q : j < i + 1 /\ Q[j] \in S1
  BY <1>1, <1>2 DEF After
<1>4. j # 1 /\ j - 1 \in DOMAIN Tail(Q) /\ j - 1 < i /\ j - 1 + 1 = j
  BY <1>1, <1>3
<1>5. Tail(Q)[j - 1] = Q[j]
  BY <1>1, <1>4
<1> QED BY <1>3, <1>4, <1>5

LEMMA MoreOfOthers ==
  ASSUME NEW T, NEW Q \in Seq(T), NEW R \in Seq(T), NEW S, None(R, S)
  PROVE  /\ \A C : All(Q, S, C) => All(Q \o R, S, C)
         /\ One(Q, S) => One(Q \o R, S)
         /\ None(Q, S) => None(Q \o R, S)
         /\ \A S1 : After(Q, S1, S) => After(Q \o R, S1, S)
<1>1. \A i \in DOMAIN (Q \o R) :
        (Q \o R)[i] \in S => i \in DOMAIN Q /\ (Q \o R)[i] = Q[i]
  BY AddedIs DEF None
<1>2. \A i \in DOMAIN Q : i \in DOMAIN (Q \o R) /\ (Q \o R)[i] = Q[i]
  BY AddedIs
<1>3. ASSUME NEW C, All(Q, S, C) PROVE All(Q \o R, S, C)
  BY <1>1, <1>3 DEF All
<1>4. ASSUME One(Q, S) PROVE One(Q \o R, S)
  BY <1>1, <1>4 DEF One
<1>5. ASSUME None(Q, S) PROVE None(Q \o R, S)
  BY <1>1, <1>5 DEF None
<1>6. ASSUME NEW S1, After(Q, S1, S) PROVE After(Q \o R, S1, S)
  BY <1>1, <1>2, <1>6 DEF After
<1> QED BY <1>3, <1>4, <1>5, <1>6

LEMMA FirstOfAll ==
  ASSUME NEW T, NEW Q \in Seq(T), NEW x \in T, NEW S, None(Q, S), NEW C, x \in S => x \in C
  PROVE  All(Append(Q, x), S, C) /\ One(Append(Q, x), S)
<1>1. /\ DOMAIN Append(Q, x) = 1 .. Len(Q) + 1 /\ DOMAIN Q = 1 .. Len(Q) /\ Len(Q) \in Nat
      /\ Append(Q, x)[Len(Q) + 1] = x /\ \A i \in DOMAIN Q : Append(Q, x)[i] = Q[i]
  OBVIOUS
<1>2. \A i \in DOMAIN Append(Q, x) : Append(Q, x)[i] \in S => i = Len(Q) + 1
  BY <1>1 DEF None
<1> QED BY <1>1, <1>2 DEF All, One

LEMMA OneMore ==
  ASSUME NEW T, NEW Q \in Seq(T), NEW x \in T, NEW S, NEW C, x \in S => x \in C
  PROVE  All(Q, S, C) => All(Append(Q, x), S, C)
<1>1. /\ DOMAIN Append(Q, x) = 1 .. Len(Q) + 1 /\ DOMAIN Q = 1 .. Len(Q) /\ Len(Q) \in Nat
      /\ Append(Q, x)[Len(Q) + 1] = x /\ \A i \in DOMAIN Q : Append(Q, x)[i] = Q[i]
  OBVIOUS
<1> QED BY <1>1 DEF All

\* Of a queue without any, all are as they should.
LEMMA NoneIsAll ==
  ASSUME NEW Q, NEW S, None(Q, S)
  PROVE  /\ \A C : All(Q, S, C)
         /\ One(Q, S)
         /\ \A S1 : After(Q, S1, S)
BY DEF None, All, One, After

LEMMA AllIsNone ==
  ASSUME NEW Q, NEW S, NEW C, All(Q, S, C), \A x : x \notin C
  PROVE  None(Q, S)
BY DEF None, All

LEMMA AllAlso ==
  ASSUME NEW Q, NEW S, NEW C, NEW D, All(Q, S, C), \A x \in C : x \in D
  PROVE  All(Q, S, D)
BY DEF All

LEMMA NoneOfPart ==
  ASSUME NEW Q, NEW S, NEW S1, None(Q, S), S1 \subseteq S
  PROVE  None(Q, S1)
BY DEF None

LEMMA ThinnerKeeps ==
  ASSUME NEW T, NEW Q \in Seq(T), NEW Q2, NEW S, Thinner(Q2, Q, T, S), NEW S1, S1 \subseteq S
  PROVE  /\ Q2 \in Seq(T)
         /\ \A C : All(Q, S1, C) => All(Q2, S1, C)
         /\ One(Q, S1) => One(Q2, S1)
         /\ None(Q, S1) => None(Q2, S1)
<1>1. CASE Q2 = Q
  BY <1>1
<1>2. CASE Q # <<>> /\ Q2 = Tail(Q)
  <2>1. \A i \in DOMAIN Tail(Q) : i \in Nat /\ i + 1 \in DOMAIN Q /\ Tail(Q)[i] = Q[i + 1]
    BY <1>2, TailIs
  <2>2. \A i, j \in DOMAIN Tail(Q) : i + 1 = j + 1 => i = j
    BY <2>1
  <2>3. Tail(Q) \in Seq(T)
    BY <1>2
  <2> QED BY <1>2, <2>1, <2>2, <2>3 DEF All, One, None
<1>3. CASE \E R \in Seq(T) : Q2 = Q \o R /\ None(R, S)
  <2>1. PICK R \in Seq(T) : Q2 = Q \o R /\ None(R, S)
    BY <1>3
  <2>2. None(R, S1)
    BY <2>1, NoneOfPart
  <2> QED BY <2>1, <2>2, AddedIs, MoreOfOthers
<1> QED BY <1>1, <1>2, <1>3 DEF Thinner

LEMMA FirmKeeps ==
  ASSUME NEW T, NEW Q \in Seq(T), NEW Q2, NEW S, Firm(Q2, Q, T, S),
         NEW S1, S1 \subseteq S, NEW S2, S2 \subseteq S, After(Q, S1, S2)
  PROVE  After(Q2, S1, S2)
<1>1. CASE Q2 = Q
  BY <1>1
<1>2. CASE Q # <<>> /\ Q2 = Tail(Q)
  <2>1. Head(Q) \notin S1
    BY <1>2 DEF Firm
  <2> QED BY <1>2, <2>1, AfterLess
<1>3. CASE \E R \in Seq(T) : Q2 = Q \o R /\ None(R, S)
  <2>1. PICK R \in Seq(T) : Q2 = Q \o R /\ None(R, S)
    BY <1>3
  <2>2. None(R, S2)
    BY <2>1, NoneOfPart
  <2> QED BY <2>1, <2>2, MoreOfOthers
<1> QED BY <1>1, <1>2, <1>3 DEF Firm, Thinner

-----------------------------------------------------------------------------
(* One entry of a matcher *)

EntryOf(s, k) == {e \in EntryT : e.source = s /\ e.sequenceId = k}

\* There is one entry for the number k of s, and its time is t.
Only(Q, s, k, t) ==
  /\ One(Q, EntryOf(s, k)) /\ All(Q, EntryOf(s, k), {e \in EntryT : e.time = t})
  /\ ~None(Q, EntryOf(s, k))

LEMMA KeptIs ==
  ASSUME NEW q, NEW s, NEW id, NEW N \in Nat, NEW f, f = Kept(q, s, id, N)
  PROVE  f = [k \in 0 .. N |-> IF k = 0 THEN <<>>
                               ELSE IF Outdated(q[k], s, id) THEN f[k - 1]
                               ELSE Append(f[k - 1], q[k])]
BY KeptExists

LEMMA CleanedOnce ==
  ASSUME NEW T, NEW q \in Seq(T), NEW s, NEW id, NEW S, One(q, S)
  PROVE  One(Cleaned(q, s, id), S)
<1>a. PICK N \in Nat : N = Len(q)
  OBVIOUS
<1>b. PICK f : f = Kept(q, s, id, N)
  OBVIOUS
<1> DEFINE Leaves2(n) ==
             /\ f[n] \in Seq(T)
             /\ \A k \in DOMAIN f[n] : \E i \in 1 .. n : f[n][k] = q[i]
             /\ One(f[n], S)
           Some == {n \in 0 .. N : Leaves2(n)}
<1>1. N \in Nat /\ DOMAIN q = 1 .. N /\ \A i \in 1 .. N : q[i] \in T
  BY <1>a
<1>2. f = [k \in 0 .. N |-> IF k = 0 THEN <<>>
                            ELSE IF Outdated(q[k], s, id) THEN f[k - 1]
                            ELSE Append(f[k - 1], q[k])]
  BY <1>b, KeptIs
<1>3. Cleaned(q, s, id) = f[N]
  BY <1>a, <1>b DEF Cleaned, Kept
<1>4. Leaves2(0)
  <2>1. f[0] = <<>>
    BY <1>1, <1>2
  <2> QED BY <2>1 DEF One
<1>5. ASSUME NEW n \in 1 .. N, Leaves2(n - 1) PROVE Leaves2(n)
  <2>1. n - 1 \in 0 .. N /\ n \in 0 .. N /\ n # 0 /\ 1 .. n - 1 \subseteq 1 .. n
    BY <1>1
  <2>2. CASE Outdated(q[n], s, id)
    <3>1. f[n] = f[n - 1]
      BY <1>2, <2>1, <2>2
    <3> QED BY <1>5, <3>1, <2>1
  <2>3. CASE ~Outdated(q[n], s, id)
    <3>1. PICK g : g = f[n - 1]
      OBVIOUS
    <3>2. f[n] = Append(g, q[n])
      BY <1>2, <2>1, <2>3, <3>1
    <3>3. g \in Seq(T) /\ q[n] \in T /\ One(g, S)
      BY <1>1, <1>5, <3>1
    <3>4. \A k \in DOMAIN g : \E i \in 1 .. n - 1 : g[k] = q[i]
      BY <1>5, <3>1
    <3>5. f[n] \in Seq(T)
      BY <3>2, <3>3
    <3>6. /\ DOMAIN f[n] = 1 .. Len(g) + 1 /\ DOMAIN g = 1 .. Len(g) /\ Len(g) \in Nat
          /\ f[n][Len(g) + 1] = q[n] /\ \A k \in DOMAIN g : f[n][k] = g[k]
      BY <3>2, <3>3
    <3>7. \A k \in DOMAIN f[n] : \E i \in 1 .. n : f[n][k] = q[i]
      BY <2>1, <3>4, <3>6
    <3>8. One(f[n], S)
      <4>1. CASE q[n] \in S
        <5>1. ASSUME NEW k \in DOMAIN g, g[k] \in S PROVE FALSE
          <6>1. PICK i \in 1 .. n - 1 : g[k] = q[i]
            BY <3>4, <5>1
          <6>2. i \in DOMAIN q /\ n \in DOMAIN q /\ i # n
            BY <1>1
          <6> QED BY <6>1, <6>2, <5>1, <4>1 DEF One
        <5>2. None(g, S)
          BY <5>1 DEF None
        <5> QED BY <3>2, <3>3, <5>2, FirstOfAll
      <4>2. CASE q[n] \notin S
        BY <3>3, <3>6, <4>2 DEF One
      <4> QED BY <4>1, <4>2
    <3> QED BY <3>5, <3>7, <3>8
  <2> QED BY <2>2, <2>3
<1>6. 0 \in Some /\ \A k \in 1 .. N : k - 1 \in Some => k \in Some
  <2> HIDE DEF Leaves2
  <2>1. \A k \in 1 .. N : k - 1 \in 0 .. N /\ k \in 0 .. N
    BY <1>1
  <2>2. 0 \in Some
    BY <1>1, <1>4
  <2> QED BY <1>5, <2>1, <2>2
<1>7. N \in Some
  <2> HIDE DEF Some
  <2>1. \A k \in 0 .. N : k \in Some
    BY <1>6, <1>1, UpTo
  <2> QED BY <2>1, <1>1
<1> QED BY <1>3, <1>7

\* What lies before and after the entry i.
LEMMA PartsOf ==
  ASSUME NEW T, NEW q \in Seq(T), NEW i \in DOMAIN q,
         NEW a, a = SubSeq(q, 1, i - 1), NEW b, b = SubSeq(q, i + 1, Len(q))
  PROVE  /\ a \in Seq(T) /\ b \in Seq(T)
         /\ \A j \in DOMAIN a : j \in DOMAIN q /\ j < i /\ a[j] = q[j]
         /\ \A j \in DOMAIN b : i + j \in DOMAIN q /\ i + j > i /\ b[j] = q[i + j] /\ j \in Int
         /\ \A j \in DOMAIN q : j < i => j \in DOMAIN a /\ a[j] = q[j]
         /\ \A j \in DOMAIN q : j > i => j - i \in DOMAIN b /\ b[j - i] = q[j]
         /\ i \in Int /\ \A j \in DOMAIN q : j \in Int
<1>1. PICK n \in Nat : n = Len(q)
  OBVIOUS
<1>2. DOMAIN q = 1 .. n /\ i \in 1 .. n /\ \A j \in 1 .. n : q[j] \in T
  BY <1>1
<1>3. a \in Seq(T) /\ b \in Seq(T)
  BY <1>1, <1>2
<1>4. DOMAIN a = 1 .. i - 1 /\ \A j \in 1 .. i - 1 : a[j] = q[j]
  BY <1>1, <1>2
<1>5. DOMAIN b = 1 .. n - i /\ \A j \in 1 .. n - i : b[j] = q[i + j]
  BY <1>1, <1>2
<1>6. \A j \in DOMAIN a : j \in DOMAIN q /\ j < i /\ a[j] = q[j]
  BY <1>2, <1>4
<1>7. \A j \in DOMAIN b : i + j \in DOMAIN q /\ i + j > i /\ b[j] = q[i + j] /\ j \in Int
  BY <1>2, <1>5
<1>8. \A j \in DOMAIN q : j < i => j \in DOMAIN a /\ a[j] = q[j]
  BY <1>2, <1>4
<1>9. ASSUME NEW j \in DOMAIN q, j > i PROVE j - i \in DOMAIN b /\ b[j - i] = q[j]
  <2>1. j - i \in 1 .. n - i /\ i + (j - i) = j
    BY <1>2, <1>9
  <2> QED BY <2>1, <1>5
<1> QED BY <1>2, <1>3, <1>6, <1>7, <1>8, <1>9

LEMMA RestKeeps ==
  ASSUME NEW T, NEW Q \in Seq(T), NEW s, NEW k, NEW S
  PROVE  /\ Rest(Q, s, k) \in Seq(T)
         /\ \A C : All(Q, S, C) => All(Rest(Q, s, k), S, C)
         /\ None(Q, S) => None(Rest(Q, s, k), S)
         /\ One(Q, S) => One(Rest(Q, s, k), S)
<1>1. CASE NoneFits(Q, s, k)
  <2>1. Rest(Q, s, k) = Cleaned(Q, s, k)
    BY <1>1 DEF NoneFits
  <2>2. /\ Cleaned(Q, s, k) \in Seq(T)
        /\ \A n \in DOMAIN Cleaned(Q, s, k) : \E i \in DOMAIN Q : Cleaned(Q, s, k)[n] = Q[i]
    BY CleanedLeaves
  <2>3. One(Q, S) => One(Cleaned(Q, s, k), S)
    BY CleanedOnce
  <2> QED BY <2>1, <2>2, <2>3 DEF All, None
<1>2. CASE \E i \in DOMAIN Q : FirstFits(Q, s, k, i)
  <2>1. PICK i \in DOMAIN Q : FirstFits(Q, s, k, i)
    BY <1>2
  <2>2. PICK a, b : a = SubSeq(Q, 1, i - 1) /\ b = SubSeq(Q, i + 1, Len(Q))
    OBVIOUS
  <2>3. /\ a \in Seq(T) /\ b \in Seq(T)
        /\ \A j \in DOMAIN a : j \in DOMAIN Q /\ j < i /\ a[j] = Q[j]
        /\ \A j \in DOMAIN b : i + j \in DOMAIN Q /\ i + j > i /\ b[j] = Q[i + j] /\ j \in Int
        /\ i \in Int /\ \A j \in DOMAIN Q : j \in Int
    BY <2>2, PartsOf
  <2>4. PICK c : c = Cleaned(a, s, k)
    OBVIOUS
  <2>5. /\ c \in Seq(T) /\ \A n \in DOMAIN c : \E j \in DOMAIN a : c[n] = a[j]
        /\ One(a, S) => One(c, S)
    BY <2>3, <2>4, CleanedLeaves, CleanedOnce
  <2>6. Rest(Q, s, k) = c \o b
    BY <2>1, <2>2, <2>4 DEF FirstFits
  <2>7. /\ c \o b \in Seq(T)
        /\ \A n \in DOMAIN (c \o b) :
             \/ n \in DOMAIN c /\ (c \o b)[n] = c[n]
             \/ n - Len(c) \in DOMAIN b /\ (c \o b)[n] = b[n - Len(c)] /\ n > Len(c)
        /\ DOMAIN c = 1 .. Len(c) /\ Len(c) \in Nat
    BY <2>3, <2>5, AddedIs
  <2>8. \A n \in DOMAIN c : \E j \in DOMAIN Q : j < i /\ c[n] = Q[j]
    <3>1. TAKE n \in DOMAIN c
    <3>2. PICK j \in DOMAIN a : c[n] = a[j]
      BY <2>5
    <3> QED BY <3>2, <2>3
  <2>9. \A n \in DOMAIN (c \o b) : \E j \in DOMAIN Q : (c \o b)[n] = Q[j]
    <3>1. TAKE n \in DOMAIN (c \o b)
    <3>2. CASE n \in DOMAIN c /\ (c \o b)[n] = c[n]
      BY <3>2, <2>8
    <3>3. CASE n - Len(c) \in DOMAIN b /\ (c \o b)[n] = b[n - Len(c)]
      BY <3>3, <2>3
    <3> QED BY <3>2, <3>3, <2>7
  <2>10. ASSUME One(Q, S) PROVE One(c \o b, S)
    <3>1. One(a, S)
      BY <2>3, <2>10 DEF One
    <3>2. SUFFICES ASSUME NEW m \in DOMAIN (c \o b), NEW n \in DOMAIN (c \o b),
                          (c \o b)[m] \in S, (c \o b)[n] \in S
                   PROVE  m = n
      BY DEF One
    <3>3. ASSUME NEW x \in DOMAIN c, NEW y \in DOMAIN b, c[x] \in S, b[y] \in S PROVE FALSE
      <4>1. PICK j \in DOMAIN Q : j < i /\ c[x] = Q[j]
        BY <2>8, <3>3
      <4>2. i + y \in DOMAIN Q /\ i + y > i /\ b[y] = Q[i + y] /\ j \in Int /\ i \in Int
            /\ y \in Int
        BY <2>3, <3>3, <4>1
      <4>3. j = i + y
        BY <2>10, <3>3, <4>1, <4>2 DEF One
      <4> QED BY <4>1, <4>2, <4>3
    <3>4. CASE m \in DOMAIN c /\ (c \o b)[m] = c[m]
      <4>1. CASE n \in DOMAIN c /\ (c \o b)[n] = c[n]
        BY <3>1, <3>2, <3>4, <4>1, <2>5 DEF One
      <4>2. CASE n - Len(c) \in DOMAIN b /\ (c \o b)[n] = b[n - Len(c)]
        BY <3>2, <3>3, <3>4, <4>2
      <4> QED BY <4>1, <4>2, <2>7
    <3>5. CASE m - Len(c) \in DOMAIN b /\ (c \o b)[m] = b[m - Len(c)]
      <4>1. CASE n \in DOMAIN c /\ (c \o b)[n] = c[n]
        BY <3>2, <3>3, <3>5, <4>1
      <4>2. CASE n - Len(c) \in DOMAIN b /\ (c \o b)[n] = b[n - Len(c)]
        <5>1. PICK x \in DOMAIN b : x = m - Len(c)
          BY <3>5
        <5>2. PICK y \in DOMAIN b : y = n - Len(c)
          BY <4>2
        <5>3. Q[i + x] \in S /\ Q[i + y] \in S /\ i + x \in DOMAIN Q /\ i + y \in DOMAIN Q
          BY <2>3, <3>2, <3>5, <4>2, <5>1, <5>2
        <5>4. i + x = i + y
          BY <5>3, <2>10 DEF One
        <5>5. x \in Int /\ y \in Int /\ i \in Int /\ m \in Int /\ n \in Int /\ Len(c) \in Int
          BY <2>3, <2>7
        <5> QED BY <5>1, <5>2, <5>4, <5>5
      <4> QED BY <4>1, <4>2, <2>7
    <3> QED BY <3>4, <3>5, <2>7
  <2> QED BY <2>6, <2>7, <2>9, <2>10 DEF All, None
<1> QED BY <1>1, <1>2, FirstMatch

\* An entry is found, and then gone.
LEMMA PopFinds ==
  ASSUME NEW Q \in Seq(EntryT), NEW s, NEW k, NEW t, Only(Q, s, k, t)
  PROVE  Result(Q, s, k) = [valid |-> TRUE, time |-> t] /\ None(Rest(Q, s, k), EntryOf(s, k))
<1>1. \A j \in DOMAIN Q : Q[j] \in EntryT
  OBVIOUS
<1>2. ~NoneFits(Q, s, k)
  <2>1. PICK j \in DOMAIN Q : Q[j] \in EntryOf(s, k)
    BY DEF Only, None
  <2> QED BY <2>1 DEF NoneFits, EntryOf
<1>3. PICK i \in DOMAIN Q : FirstFits(Q, s, k, i)
  BY <1>2, FirstMatch
<1>4. Q[i] \in EntryOf(s, k)
  BY <1>1, <1>3 DEF FirstFits, EntryOf
<1>5. Q[i].time = t
  BY <1>4 DEF Only, All
<1>6. Result(Q, s, k) = [valid |-> TRUE, time |-> t]
  BY <1>3, <1>5 DEF FirstFits
<1>7. PICK a, b : a = SubSeq(Q, 1, i - 1) /\ b = SubSeq(Q, i + 1, Len(Q))
  OBVIOUS
<1>8. /\ a \in Seq(EntryT) /\ b \in Seq(EntryT)
      /\ \A j \in DOMAIN a : j \in DOMAIN Q /\ j < i /\ a[j] = Q[j]
      /\ \A j \in DOMAIN b : i + j \in DOMAIN Q /\ i + j > i /\ b[j] = Q[i + j] /\ j \in Int
      /\ i \in Int /\ \A j \in DOMAIN Q : j \in Int
  BY <1>7, PartsOf
<1>9. \A j \in DOMAIN Q : Q[j] \in EntryOf(s, k) => j = i
  BY <1>4 DEF Only, One
<1>10. None(a, EntryOf(s, k)) /\ None(b, EntryOf(s, k))
  BY <1>8, <1>9 DEF None
<1>11. PICK c : c = Cleaned(a, s, k)
  OBVIOUS
<1>12. c \in Seq(EntryT) /\ None(c, EntryOf(s, k))
  <2>1. c \in Seq(EntryT) /\ \A n \in DOMAIN c : \E j \in DOMAIN a : c[n] = a[j]
    BY <1>8, <1>11, CleanedLeaves
  <2> QED BY <2>1, <1>10 DEF None
<1>13. Rest(Q, s, k) = c \o b
  BY <1>3, <1>7, <1>11 DEF FirstFits
<1>14. None(c \o b, EntryOf(s, k))
  BY <1>8, <1>10, <1>12, MoreOfOthers
<1> QED BY <1>6, <1>13, <1>14

LEMMA PopMisses ==
  ASSUME NEW Q \in Seq(EntryT), NEW s, NEW k, None(Q, EntryOf(s, k))
  PROVE  Result(Q, s, k) = NoMatch
<1>1. \A j \in DOMAIN Q : Q[j] \in EntryT
  OBVIOUS
<1>2. ASSUME NEW i \in DOMAIN Q, FirstFits(Q, s, k, i) PROVE FALSE
  BY <1>1, <1>2 DEF FirstFits, None, EntryOf
<1> QED BY <1>2, FirstMatch DEF NoneFits

\* What is asked for another port, or with a lower number, lets an entry be.
LEMMA PopSpares ==
  ASSUME NEW Q \in Seq(EntryT), NEW s, NEW k \in Nat, NEW t, Only(Q, s, k, t),
         NEW s2, NEW k2 \in Nat, s2 # s \/ k2 < k
  PROVE  Only(Rest(Q, s2, k2), s, k, t)
<1>1. PICK S : S = EntryOf(s, k)
  OBVIOUS
<1>2. One(Rest(Q, s2, k2), S) /\ All(Rest(Q, s2, k2), S, {e \in EntryT : e.time = t})
  BY <1>1, RestKeeps DEF Only
<1>3. PICK j \in DOMAIN Q : Q[j] \in S
  BY <1>1 DEF Only, None
<1>4. ~Outdated(Q[j], s2, k2) /\ ~(Q[j].source = s2 /\ Q[j].sequenceId = k2)
  BY <1>1, <1>3 DEF EntryOf, Outdated
<1>5. CASE NoneFits(Q, s2, k2)
  <2>1. PICK n \in DOMAIN Cleaned(Q, s2, k2) : Cleaned(Q, s2, k2)[n] = Q[j]
    BY <1>3, <1>4, CleanedLeaves
  <2>2. Rest(Q, s2, k2) = Cleaned(Q, s2, k2)
    BY <1>5 DEF NoneFits
  <2>3. ~None(Rest(Q, s2, k2), S)
    BY <2>1, <2>2, <1>3 DEF None
  <2> QED BY <1>1, <1>2, <2>3 DEF Only
<1>6. CASE \E i \in DOMAIN Q : FirstFits(Q, s2, k2, i)
  <2>1. PICK i \in DOMAIN Q : FirstFits(Q, s2, k2, i)
    BY <1>6
  <2>2. PICK a, b : a = SubSeq(Q, 1, i - 1) /\ b = SubSeq(Q, i + 1, Len(Q))
    OBVIOUS
  <2>3. /\ a \in Seq(EntryT) /\ b \in Seq(EntryT)
        /\ j < i => j \in DOMAIN a /\ a[j] = Q[j]
        /\ j > i => j - i \in DOMAIN b /\ b[j - i] = Q[j]
        /\ i \in Int /\ j \in Int
    <3>1. a \in Seq(EntryT) /\ b \in Seq(EntryT)
      BY <2>2, PartsOf
    <3>2. \A m \in DOMAIN Q : m < i => m \in DOMAIN a /\ a[m] = Q[m]
      BY <2>2, PartsOf
    <3>3. \A m \in DOMAIN Q : m > i => m - i \in DOMAIN b /\ b[m - i] = Q[m]
      BY <2>2, PartsOf
    <3>4. i \in Int /\ \A m \in DOMAIN Q : m \in Int
      OBVIOUS
    <3> QED BY <3>1, <3>2, <3>3, <3>4
  <2>4. i # j
    BY <2>1, <1>4 DEF FirstFits
  <2>5. PICK c : c = Cleaned(a, s2, k2)
    OBVIOUS
  <2>6. c \in Seq(EntryT) /\ (j < i => \E n \in DOMAIN c : c[n] = Q[j])
    BY <1>4, <2>3, <2>5, CleanedLeaves
  <2>7. Rest(Q, s2, k2) = c \o b
    BY <2>1, <2>2, <2>5 DEF FirstFits
  <2>8. \E n \in DOMAIN (c \o b) : (c \o b)[n] = Q[j]
    <3>1. CASE j < i
      BY <3>1, <2>3, <2>6, AddedIs
    <3>2. CASE j > i
      <4>1. PICK n \in DOMAIN b : b[n] = Q[j]
        BY <3>2, <2>3
      <4>2. Len(c) + n \in DOMAIN (c \o b) /\ (c \o b)[Len(c) + n] = b[n]
        BY <2>3, <2>6
      <4> QED BY <4>1, <4>2
    <3> QED BY <3>1, <3>2, <2>3, <2>4
  <2>9. ~None(Rest(Q, s2, k2), S)
    BY <2>7, <2>8, <1>3 DEF None
  <2> QED BY <1>1, <1>2, <2>9 DEF Only
<1> QED BY <1>5, <1>6, FirstMatch

LEMMA EntryIs ==
  ASSUME NEW s \in PortOrNone, NEW k \in Nat, NEW t \in Int
  PROVE  \E e \in EntryT :
           e = Entry(s, k, t) /\ e.source = s /\ e.sequenceId = k /\ e.time = t
<1>1. PICK e : e = Entry(s, k, t)
  OBVIOUS
<1>2. e = [source |-> s, sequenceId |-> k, time |-> t]
  BY <1>1 DEF Entry
<1>3. e \in EntryT /\ e.source = s /\ e.sequenceId = k /\ e.time = t
  BY <1>2 DEF EntryT
<1> QED BY <1>1, <1>3

LEMMA PushNew ==
  ASSUME NEW Q \in Seq(EntryT), NEW s \in PortOrNone, NEW k \in Nat, NEW t \in Int,
         None(Q, EntryOf(s, k))
  PROVE  Only(Append(Q, Entry(s, k, t)), s, k, t)
<1>1. PICK e \in EntryT : e = Entry(s, k, t) /\ e.source = s /\ e.sequenceId = k /\ e.time = t
  BY EntryIs
<1>2. PICK S : S = EntryOf(s, k)
  OBVIOUS
<1>3. e \in S
  BY <1>1, <1>2 DEF EntryOf
<1>4. /\ All(Append(Q, e), S, {x \in EntryT : x.time = t}) /\ One(Append(Q, e), S)
  BY <1>1, <1>2, FirstOfAll
<1>5. Len(Q) + 1 \in DOMAIN Append(Q, e) /\ Append(Q, e)[Len(Q) + 1] = e
  OBVIOUS
<1>6. ~None(Append(Q, e), S)
  BY <1>3, <1>5 DEF None
<1> QED BY <1>1, <1>2, <1>4, <1>6 DEF Only

LEMMA PushSpares ==
  ASSUME NEW Q \in Seq(EntryT), NEW s2 \in PortOrNone, NEW k2 \in Nat, NEW t2 \in Int,
         NEW s, NEW k, s2 # s \/ k2 # k
  PROVE  /\ None(Q, EntryOf(s, k)) => None(Append(Q, Entry(s2, k2, t2)), EntryOf(s, k))
         /\ \A t : Only(Q, s, k, t) => Only(Append(Q, Entry(s2, k2, t2)), s, k, t)
<1>1. PICK e \in EntryT : e = Entry(s2, k2, t2) /\ e.source = s2 /\ e.sequenceId = k2
  BY EntryIs
<1>2. PICK S : S = EntryOf(s, k)
  OBVIOUS
<1>3. e \notin S
  BY <1>1, <1>2 DEF EntryOf
<1>4. /\ DOMAIN Append(Q, e) = 1 .. Len(Q) + 1 /\ DOMAIN Q = 1 .. Len(Q) /\ Len(Q) \in Nat
      /\ Append(Q, e)[Len(Q) + 1] = e /\ \A i \in DOMAIN Q : Append(Q, e)[i] = Q[i]
  OBVIOUS
<1>5. \A i \in DOMAIN Append(Q, e) :
        Append(Q, e)[i] \in S => i \in DOMAIN Q /\ Append(Q, e)[i] = Q[i]
  BY <1>3, <1>4
<1>6. \A i \in DOMAIN Q : i \in DOMAIN Append(Q, e)
  BY <1>4
<1>7. None(Q, S) <=> None(Append(Q, e), S)
  BY <1>4, <1>5, <1>6 DEF None
<1>8. \A C : All(Q, S, C) => All(Append(Q, e), S, C)
  BY <1>5 DEF All
<1>9. One(Q, S) => One(Append(Q, e), S)
  BY <1>5 DEF One
<1> QED BY <1>1, <1>2, <1>7, <1>8, <1>9 DEF Only

-----------------------------------------------------------------------------
(* The course of a request *)

RequestOf(p, k) == {f \in FrameT : f.type = "PDELAY_REQ" /\ f.source = p /\ f.seq = k}

ResponseTo(p, k) == {f \in FrameT : f.type = "PDELAY_RESP" /\ f.requester = p /\ f.seq = k}

FollowUpTo(p, k) ==
  {f \in FrameT : f.type = "PDELAY_RESP_FU" /\ f.requester = p /\ f.seq = k}

Aboard(S) == {w \in WireT : w.frame \in S}

\* Where request and response are: in the queues before the wire, on it and behind it, on
\* the way there (0 to 2) and back (3 to 5); whether the Follow_Up has left; the times at
\* which request and response have left, the epoch in which the request came, and whether
\* the peer's clock ran through until the response left.
CourseT ==
  [stage : 0 .. 5, followed : BOOLEAN, t1 : Int, e2 : Int, t3 : Int, clean : BOOLEAN]

\* How long the peer has kept the request.
Stay(p, h) == h.t3 - h.t1 - LinkDelay[p]

\* What port p and its peer know of a request of p.
View(p) ==
  [twoStep |-> config.twoStep[Peer[p][1]], now |-> now,
   clock |-> clock[p[1]], peerClock |-> clock[Peer[p][1]], service |-> pdelay[p],
   asked |-> nic[p[1]].pdelayReqResp, held |-> nic[Peer[p][1]].pdelayRespFu,
   out |-> egress[p], on |-> wire[p], in |-> ingress[p],
   peerOut |-> egress[Peer[p]], peerOn |-> wire[Peer[p]], peerIn |-> ingress[Peer[p]]]

ViewT ==
  [twoStep : BOOLEAN, now : Int, clock : [offset : Int, epoch : Nat],
   peerClock : [offset : Int, epoch : Nat], service : PDelayT,
   asked : Seq(EntryT), held : Seq(EntryT),
   out : Seq(FrameT), on : Seq(WireT), in : Seq(FrameT),
   peerOut : Seq(FrameT), peerOn : Seq(WireT), peerIn : Seq(FrameT)]

Leaving(p, h) == {f \in FrameT : h.stage = 0 /\ f.clean /\ f.corr = 0}

Going(p, h, t) ==
  {w \in WireT : /\ h.stage = 1 /\ w.frame.clean /\ w.frame.corr = -Asymmetry[p]
                 /\ w.left = LinkDelay[p] - (t - h.t1)}

There(p, h) ==
  {f \in FrameT : h.stage = 2 /\ f.clean /\ f.corr = -Asymmetry[p] /\ f.epoch = h.e2}

Answering(p, h, two) ==
  {f \in FrameT : /\ h.stage = 3 /\ f.clean /\ f.epoch = h.e2 /\ f.receipt = 0
                  /\ f.twoStep = two /\ f.corr = IF two THEN 0 ELSE -Asymmetry[p]}

Returning(p, h, two, t) ==
  {w \in WireT :
     /\ h.stage = 4 /\ w.frame.receipt = 0 /\ w.frame.twoStep = two
     /\ w.frame.clean = h.clean /\ w.left = LinkDelay[Peer[p]] - (t - h.t3)
     /\ h.clean => w.frame.corr = IF two THEN 0 ELSE Stay(p, h) - Asymmetry[p]}

Back(p, h, two, offset) ==
  {f \in FrameT :
     /\ h.stage = 5 /\ f.receipt = 0 /\ f.twoStep = two /\ f.clean = h.clean
     /\ f.stamp.time = h.t3 + LinkDelay[Peer[p]] + offset /\ f.reqEgress = h.t1 + offset
     /\ h.clean => f.corr = IF two THEN Asymmetry[p] ELSE Stay(p, h)}

Following(p, h, two) ==
  {f \in FrameT : two /\ h.stage >= 3 /\ ~h.followed /\ f.corr = -Asymmetry[p]}

Coming(p, h) ==
  {f \in FrameT : /\ h.stage >= 4 /\ h.followed /\ f.origin = 0
                  /\ h.clean => f.corr = Stay(p, h) - Asymmetry[p]}

AsksRight(p, v, h, S) ==
  /\ All(v.out, S, Leaving(p, h)) /\ One(v.out, S)
  /\ All(v.on, Aboard(S), Going(p, h, v.now)) /\ One(v.on, Aboard(S))
  /\ All(v.peerIn, S, There(p, h)) /\ One(v.peerIn, S)

AnswersRight(p, v, h, S) ==
  /\ All(v.peerOut, S, Answering(p, h, v.twoStep)) /\ One(v.peerOut, S)
  /\ All(v.peerOn, Aboard(S), Returning(p, h, v.twoStep, v.now)) /\ One(v.peerOn, Aboard(S))
  /\ All(v.in, S, Back(p, h, v.twoStep, v.clock.offset)) /\ One(v.in, S)

\* A Follow_Up waits behind the response.
FollowsRight(p, v, h, S, U) ==
  /\ All(v.peerOut, U, Following(p, h, v.twoStep)) /\ One(v.peerOut, U)
  /\ h.stage = 3 => After(v.peerOut, S, U)
  /\ All(v.peerOn, Aboard(U), Aboard(Coming(p, h)))
  /\ All(v.in, U, Coming(p, h))

\* The time at which the request has left.
AskedRight(p, v, h, k) ==
  /\ h.stage = 0 => None(v.asked, EntryOf(p, k))
  /\ h.stage \in 1 .. 4 => Only(v.asked, p, k, h.t1 + v.clock.offset)

\* The time at which it came, then how long the peer has kept it.
HeldRight(p, v, h, k) ==
  /\ h.stage \in 0 .. 1 => None(v.held, EntryOf(p, k))
  /\ h.stage \in 2 .. 3 =>
       \E t \in Int : /\ Only(v.held, p, k, t)
                      /\ h.e2 = v.peerClock.epoch =>
                           t = h.t1 + LinkDelay[p] + v.peerClock.offset
  /\ h.stage >= 4 /\ h.clean /\ v.twoStep /\ ~h.followed =>
       Only(v.held, p, k, Stay(p, h))
  /\ h.e2 <= v.peerClock.epoch

\* The times of a two-step response.
StoredRight(p, v, h, k) ==
  v.service.clean /\ v.service.respSequID = k =>
    /\ h.stage = 5 /\ h.clean /\ v.twoStep
    /\ v.service.requestReceipt = 0 /\ v.service.respCorr = Asymmetry[p]
    /\ v.service.respIngress = h.t3 + LinkDelay[Peer[p]] + v.clock.offset
    /\ v.service.reqEgress = h.t1 + v.clock.offset

Course(p, v, h) ==
  LET k == v.service.requSequId
  IN  /\ AsksRight(p, v, h, RequestOf(p, k)) /\ AnswersRight(p, v, h, ResponseTo(p, k))
      /\ FollowsRight(p, v, h, ResponseTo(p, k), FollowUpTo(p, k))
      /\ AskedRight(p, v, h, k) /\ HeldRight(p, v, h, k) /\ StoredRight(p, v, h, k)

Tracked == \A p \in Ports : \E h \in CourseT : Course(p, View(p), h)

\* The frames of the course of p.
Live(p, v) ==
  LET k == v.service.requSequId
  IN  RequestOf(p, k) \cup ResponseTo(p, k) \cup FollowUpTo(p, k)

-----------------------------------------------------------------------------
(* What others do *)

\* Nothing in w concerns the course of p that did not in v.
Beside(p, v, w) ==
  /\ w.twoStep = v.twoStep /\ w.now = v.now /\ w.clock = v.clock /\ w.service = v.service
  /\ Moves(v.peerClock, w.peerClock)
  /\ Thinner(w.out, v.out, FrameT, Live(p, v)) /\ Thinner(w.in, v.in, FrameT, Live(p, v))
  /\ Thinner(w.peerIn, v.peerIn, FrameT, Live(p, v))
  /\ Firm(w.peerOut, v.peerOut, FrameT, Live(p, v))
  /\ Thinner(w.on, v.on, WireT, Aboard(Live(p, v)))
  /\ Thinner(w.peerOn, v.peerOn, WireT, Aboard(Live(p, v)))
  /\ LET k == v.service.requSequId
     IN  /\ None(v.asked, EntryOf(p, k)) => None(w.asked, EntryOf(p, k))
         /\ \A t : Only(v.asked, p, k, t) => Only(w.asked, p, k, t)
         /\ None(v.held, EntryOf(p, k)) => None(w.held, EntryOf(p, k))
         /\ \A t : Only(v.held, p, k, t) => Only(w.held, p, k, t)

LEMMA CourseBeside ==
  ASSUME NEW p \in Ports, NEW v \in ViewT, NEW w \in ViewT, NEW h \in CourseT,
         Course(p, v, h), Beside(p, v, w)
  PROVE  Course(p, w, h)
<1>1. PICK k \in Nat : k = v.service.requSequId /\ k = w.service.requSequId
  BY DEF ViewT, PDelayT, Beside
<1>2. PICK Q, S, U : Q = RequestOf(p, k) /\ S = ResponseTo(p, k) /\ U = FollowUpTo(p, k)
  OBVIOUS
<1>3. PICK A : A = Live(p, v)
  OBVIOUS
<1>4. Q \subseteq A /\ S \subseteq A /\ U \subseteq A
  BY <1>1, <1>2, <1>3 DEF Live
<1>5. /\ Aboard(Q) \subseteq Aboard(A)
      /\ Aboard(S) \subseteq Aboard(A) /\ Aboard(U) \subseteq Aboard(A)
  BY <1>4 DEF Aboard
<1>6. /\ w.twoStep = v.twoStep /\ w.now = v.now /\ w.clock = v.clock /\ w.service = v.service
      /\ Moves(v.peerClock, w.peerClock)
      /\ Thinner(w.out, v.out, FrameT, A) /\ Thinner(w.in, v.in, FrameT, A)
      /\ Thinner(w.peerIn, v.peerIn, FrameT, A) /\ Firm(w.peerOut, v.peerOut, FrameT, A)
      /\ Thinner(w.on, v.on, WireT, Aboard(A)) /\ Thinner(w.peerOn, v.peerOn, WireT, Aboard(A))
  BY <1>3 DEF Beside
<1>7. /\ v.out \in Seq(FrameT) /\ v.in \in Seq(FrameT) /\ v.peerIn \in Seq(FrameT)
      /\ v.peerOut \in Seq(FrameT) /\ v.on \in Seq(WireT) /\ v.peerOn \in Seq(WireT)
  BY DEF ViewT
<1>8. /\ AsksRight(p, v, h, Q) /\ AnswersRight(p, v, h, S) /\ FollowsRight(p, v, h, S, U)
      /\ AskedRight(p, v, h, k) /\ HeldRight(p, v, h, k) /\ StoredRight(p, v, h, k)
  BY <1>1, <1>2 DEF Course
<1>9. AsksRight(p, w, h, Q)
  <2>1. All(w.out, Q, Leaving(p, h)) /\ One(w.out, Q)
    BY <1>4, <1>6, <1>7, <1>8, ThinnerKeeps DEF AsksRight
  <2>2. All(w.on, Aboard(Q), Going(p, h, v.now)) /\ One(w.on, Aboard(Q))
    BY <1>5, <1>6, <1>7, <1>8, ThinnerKeeps DEF AsksRight
  <2>3. All(w.peerIn, Q, There(p, h)) /\ One(w.peerIn, Q)
    BY <1>4, <1>6, <1>7, <1>8, ThinnerKeeps DEF AsksRight
  <2> QED BY <1>6, <2>1, <2>2, <2>3 DEF AsksRight
<1>10. Thinner(w.peerOut, v.peerOut, FrameT, A)
  BY <1>6 DEF Firm
<1>11. AnswersRight(p, w, h, S)
  <2>1. All(w.peerOut, S, Answering(p, h, v.twoStep)) /\ One(w.peerOut, S)
    BY <1>4, <1>10, <1>7, <1>8, ThinnerKeeps DEF AnswersRight
  <2>2. All(w.peerOn, Aboard(S), Returning(p, h, v.twoStep, v.now)) /\ One(w.peerOn, Aboard(S))
    BY <1>5, <1>6, <1>7, <1>8, ThinnerKeeps DEF AnswersRight
  <2>3. All(w.in, S, Back(p, h, v.twoStep, v.clock.offset)) /\ One(w.in, S)
    BY <1>4, <1>6, <1>7, <1>8, ThinnerKeeps DEF AnswersRight
  <2> QED BY <1>6, <2>1, <2>2, <2>3 DEF AnswersRight
<1>12. FollowsRight(p, w, h, S, U)
  <2>1. All(w.peerOut, U, Following(p, h, v.twoStep)) /\ One(w.peerOut, U)
    BY <1>4, <1>10, <1>7, <1>8, ThinnerKeeps DEF FollowsRight
  <2>2. h.stage = 3 => After(w.peerOut, S, U)
    BY <1>4, <1>6, <1>7, <1>8, FirmKeeps DEF FollowsRight
  <2>3. All(w.peerOn, Aboard(U), Aboard(Coming(p, h)))
    BY <1>5, <1>6, <1>7, <1>8, ThinnerKeeps DEF FollowsRight
  <2>4. All(w.in, U, Coming(p, h))
    BY <1>4, <1>6, <1>7, <1>8, ThinnerKeeps DEF FollowsRight
  <2> QED BY <1>6, <2>1, <2>2, <2>3, <2>4 DEF FollowsRight
<1>13. /\ None(v.asked, EntryOf(p, k)) => None(w.asked, EntryOf(p, k))
       /\ \A t : Only(v.asked, p, k, t) => Only(w.asked, p, k, t)
       /\ None(v.held, EntryOf(p, k)) => None(w.held, EntryOf(p, k))
       /\ \A t : Only(v.held, p, k, t) => Only(w.held, p, k, t)
  BY <1>1 DEF Beside
<1>14. AskedRight(p, w, h, k)
  BY <1>6, <1>8, <1>13 DEF AskedRight
<1>15. HeldRight(p, w, h, k)
  <2>1. /\ h.e2 <= w.peerClock.epoch
        /\ h.e2 = w.peerClock.epoch => w.peerClock = v.peerClock
    <3>1. h.e2 \in Int
      BY DEF CourseT
    <3>2. v.peerClock.epoch \in Int /\ w.peerClock.epoch \in Int
      <4>1. v.peerClock \in [offset : Int, epoch : Nat]
            /\ w.peerClock \in [offset : Int, epoch : Nat]
        BY DEF ViewT
      <4> QED BY <4>1
    <3>3. h.e2 <= v.peerClock.epoch
      BY <1>8 DEF HeldRight
    <3>4. w.peerClock = v.peerClock \/ w.peerClock.epoch = v.peerClock.epoch + 1
      BY <1>6 DEF Moves
    <3> QED BY <3>1, <3>2, <3>3, <3>4
  <2>2. ASSUME h.stage \in 2 .. 3
        PROVE  \E t \in Int : /\ Only(w.held, p, k, t)
                              /\ h.e2 = w.peerClock.epoch =>
                                   t = h.t1 + LinkDelay[p] + w.peerClock.offset
    <3>1. PICK t \in Int : /\ Only(v.held, p, k, t)
                           /\ h.e2 = v.peerClock.epoch =>
                                t = h.t1 + LinkDelay[p] + v.peerClock.offset
      BY <1>8, <2>2 DEF HeldRight
    <3>2. Only(w.held, p, k, t)
      BY <1>13, <3>1
    <3> QED BY <2>1, <3>1, <3>2
  <2>3. /\ h.stage \in 0 .. 1 => None(w.held, EntryOf(p, k))
        /\ h.stage >= 4 /\ h.clean /\ w.twoStep /\ ~h.followed =>
             Only(w.held, p, k, Stay(p, h))
    BY <1>6, <1>8, <1>13 DEF HeldRight
  <2> QED BY <2>1, <2>2, <2>3 DEF HeldRight
<1>16. StoredRight(p, w, h, k)
  BY <1>6, <1>8 DEF StoredRight
<1> QED BY <1>1, <1>2, <1>9, <1>11, <1>12, <1>14, <1>15, <1>16 DEF Course

\* Where the request and the response cannot be.
LEMMA NotYetThere ==
  ASSUME NEW p, NEW v, NEW h, NEW S, AsksRight(p, v, h, S)
  PROVE  /\ h.stage # 0 => None(v.out, S)
         /\ h.stage # 1 => None(v.on, Aboard(S))
         /\ h.stage # 2 => None(v.peerIn, S)
<1>1. h.stage # 0 => \A x : x \notin Leaving(p, h)
  BY DEF Leaving
<1>2. h.stage # 1 => \A x : x \notin Going(p, h, v.now)
  BY DEF Going
<1>3. h.stage # 2 => \A x : x \notin There(p, h)
  BY DEF There
<1> QED BY <1>1, <1>2, <1>3, AllIsNone DEF AsksRight

LEMMA NotYetBack ==
  ASSUME NEW p, NEW v, NEW h, NEW S, AnswersRight(p, v, h, S)
  PROVE  /\ h.stage # 3 => None(v.peerOut, S)
         /\ h.stage # 4 => None(v.peerOn, Aboard(S))
         /\ h.stage # 5 => None(v.in, S)
<1>1. h.stage # 3 => \A x : x \notin Answering(p, h, v.twoStep)
  BY DEF Answering
<1>2. h.stage # 4 => \A x : x \notin Returning(p, h, v.twoStep, v.now)
  BY DEF Returning
<1>3. h.stage # 5 => \A x : x \notin Back(p, h, v.twoStep, v.clock.offset)
  BY DEF Back
<1> QED BY <1>1, <1>2, <1>3, AllIsNone DEF AnswersRight

LEMMA NotYetFollowed ==
  ASSUME NEW p, NEW v, NEW h \in CourseT, NEW S, NEW U, FollowsRight(p, v, h, S, U)
  PROVE  /\ ~v.twoStep \/ h.stage < 3 \/ h.followed => None(v.peerOut, U)
         /\ h.stage < 4 \/ ~h.followed => None(v.peerOn, Aboard(U)) /\ None(v.in, U)
<1>1. h.stage \in Int
  BY DEF CourseT
<1>2. ~v.twoStep \/ h.stage < 3 \/ h.followed => \A x : x \notin Following(p, h, v.twoStep)
  BY <1>1 DEF Following
<1>3. h.stage < 4 \/ ~h.followed => \A x : x \notin Coming(p, h)
  BY <1>1 DEF Coming
<1>4. h.stage < 4 \/ ~h.followed => \A x : x \notin Aboard(Coming(p, h))
  BY <1>3 DEF Aboard
<1> QED BY <1>2, <1>3, <1>4, AllIsNone DEF FollowsRight

\* Where none of them is, whatever the course.
LEMMA NoneAsks ==
  ASSUME NEW p, NEW v, NEW S, None(v.out, S), None(v.on, Aboard(S)), None(v.peerIn, S), NEW h
  PROVE  AsksRight(p, v, h, S)
BY NoneIsAll DEF AsksRight

LEMMA NoneAnswers ==
  ASSUME NEW p, NEW v, NEW S, None(v.peerOut, S), None(v.peerOn, Aboard(S)), None(v.in, S), NEW h
  PROVE  AnswersRight(p, v, h, S)
BY NoneIsAll DEF AnswersRight

LEMMA NoneFollows ==
  ASSUME NEW p, NEW v, NEW S, NEW U, None(v.peerOut, U), None(v.peerOn, Aboard(U)),
         None(v.in, U), NEW h
  PROVE  FollowsRight(p, v, h, S, U)
BY NoneIsAll DEF FollowsRight

\* Nothing is known of a request with the number k.
Unknown(p, v, k) ==
  LET A == RequestOf(p, k) \cup ResponseTo(p, k) \cup FollowUpTo(p, k)
  IN  /\ None(v.out, A) /\ None(v.on, Aboard(A)) /\ None(v.in, A)
      /\ None(v.peerOut, A) /\ None(v.peerOn, Aboard(A)) /\ None(v.peerIn, A)
      /\ None(v.asked, EntryOf(p, k)) /\ None(v.held, EntryOf(p, k))
      /\ v.service.clean => v.service.respSequID # k

LEMMA UnknownParts ==
  ASSUME NEW p, NEW v, NEW k, Unknown(p, v, k)
  PROVE  /\ None(v.out, RequestOf(p, k)) /\ None(v.on, Aboard(RequestOf(p, k)))
         /\ None(v.peerIn, RequestOf(p, k))
         /\ None(v.peerOut, ResponseTo(p, k)) /\ None(v.peerOn, Aboard(ResponseTo(p, k)))
         /\ None(v.in, ResponseTo(p, k))
         /\ None(v.peerOut, FollowUpTo(p, k)) /\ None(v.peerOn, Aboard(FollowUpTo(p, k)))
         /\ None(v.in, FollowUpTo(p, k))
<1>1. PICK A, Q, S, U : /\ A = Q \cup S \cup U
                        /\ Q = RequestOf(p, k) /\ S = ResponseTo(p, k) /\ U = FollowUpTo(p, k)
  OBVIOUS
<1>2. Q \subseteq A /\ S \subseteq A /\ U \subseteq A
  BY <1>1
<1>3. /\ Aboard(Q) \subseteq Aboard(A)
      /\ Aboard(S) \subseteq Aboard(A) /\ Aboard(U) \subseteq Aboard(A)
  BY <1>2 DEF Aboard
<1>4. /\ None(v.out, A) /\ None(v.on, Aboard(A)) /\ None(v.in, A)
      /\ None(v.peerOut, A) /\ None(v.peerOn, Aboard(A)) /\ None(v.peerIn, A)
  BY <1>1 DEF Unknown
<1>5. None(v.out, Q) /\ None(v.on, Aboard(Q)) /\ None(v.peerIn, Q)
  BY <1>2, <1>3, <1>4, NoneOfPart
<1>6. None(v.peerOut, S) /\ None(v.peerOn, Aboard(S)) /\ None(v.in, S)
  BY <1>2, <1>3, <1>4, NoneOfPart
<1>7. None(v.peerOut, U) /\ None(v.peerOn, Aboard(U)) /\ None(v.in, U)
  BY <1>2, <1>3, <1>4, NoneOfPart
<1> QED BY <1>1, <1>5, <1>6, <1>7

-----------------------------------------------------------------------------
(* The steps of a request *)

\* After a jump of the port's own clock, and at the start, no answer is expected.
LEMMA CourseEnds ==
  ASSUME NEW p, NEW v \in ViewT, NEW k, k = v.service.requSequId, Unknown(p, v, k)
  PROVE  \E h \in CourseT : Course(p, v, h)
<1>1. PICK h : h = [stage |-> 5, followed |-> TRUE, t1 |-> 0, e2 |-> 0, t3 |-> 0, clean |-> TRUE]
  OBVIOUS
<1>2. h \in CourseT
  BY <1>1 DEF CourseT
<1>3. AsksRight(p, v, h, RequestOf(p, k))
  BY UnknownParts, NoneAsks
<1>4. AnswersRight(p, v, h, ResponseTo(p, k))
  BY UnknownParts, NoneAnswers
<1>5. FollowsRight(p, v, h, ResponseTo(p, k), FollowUpTo(p, k))
  BY UnknownParts, NoneFollows
<1>6. AskedRight(p, v, h, k)
  BY <1>1 DEF AskedRight
<1>7. HeldRight(p, v, h, k)
  <2>1. v.peerClock \in [offset : Int, epoch : Nat]
    BY DEF ViewT
  <2>2. v.peerClock.epoch \in Nat
    BY <2>1
  <2> QED BY <1>1, <2>2 DEF HeldRight
<1>8. StoredRight(p, v, h, k)
  BY DEF StoredRight, Unknown
<1> QED BY <1>2, <1>3, <1>4, <1>5, <1>6, <1>7, <1>8 DEF Course

\* A new request.
LEMMA CourseStarts ==
  ASSUME NEW p, NEW v \in ViewT, NEW w \in ViewT, NEW k, k = w.service.requSequId, Unknown(p, v, k),
         NEW x \in RequestOf(p, k), x.clean, x.corr = 0,
         w.out = Append(v.out, x), w.on = v.on, w.in = v.in, w.peerOut = v.peerOut,
         w.peerOn = v.peerOn, w.peerIn = v.peerIn, w.asked = v.asked, w.held = v.held,
         w.service.clean => w.service.respSequID # k
  PROVE  \E h \in CourseT : Course(p, w, h)
<1>1. PICK h : h = [stage |-> 0, followed |-> FALSE, t1 |-> 0, e2 |-> 0, t3 |-> 0, clean |-> TRUE]
  OBVIOUS
<1>2. h \in CourseT
  BY <1>1 DEF CourseT
<1>3. PICK Q : Q = RequestOf(p, k)
  OBVIOUS
<1>4. AsksRight(p, w, h, Q)
  <2>1. v.out \in Seq(FrameT) /\ x \in FrameT
    BY DEF ViewT, RequestOf
  <2>2. x \in Leaving(p, h)
    BY <1>1, <2>1 DEF Leaving
  <2>3. None(v.out, Q) /\ None(v.on, Aboard(Q)) /\ None(v.peerIn, Q)
    BY <1>3, UnknownParts
  <2>4. All(w.out, Q, Leaving(p, h)) /\ One(w.out, Q)
    BY <2>1, <2>2, <2>3, FirstOfAll
  <2> QED BY <2>3, <2>4, NoneIsAll DEF AsksRight
<1>5. AnswersRight(p, w, h, ResponseTo(p, k))
  BY UnknownParts, NoneAnswers
<1>6. FollowsRight(p, w, h, ResponseTo(p, k), FollowUpTo(p, k))
  BY UnknownParts, NoneFollows
<1>7. AskedRight(p, w, h, k)
  BY <1>1 DEF AskedRight, Unknown
<1>8. HeldRight(p, w, h, k)
  <2>1. w.peerClock \in [offset : Int, epoch : Nat]
    BY DEF ViewT
  <2>2. w.peerClock.epoch \in Nat
    BY <2>1
  <2> QED BY <1>1, <2>2 DEF HeldRight, Unknown
<1>9. StoredRight(p, w, h, k)
  BY DEF StoredRight
<1> QED BY <1>2, <1>3, <1>4, <1>5, <1>6, <1>7, <1>8, <1>9 DEF Course

\* The request leaves.
LEMMA RequestLeaves ==
  ASSUME NEW p \in Ports, NEW v \in ViewT, NEW w \in ViewT, NEW h \in CourseT, Course(p, v, h),
         NEW k, k = v.service.requSequId, k = w.service.requSequId,
         v.out # <<>>, Head(v.out) \in RequestOf(p, k), w.out = Tail(v.out),
         NEW y \in RequestOf(p, k), y.clean = Head(v.out).clean,
         y.corr = Head(v.out).corr - Asymmetry[p],
         w.on = Append(v.on, [frame |-> y, left |-> LinkDelay[p]]),
         w.asked = Append(v.asked, Entry(p, k, w.now + w.clock.offset)),
         w.peerIn = v.peerIn, w.peerOut = v.peerOut, w.peerOn = v.peerOn, w.in = v.in,
         w.held = v.held, w.peerClock = v.peerClock, w.service = v.service,
         w.twoStep = v.twoStep, w.clock = v.clock
  PROVE  \E g \in CourseT : Course(p, w, g)
<1>1. PICK Q, S, U : Q = RequestOf(p, k) /\ S = ResponseTo(p, k) /\ U = FollowUpTo(p, k)
  OBVIOUS
<1>2. /\ AsksRight(p, v, h, Q) /\ AnswersRight(p, v, h, S) /\ FollowsRight(p, v, h, S, U)
      /\ AskedRight(p, v, h, k) /\ HeldRight(p, v, h, k) /\ StoredRight(p, v, h, k)
  BY <1>1 DEF Course
<1>3. v.out \in Seq(FrameT) /\ v.on \in Seq(WireT) /\ v.asked \in Seq(EntryT) /\ w.now \in Int
  BY DEF ViewT
<1>4. Head(v.out) \in Leaving(p, h) /\ None(w.out, Q)
  BY <1>1, <1>2, <1>3, OneLess DEF AsksRight
<1>5. h.stage = 0 /\ Head(v.out).clean /\ Head(v.out).corr = 0
  BY <1>4 DEF Leaving
<1>6. LinkDelay[p] \in Nat /\ Asymmetry[p] \in Int
  BY NetworkAssumption
<1>7. k \in Nat /\ w.clock.offset \in Int
  <2>1. v.service \in PDelayT /\ w.clock \in [offset : Int, epoch : Nat]
    BY DEF ViewT
  <2> QED BY <2>1 DEF PDelayT
<1>8. PICK g : g = [stage |-> 1, followed |-> FALSE, t1 |-> w.now, e2 |-> h.e2, t3 |-> 0,
                    clean |-> TRUE]
  OBVIOUS
<1>9. g \in CourseT /\ g.stage = 1 /\ g.t1 = w.now /\ g.e2 = h.e2
  BY <1>3, <1>8 DEF CourseT
<1>10. AsksRight(p, w, g, Q)
  <2>1. PICK x : x = [frame |-> y, left |-> LinkDelay[p]]
    OBVIOUS
  <2>2. x \in WireT /\ x.frame = y /\ x.left = LinkDelay[p] /\ y.clean /\ y.corr = -Asymmetry[p]
    BY <1>5, <1>6, <2>1 DEF WireT, RequestOf
  <2>3. x \in Going(p, g, w.now)
    BY <1>3, <1>6, <1>9, <2>2 DEF Going
  <2>4. None(v.on, Aboard(Q)) /\ None(v.peerIn, Q)
    BY <1>2, <1>5, NotYetThere
  <2>5. All(w.on, Aboard(Q), Going(p, g, w.now)) /\ One(w.on, Aboard(Q))
    BY <1>3, <2>1, <2>2, <2>3, <2>4, FirstOfAll
  <2> QED BY <1>4, <2>4, <2>5, NoneIsAll DEF AsksRight
<1>11. AnswersRight(p, w, g, S)
  BY <1>2, <1>5, NotYetBack, NoneAnswers
<1>12. FollowsRight(p, w, g, S, U)
  BY <1>2, <1>5, NotYetFollowed, NoneFollows
<1>13. AskedRight(p, w, g, k)
  <2>1. None(v.asked, EntryOf(p, k))
    BY <1>2, <1>5 DEF AskedRight
  <2>2. p \in PortOrNone /\ w.now + w.clock.offset \in Int
    BY <1>3, <1>7 DEF PortOrNone
  <2>3. Only(w.asked, p, k, w.now + w.clock.offset)
    BY <1>3, <1>7, <2>1, <2>2, PushNew
  <2> QED BY <1>9, <2>3 DEF AskedRight
<1>14. HeldRight(p, w, g, k)
  BY <1>2, <1>5, <1>9 DEF HeldRight
<1>15. StoredRight(p, w, g, k)
  BY <1>2, <1>5 DEF StoredRight
<1> QED BY <1>1, <1>9, <1>10, <1>11, <1>12, <1>13, <1>14, <1>15 DEF Course

\* The request arrives at the peer.
LEMMA RequestArrives ==
  ASSUME NEW p \in Ports, NEW v \in ViewT, NEW w \in ViewT, NEW h \in CourseT, Course(p, v, h),
         NEW k, k = v.service.requSequId,
         v.on # <<>>, Head(v.on).frame \in RequestOf(p, k), Head(v.on).left = 0,
         w.on = Tail(v.on), NEW y \in RequestOf(p, k), y.clean = Head(v.on).frame.clean,
         y.corr = Head(v.on).frame.corr, y.epoch = v.peerClock.epoch,
         w.peerIn = Append(v.peerIn, y),
         w.held = Append(v.held, Entry(p, k, v.now + v.peerClock.offset)),
         w.out = v.out, w.peerOut = v.peerOut, w.peerOn = v.peerOn, w.in = v.in,
         w.asked = v.asked, w.peerClock = v.peerClock, w.service = v.service,
         w.twoStep = v.twoStep, w.clock = v.clock, w.now = v.now
  PROVE  \E g \in CourseT : Course(p, w, g)
<1>1. PICK Q, S, U : Q = RequestOf(p, k) /\ S = ResponseTo(p, k) /\ U = FollowUpTo(p, k)
  OBVIOUS
<1>2. /\ AsksRight(p, v, h, Q) /\ AnswersRight(p, v, h, S) /\ FollowsRight(p, v, h, S, U)
      /\ AskedRight(p, v, h, k) /\ HeldRight(p, v, h, k) /\ StoredRight(p, v, h, k)
  BY <1>1 DEF Course
<1>3. /\ v.peerIn \in Seq(FrameT) /\ v.on \in Seq(WireT) /\ v.held \in Seq(EntryT)
      /\ v.now \in Int
  BY DEF ViewT
<1>4. Head(v.on) \in Going(p, h, v.now) /\ None(w.on, Aboard(Q))
  <2>1. Head(v.on) \in Aboard(Q)
    <3>1. Head(v.on) \in WireT
      BY <1>3
    <3> QED BY <1>1, <3>1 DEF Aboard
  <2> QED BY <2>1, <1>2, <1>3, OneLess DEF AsksRight
<1>5. /\ h.stage = 1 /\ Head(v.on).frame.clean /\ Head(v.on).frame.corr = -Asymmetry[p]
      /\ 0 = LinkDelay[p] - (v.now - h.t1)
  BY <1>4 DEF Going
<1>6. LinkDelay[p] \in Int /\ h.t1 \in Int
  BY NetworkAssumption DEF CourseT
<1>7. v.now = h.t1 + LinkDelay[p]
  BY <1>3, <1>5, <1>6
<1>8. k \in Nat /\ v.peerClock.offset \in Int /\ v.peerClock.epoch \in Int
  <2>1. v.service \in PDelayT /\ v.peerClock \in [offset : Int, epoch : Nat]
    BY DEF ViewT
  <2> QED BY <2>1 DEF PDelayT
<1>9. PICK g : g = [stage |-> 2, followed |-> FALSE, t1 |-> h.t1, e2 |-> v.peerClock.epoch,
                    t3 |-> 0, clean |-> TRUE]
  OBVIOUS
<1>10. g \in CourseT /\ g.stage = 2 /\ g.t1 = h.t1 /\ g.e2 = v.peerClock.epoch
  BY <1>6, <1>8, <1>9 DEF CourseT
<1>11. AsksRight(p, w, g, Q)
  <2>1. y \in FrameT /\ y.clean /\ y.corr = -Asymmetry[p]
    BY <1>5 DEF RequestOf
  <2>2. y \in There(p, g)
    BY <1>10, <2>1 DEF There
  <2>3. None(v.out, Q) /\ None(v.peerIn, Q)
    BY <1>2, <1>5, NotYetThere
  <2>4. All(w.peerIn, Q, There(p, g)) /\ One(w.peerIn, Q)
    BY <1>3, <2>1, <2>2, <2>3, FirstOfAll
  <2> QED BY <1>4, <2>3, <2>4, NoneIsAll DEF AsksRight
<1>12. AnswersRight(p, w, g, S)
  BY <1>2, <1>5, NotYetBack, NoneAnswers
<1>13. FollowsRight(p, w, g, S, U)
  BY <1>2, <1>5, NotYetFollowed, NoneFollows
<1>14. AskedRight(p, w, g, k)
  BY <1>2, <1>5, <1>10 DEF AskedRight
<1>15. HeldRight(p, w, g, k)
  <2>1. None(v.held, EntryOf(p, k))
    BY <1>2, <1>5 DEF HeldRight
  <2>2. PICK t \in Int : t = v.now + v.peerClock.offset
    BY <1>3, <1>8
  <2>3. p \in PortOrNone
    BY DEF PortOrNone
  <2>4. Only(w.held, p, k, t)
    BY <1>3, <1>8, <2>1, <2>2, <2>3, PushNew
  <2>5. t = g.t1 + LinkDelay[p] + w.peerClock.offset
    BY <1>7, <1>10, <2>2
  <2> QED BY <1>8, <1>10, <2>4, <2>5 DEF HeldRight
<1>16. StoredRight(p, w, g, k)
  BY <1>2, <1>5 DEF StoredRight
<1> QED BY <1>1, <1>10, <1>11, <1>12, <1>13, <1>14, <1>15, <1>16 DEF Course

\* Two elements are added, the first of S1 and the second of S2.
LEMMA PairAdded ==
  ASSUME NEW T, NEW Q \in Seq(T), NEW S1, NEW S2, NEW a \in T, NEW b \in T,
         a \in S1 /\ a \notin S2 /\ b \in S2 /\ b \notin S1,
         None(Q, S1), None(Q, S2), NEW C1, NEW C2, a \in C1, b \in C2,
         NEW R, R = Append(Append(Q, a), b)
  PROVE  All(R, S1, C1) /\ One(R, S1) /\ All(R, S2, C2) /\ One(R, S2) /\ After(R, S1, S2)
<1>1. PICK n \in Nat : n = Len(Q)
  OBVIOUS
<1>2. DOMAIN Append(Q, a) = 1 .. n + 1 /\ Len(Append(Q, a)) = n + 1 /\ Append(Q, a) \in Seq(T)
      /\ Append(Q, a)[n + 1] = a /\ \A i \in 1 .. n : Append(Q, a)[i] = Q[i]
  BY <1>1
<1>3. DOMAIN R = 1 .. n + 2 /\ R[n + 2] = b /\ \A i \in 1 .. n + 1 : R[i] = Append(Q, a)[i]
  BY <1>2
<1>4. \A i \in DOMAIN R : i \in 1 .. n \/ i = n + 1 \/ i = n + 2
  BY <1>3
<1>5. R[n + 1] = a /\ R[n + 2] = b /\ \A i \in 1 .. n : R[i] = Q[i]
  BY <1>2, <1>3
<1>6. \A i \in 1 .. n : R[i] \notin S1 /\ R[i] \notin S2
  BY <1>1, <1>5 DEF None
<1>7. \A i \in DOMAIN R : (R[i] \in S1 => i = n + 1) /\ (R[i] \in S2 => i = n + 2)
  BY <1>4, <1>5, <1>6
<1>8. n + 1 \in DOMAIN R /\ n + 1 < n + 2
  BY <1>3
<1> QED BY <1>5, <1>7, <1>8 DEF All, One, After

\* The peer answers the request.
LEMMA RequestAnswered ==
  ASSUME NEW p \in Ports, NEW v \in ViewT, NEW w \in ViewT, NEW h \in CourseT, Course(p, v, h),
         NEW k, k = v.service.requSequId,
         v.peerIn # <<>>, Head(v.peerIn) \in RequestOf(p, k), w.peerIn = Tail(v.peerIn),
         NEW a \in ResponseTo(p, k), a.clean = Head(v.peerIn).clean,
         a.epoch = Head(v.peerIn).epoch, a.receipt = 0, a.twoStep = v.twoStep,
         a.corr = IF v.twoStep THEN 0 ELSE Head(v.peerIn).corr,
         NEW b \in FollowUpTo(p, k), b.corr = Head(v.peerIn).corr,
         w.peerOut = IF v.twoStep THEN Append(Append(v.peerOut, a), b)
                                  ELSE Append(v.peerOut, a),
         w.on = v.on, w.out = v.out, w.peerOn = v.peerOn, w.in = v.in, w.held = v.held,
         w.asked = v.asked, w.peerClock = v.peerClock, w.service = v.service,
         w.twoStep = v.twoStep, w.clock = v.clock, w.now = v.now
  PROVE  \E g \in CourseT : Course(p, w, g)
<1>1. PICK Q, S, U : Q = RequestOf(p, k) /\ S = ResponseTo(p, k) /\ U = FollowUpTo(p, k)
  OBVIOUS
<1>2. /\ AsksRight(p, v, h, Q) /\ AnswersRight(p, v, h, S) /\ FollowsRight(p, v, h, S, U)
      /\ AskedRight(p, v, h, k) /\ HeldRight(p, v, h, k) /\ StoredRight(p, v, h, k)
  BY <1>1 DEF Course
<1>3. /\ v.peerIn \in Seq(FrameT) /\ v.peerOut \in Seq(FrameT) /\ a \in FrameT /\ b \in FrameT
  BY DEF ViewT, ResponseTo, FollowUpTo
<1>4. Head(v.peerIn) \in There(p, h) /\ None(w.peerIn, Q)
  BY <1>1, <1>2, <1>3, OneLess DEF AsksRight
<1>5. /\ h.stage = 2 /\ a.clean /\ a.epoch = h.e2
      /\ a.corr = (IF v.twoStep THEN 0 ELSE -Asymmetry[p]) /\ b.corr = -Asymmetry[p]
  BY <1>4 DEF There
<1>6. PICK g : g = [stage |-> 3, followed |-> FALSE, t1 |-> h.t1, e2 |-> h.e2, t3 |-> 0,
                    clean |-> TRUE]
  OBVIOUS
<1>7. g \in CourseT /\ g.stage = 3 /\ g.t1 = h.t1 /\ g.e2 = h.e2 /\ ~g.followed
  BY <1>6 DEF CourseT
<1>8. AsksRight(p, w, g, Q)
  BY <1>2, <1>4, <1>5, NotYetThere, NoneAsks
<1>9. None(v.peerOut, S) /\ None(v.peerOn, Aboard(S)) /\ None(v.in, S)
  BY <1>2, <1>5, NotYetBack
<1>10. None(v.peerOut, U) /\ None(v.peerOn, Aboard(U)) /\ None(v.in, U)
  BY <1>2, <1>5, NotYetFollowed
<1>11. a \in Answering(p, g, v.twoStep)
  BY <1>3, <1>5, <1>7 DEF Answering
<1>12. /\ All(w.peerOut, S, Answering(p, g, v.twoStep)) /\ One(w.peerOut, S)
       /\ All(w.peerOut, U, Following(p, g, v.twoStep)) /\ One(w.peerOut, U)
       /\ After(w.peerOut, S, U)
  <2>1. a \in S /\ a \notin U /\ b \in U /\ b \notin S
    BY <1>1 DEF ResponseTo, FollowUpTo
  <2>2. CASE v.twoStep
    <3>1. w.peerOut = Append(Append(v.peerOut, a), b)
      BY <2>2
    <3>2. b \in Following(p, g, v.twoStep)
      BY <1>3, <1>5, <1>7, <2>2 DEF Following
    <3> QED BY <1>3, <1>9, <1>10, <1>11, <2>1, <3>1, <3>2, PairAdded
  <2>3. CASE ~v.twoStep
    <3>1. w.peerOut = Append(v.peerOut, a)
      BY <2>3
    <3>2. All(w.peerOut, S, Answering(p, g, v.twoStep)) /\ One(w.peerOut, S)
      BY <1>3, <1>9, <1>11, <3>1, FirstOfAll
    <3>3. All(w.peerOut, U, {}) /\ One(w.peerOut, U)
      BY <1>3, <1>10, <2>1, <3>1, FirstOfAll
    <3>4. None(w.peerOut, U)
      BY <3>3, AllIsNone
    <3> QED BY <3>2, <3>4, NoneIsAll
  <2> QED BY <2>2, <2>3
<1>13. AnswersRight(p, w, g, S)
  <2>1. All(w.peerOn, Aboard(S), Returning(p, g, w.twoStep, w.now)) /\ One(w.peerOn, Aboard(S))
    BY <1>9, NoneIsAll
  <2>2. All(w.in, S, Back(p, g, w.twoStep, w.clock.offset)) /\ One(w.in, S)
    BY <1>9, NoneIsAll
  <2> QED BY <1>12, <2>1, <2>2 DEF AnswersRight
<1>14. FollowsRight(p, w, g, S, U)
  <2>1. All(w.peerOn, Aboard(U), Aboard(Coming(p, g))) /\ All(w.in, U, Coming(p, g))
    BY <1>10, NoneIsAll
  <2> QED BY <1>12, <2>1 DEF FollowsRight
<1>15. AskedRight(p, w, g, k)
  BY <1>2, <1>5, <1>7 DEF AskedRight
<1>16. HeldRight(p, w, g, k)
  BY <1>2, <1>5, <1>7 DEF HeldRight
<1>17. StoredRight(p, w, g, k)
  BY <1>2, <1>5 DEF StoredRight
<1> QED BY <1>1, <1>7, <1>8, <1>13, <1>14, <1>15, <1>16, <1>17 DEF Course

LEMMA ShiftsCancel == \A n, o, a, b \in Int : n + o - (a + b + o) = n - a - b
OBVIOUS

\* The response leaves.
LEMMA ResponseLeaves ==
  ASSUME NEW p \in Ports, NEW v \in ViewT, NEW w \in ViewT, NEW h \in CourseT, Course(p, v, h),
         NEW k, k = v.service.requSequId,
         v.peerOut # <<>>, Head(v.peerOut) \in ResponseTo(p, k), w.peerOut = Tail(v.peerOut),
         NEW y \in ResponseTo(p, k), y.receipt = Head(v.peerOut).receipt,
         y.clean <=> Head(v.peerOut).clean /\ Head(v.peerOut).epoch = v.peerClock.epoch,
         y.twoStep = Head(v.peerOut).twoStep,
         \A t \in Int : Result(v.held, p, k) = [valid |-> TRUE, time |-> t] =>
           IF v.twoStep
           THEN /\ y.corr = Head(v.peerOut).corr
                /\ w.held = Append(Rest(v.held, p, k),
                                   Entry(p, k, v.now + v.peerClock.offset - t))
           ELSE y.corr = Head(v.peerOut).corr + (v.now + v.peerClock.offset - t),
         w.peerOn = Append(v.peerOn, [frame |-> y, left |-> LinkDelay[Peer[p]]]),
         w.on = v.on, w.out = v.out, w.peerIn = v.peerIn, w.in = v.in,
         w.asked = v.asked, w.peerClock = v.peerClock, w.service = v.service,
         w.twoStep = v.twoStep, w.clock = v.clock, w.now = v.now
  PROVE  \E g \in CourseT : Course(p, w, g)
<1>1. PICK Q, S, U : Q = RequestOf(p, k) /\ S = ResponseTo(p, k) /\ U = FollowUpTo(p, k)
  OBVIOUS
<1>2. /\ AsksRight(p, v, h, Q) /\ AnswersRight(p, v, h, S) /\ FollowsRight(p, v, h, S, U)
      /\ AskedRight(p, v, h, k) /\ HeldRight(p, v, h, k) /\ StoredRight(p, v, h, k)
  BY <1>1 DEF Course
<1>3. /\ v.peerOut \in Seq(FrameT) /\ v.peerOn \in Seq(WireT) /\ v.held \in Seq(EntryT)
      /\ v.now \in Int /\ v.twoStep \in BOOLEAN
  BY DEF ViewT
<1>4. PICK f : f = Head(v.peerOut)
  OBVIOUS
<1>5. f \in Answering(p, h, v.twoStep) /\ None(w.peerOut, S)
  BY <1>1, <1>2, <1>3, <1>4, OneLess DEF AnswersRight
<1>6. /\ h.stage = 3 /\ f.clean /\ f.epoch = h.e2 /\ f.receipt = 0 /\ f.twoStep = v.twoStep
      /\ f.corr = IF v.twoStep THEN 0 ELSE -Asymmetry[p]
  BY <1>5 DEF Answering
<1>7. LinkDelay[p] \in Int /\ LinkDelay[Peer[p]] \in Nat /\ Asymmetry[p] \in Int
      /\ Peer[p] \in Ports /\ h.t1 \in Int /\ h.e2 \in Int
  BY NetworkAssumption DEF CourseT
<1>8. k \in Nat /\ v.peerClock.offset \in Int /\ v.peerClock.epoch \in Int
  <2>1. v.service \in PDelayT /\ v.peerClock \in [offset : Int, epoch : Nat]
    BY DEF ViewT
  <2> QED BY <2>1 DEF PDelayT
<1>9. PICK c \in BOOLEAN : c <=> h.e2 = v.peerClock.epoch
  OBVIOUS
<1>10. PICK g : g = [stage |-> 4, followed |-> FALSE, t1 |-> h.t1, e2 |-> h.e2, t3 |-> v.now,
                     clean |-> c]
  OBVIOUS
<1>11. g \in CourseT /\ g.stage = 4 /\ g.t1 = h.t1 /\ g.e2 = h.e2 /\ ~g.followed
       /\ g.t3 = v.now /\ g.clean = c
  BY <1>3, <1>7, <1>10 DEF CourseT
<1>12. PICK t \in Int : /\ Only(v.held, p, k, t)
                        /\ c => t = h.t1 + LinkDelay[p] + v.peerClock.offset
  BY <1>2, <1>6, <1>9 DEF HeldRight
<1>13. Result(v.held, p, k) = [valid |-> TRUE, time |-> t]
       /\ None(Rest(v.held, p, k), EntryOf(p, k))
  BY <1>3, <1>12, PopFinds
<1>14. PICK e \in Int : e = v.now + v.peerClock.offset - t
  BY <1>3, <1>8
<1>15. c => e = Stay(p, g)
  <2>1. ASSUME c PROVE e = Stay(p, g)
    <3>1. t = h.t1 + LinkDelay[p] + v.peerClock.offset
      BY <2>1, <1>12
    <3>2. Stay(p, g) = v.now - h.t1 - LinkDelay[p]
      BY <1>11 DEF Stay
    <3>3. PICK n \in Int, o \in Int, a \in Int, b \in Int :
            n = v.now /\ o = v.peerClock.offset /\ a = h.t1 /\ b = LinkDelay[p]
      BY <1>3, <1>7, <1>8
    <3>4. e = n + o - (a + b + o)
      BY <3>1, <3>3, <1>14
    <3>5. e = n - a - b
      BY <3>4, ShiftsCancel
    <3> QED BY <3>2, <3>3, <3>5
  <2> QED BY <2>1
<1>16. IF v.twoStep THEN y.corr = 0 /\ w.held = Append(Rest(v.held, p, k), Entry(p, k, e))
                    ELSE y.corr = e - Asymmetry[p]
  <2>1. CASE v.twoStep
    BY <2>1, <1>4, <1>6, <1>13, <1>14
  <2>2. CASE ~v.twoStep
    <3>1. y.corr = f.corr + e /\ f.corr = -Asymmetry[p]
      BY <2>2, <1>4, <1>6, <1>13, <1>14
    <3>2. y.corr = e - Asymmetry[p]
      BY <3>1, <1>7
    <3> QED BY <2>2, <3>2
  <2> QED BY <2>1, <2>2, <1>3
<1>17. AsksRight(p, w, g, Q)
  BY <1>2, <1>6, NotYetThere, NoneAsks
<1>18. None(v.peerOn, Aboard(S)) /\ None(v.in, S)
  BY <1>2, <1>6, NotYetBack
<1>19. AnswersRight(p, w, g, S)
  <2>1. PICK x : x = [frame |-> y, left |-> LinkDelay[Peer[p]]]
    OBVIOUS
  <2>2. x \in WireT /\ x.frame = y /\ x.left = LinkDelay[Peer[p]]
    BY <1>7, <2>1 DEF WireT, ResponseTo
  <2>3. y.receipt = 0 /\ y.twoStep = v.twoStep /\ y.clean = g.clean
    <3>1. y.clean \in BOOLEAN
      BY DEF ResponseTo, FrameT
    <3> QED BY <3>1, <1>4, <1>6, <1>9, <1>11
  <2>4. g.clean => y.corr = IF v.twoStep THEN 0 ELSE Stay(p, g) - Asymmetry[p]
    BY <1>11, <1>15, <1>16
  <2>5. x.left = LinkDelay[Peer[p]] - (v.now - g.t3)
    BY <2>2, <1>3, <1>7, <1>11
  <2>6. x \in Returning(p, g, v.twoStep, v.now)
    BY <1>11, <2>2, <2>3, <2>4, <2>5 DEF Returning
  <2>7. All(w.peerOn, Aboard(S), Returning(p, g, v.twoStep, v.now)) /\ One(w.peerOn, Aboard(S))
    BY <1>3, <1>18, <2>1, <2>2, <2>6, FirstOfAll
  <2>8. All(w.peerOut, S, Answering(p, g, v.twoStep)) /\ One(w.peerOut, S)
    BY <1>5, NoneIsAll
  <2>9. All(w.in, S, Back(p, g, v.twoStep, v.clock.offset)) /\ One(w.in, S)
    BY <1>18, NoneIsAll
  <2> QED BY <2>7, <2>8, <2>9 DEF AnswersRight
<1>20. FollowsRight(p, w, g, S, U)
  <2>1. All(v.peerOut, U, Following(p, h, v.twoStep)) /\ One(v.peerOut, U)
    BY <1>2 DEF FollowsRight
  <2>2. All(w.peerOut, U, Following(p, h, v.twoStep)) /\ One(w.peerOut, U)
    BY <1>3, <2>1, OneLess
  <2>3. \A x \in Following(p, h, v.twoStep) : x \in Following(p, g, v.twoStep)
    BY <1>11 DEF Following
  <2>4. All(w.peerOut, U, Following(p, g, v.twoStep))
    BY <2>2, <2>3, AllAlso
  <2>5. None(v.peerOn, Aboard(U)) /\ None(v.in, U)
    BY <1>2, <1>6, NotYetFollowed
  <2>6. U \cap S = {} /\ y \in S
    BY <1>1 DEF ResponseTo, FollowUpTo
  <2>7. None(w.peerOn, Aboard(U))
    <3>1. PICK x : x = [frame |-> y, left |-> LinkDelay[Peer[p]]]
      OBVIOUS
    <3>2. x \in WireT /\ x \notin Aboard(U)
      BY <1>7, <2>6, <3>1 DEF WireT, ResponseTo, Aboard
    <3>3. All(w.peerOn, Aboard(U), {}) /\ One(w.peerOn, Aboard(U))
      BY <1>3, <2>5, <3>1, <3>2, FirstOfAll
    <3> QED BY <3>3, AllIsNone
  <2>8. All(w.peerOn, Aboard(U), Aboard(Coming(p, g))) /\ All(w.in, U, Coming(p, g))
    BY <2>5, <2>7, NoneIsAll
  <2> QED BY <1>11, <2>2, <2>4, <2>8 DEF FollowsRight
<1>21. AskedRight(p, w, g, k)
  BY <1>2, <1>6, <1>11 DEF AskedRight
<1>22. HeldRight(p, w, g, k)
  <2>1. v.twoStep /\ c => Only(w.held, p, k, Stay(p, g))
    <3>1. ASSUME v.twoStep, c PROVE Only(w.held, p, k, Stay(p, g))
      <4>1. Rest(v.held, p, k) \in Seq(EntryT)
        BY <1>3, RestKeeps
      <4>2. p \in PortOrNone
        BY DEF PortOrNone
      <4>3. w.held = Append(Rest(v.held, p, k), Entry(p, k, e)) /\ e = Stay(p, g)
        BY <3>1, <1>15, <1>16
      <4>4. Only(w.held, p, k, e)
        BY <1>8, <1>13, <4>1, <4>2, <4>3, PushNew
      <4> QED BY <4>3, <4>4
    <3> QED BY <3>1
  <2>2. h.e2 <= w.peerClock.epoch
    BY <1>2 DEF HeldRight
  <2> QED BY <2>1, <2>2, <1>11 DEF HeldRight
<1>23. StoredRight(p, w, g, k)
  BY <1>2, <1>6 DEF StoredRight
<1> QED BY <1>1, <1>11, <1>17, <1>19, <1>20, <1>21, <1>22, <1>23 DEF Course

LEMMA OtherAdded ==
  ASSUME NEW T, NEW Q \in Seq(T), NEW x \in T, NEW S, x \notin S
  PROVE  /\ \A C : All(Q, S, C) => All(Append(Q, x), S, C)
         /\ One(Q, S) => One(Append(Q, x), S)
         /\ None(Q, S) => None(Append(Q, x), S)
<1>1. PICK R : R = <<x>>
  OBVIOUS
<1>2. R \in Seq(T) /\ Append(Q, x) = Q \o R /\ None(R, S)
  BY <1>1 DEF None
<1> QED BY <1>2, MoreOfOthers

LEMMA FirstTaken ==
  ASSUME NEW T, NEW Q \in Seq(T), Q # <<>>, NEW S
  PROVE  /\ \A C : All(Q, S, C) => All(Tail(Q), S, C)
         /\ One(Q, S) => One(Tail(Q), S)
         /\ None(Q, S) => None(Tail(Q), S)
         /\ \A C : All(Q, S, C) /\ Head(Q) \in S => Head(Q) \in C
<1>1. Thinner(Tail(Q), Q, T, S)
  BY DEF Thinner
<1>2. Head(Q) = Q[1] /\ 1 \in DOMAIN Q
  OBVIOUS
<1>3. \A C : All(Q, S, C) /\ Head(Q) \in S => Head(Q) \in C
  BY <1>2 DEF All
<1> QED BY <1>1, <1>3, ThinnerKeeps

LEMMA AllLess ==
  ASSUME NEW T, NEW Q \in Seq(T), Q # <<>>, NEW S, NEW C, All(Q, S, C)
  PROVE  All(Tail(Q), S, C)
BY FirstTaken

\* The Follow_Up of the response leaves.
LEMMA FollowUpLeaves ==
  ASSUME NEW p \in Ports, NEW v \in ViewT, NEW w \in ViewT, NEW h \in CourseT, Course(p, v, h),
         NEW k, k = v.service.requSequId,
         v.peerOut # <<>>, Head(v.peerOut) \in FollowUpTo(p, k), w.peerOut = Tail(v.peerOut),
         NEW y \in FollowUpTo(p, k), y.origin = 0,
         y.corr = Head(v.peerOut).corr + Result(v.held, p, k).time,
         w.peerOn = Append(v.peerOn, [frame |-> y, left |-> LinkDelay[Peer[p]]]),
         w.on = v.on, w.out = v.out, w.peerIn = v.peerIn, w.in = v.in,
         w.asked = v.asked, w.peerClock = v.peerClock, w.service = v.service,
         w.twoStep = v.twoStep, w.clock = v.clock, w.now = v.now
  PROVE  \E g \in CourseT : Course(p, w, g)
<1>1. PICK Q, S, U : Q = RequestOf(p, k) /\ S = ResponseTo(p, k) /\ U = FollowUpTo(p, k)
  OBVIOUS
<1>2. /\ AsksRight(p, v, h, Q) /\ AnswersRight(p, v, h, S) /\ FollowsRight(p, v, h, S, U)
      /\ AskedRight(p, v, h, k) /\ HeldRight(p, v, h, k) /\ StoredRight(p, v, h, k)
  BY <1>1 DEF Course
<1>3. v.peerOut \in Seq(FrameT) /\ v.peerOn \in Seq(WireT) /\ v.held \in Seq(EntryT)
  BY DEF ViewT
<1>4. PICK f : f = Head(v.peerOut)
  OBVIOUS
<1>5. f \in Following(p, h, v.twoStep) /\ None(w.peerOut, U)
  BY <1>1, <1>2, <1>3, <1>4, OneLess DEF FollowsRight
<1>6. v.twoStep /\ h.stage >= 3 /\ ~h.followed /\ f.corr = -Asymmetry[p]
  BY <1>5 DEF Following
<1>7. h.stage \in Int /\ h.stage >= 4
  <2>1. h.stage \in Int
    BY DEF CourseT
  <2>2. ASSUME h.stage = 3 PROVE FALSE
    <3>1. Head(v.peerOut) = v.peerOut[1] /\ 1 \in DOMAIN v.peerOut
          /\ \A j \in DOMAIN v.peerOut : ~(j < 1)
      BY <1>3
    <3>2. After(v.peerOut, S, U)
      BY <1>2, <2>2 DEF FollowsRight
    <3> QED BY <1>1, <3>1, <3>2 DEF After
  <2> QED BY <2>1, <2>2, <1>6
<1>8. LinkDelay[Peer[p]] \in Nat /\ Asymmetry[p] \in Int
  BY NetworkAssumption
<1>9. PICK g : g = [h EXCEPT !.followed = TRUE]
  OBVIOUS
<1>10. g \in CourseT /\ g.stage = h.stage /\ g.t1 = h.t1 /\ g.e2 = h.e2 /\ g.followed
       /\ g.t3 = h.t3 /\ g.clean = h.clean
  BY <1>9 DEF CourseT
<1>11. Stay(p, g) = Stay(p, h)
  BY <1>10 DEF Stay
<1>12. AsksRight(p, w, g, Q)
  BY <1>2, <1>7, NotYetThere, NoneAsks
<1>13. PICK x : x = [frame |-> y, left |-> LinkDelay[Peer[p]]]
  OBVIOUS
<1>14. x \in WireT /\ x.frame = y /\ y \in FrameT /\ y \notin S /\ x \notin Aboard(S)
  BY <1>1, <1>8, <1>13 DEF WireT, FollowUpTo, ResponseTo, Aboard
<1>15. AnswersRight(p, w, g, S)
  <2>1. None(w.peerOut, S)
    <3>1. None(v.peerOut, S)
      BY <1>2, <1>7, NotYetBack
    <3> QED BY <1>3, <3>1, NoneLess
  <2>2. All(w.peerOut, S, Answering(p, g, v.twoStep)) /\ One(w.peerOut, S)
    BY <2>1, NoneIsAll
  <2>3. Returning(p, g, v.twoStep, v.now) = Returning(p, h, v.twoStep, v.now)
    BY <1>10, <1>11 DEF Returning
  <2>4. All(w.peerOn, Aboard(S), Returning(p, g, v.twoStep, v.now)) /\ One(w.peerOn, Aboard(S))
    BY <1>2, <1>3, <1>13, <1>14, <2>3, OtherAdded DEF AnswersRight
  <2>5. Back(p, g, v.twoStep, v.clock.offset) = Back(p, h, v.twoStep, v.clock.offset)
    BY <1>10, <1>11 DEF Back
  <2>6. All(w.in, S, Back(p, g, v.twoStep, v.clock.offset)) /\ One(w.in, S)
    BY <1>2, <2>5 DEF AnswersRight
  <2> QED BY <2>2, <2>4, <2>6 DEF AnswersRight
<1>16. FollowsRight(p, w, g, S, U)
  <2>1. None(v.peerOn, Aboard(U)) /\ None(v.in, U)
    BY <1>2, <1>6, NotYetFollowed
  <2>2. All(w.peerOut, U, Following(p, g, v.twoStep)) /\ One(w.peerOut, U)
    BY <1>5, NoneIsAll
  <2>3. g.clean => y.corr = Stay(p, g) - Asymmetry[p]
    <3>1. ASSUME g.clean PROVE y.corr = Stay(p, g) - Asymmetry[p]
      <4>1. Only(v.held, p, k, Stay(p, h))
        BY <1>2, <1>6, <1>7, <1>10, <3>1 DEF HeldRight
      <4>2. Result(v.held, p, k).time = Stay(p, h)
        BY <1>3, <4>1, PopFinds
      <4>3. Stay(p, h) \in Int
        <5>1. h.t3 \in Int /\ h.t1 \in Int /\ LinkDelay[p] \in Int
          BY NetworkAssumption DEF CourseT
        <5> QED BY <5>1 DEF Stay
      <4>4. y.corr = -Asymmetry[p] + Stay(p, h)
        BY <1>4, <1>6, <4>2
      <4>5. y.corr = Stay(p, h) - Asymmetry[p]
        BY <1>8, <4>3, <4>4
      <4> QED BY <1>11, <4>5
    <3> QED BY <3>1
  <2>4. y \in Coming(p, g)
    BY <1>7, <1>10, <1>14, <2>3 DEF Coming
  <2>5. x \in Aboard(Coming(p, g))
    BY <1>14, <2>4 DEF Aboard
  <2>6. All(w.peerOn, Aboard(U), Aboard(Coming(p, g)))
    BY <1>3, <1>13, <1>14, <2>1, <2>5, FirstOfAll
  <2>7. All(w.in, U, Coming(p, g))
    BY <2>1, NoneIsAll
  <2> QED BY <1>7, <1>10, <2>2, <2>6, <2>7 DEF FollowsRight
<1>17. AskedRight(p, w, g, k)
  BY <1>2, <1>7, <1>10 DEF AskedRight
<1>18. HeldRight(p, w, g, k)
  <2>1. h.e2 <= w.peerClock.epoch
    BY <1>2 DEF HeldRight
  <2> QED BY <2>1, <1>7, <1>10 DEF HeldRight
<1>19. StoredRight(p, w, g, k)
  BY <1>2, <1>10 DEF StoredRight
<1> QED BY <1>1, <1>10, <1>12, <1>15, <1>16, <1>17, <1>18, <1>19 DEF Course

\* The response arrives.
LEMMA ResponseArrives ==
  ASSUME NEW p \in Ports, NEW v \in ViewT, NEW w \in ViewT, NEW h \in CourseT, Course(p, v, h),
         NEW k, k = v.service.requSequId,
         v.peerOn # <<>>, Head(v.peerOn).frame \in ResponseTo(p, k), Head(v.peerOn).left = 0,
         w.peerOn = Tail(v.peerOn),
         NEW y \in ResponseTo(p, k), y.receipt = Head(v.peerOn).frame.receipt,
         y.clean = Head(v.peerOn).frame.clean, y.twoStep = Head(v.peerOn).frame.twoStep,
         y.corr = Head(v.peerOn).frame.corr + Asymmetry[p],
         y.stamp.time = v.now + v.clock.offset,
         \A t \in Int : Result(v.asked, p, k) = [valid |-> TRUE, time |-> t] => y.reqEgress = t,
         w.in = Append(v.in, y),
         w.on = v.on, w.out = v.out, w.peerIn = v.peerIn, w.peerOut = v.peerOut,
         w.held = v.held, w.peerClock = v.peerClock, w.service = v.service,
         w.twoStep = v.twoStep, w.clock = v.clock, w.now = v.now
  PROVE  \E g \in CourseT : Course(p, w, g)
<1>1. PICK Q, S, U : Q = RequestOf(p, k) /\ S = ResponseTo(p, k) /\ U = FollowUpTo(p, k)
  OBVIOUS
<1>2. /\ AsksRight(p, v, h, Q) /\ AnswersRight(p, v, h, S) /\ FollowsRight(p, v, h, S, U)
      /\ AskedRight(p, v, h, k) /\ HeldRight(p, v, h, k) /\ StoredRight(p, v, h, k)
  BY <1>1 DEF Course
<1>3. v.in \in Seq(FrameT) /\ v.peerOn \in Seq(WireT) /\ v.asked \in Seq(EntryT)
  BY DEF ViewT
<1>4. PICK f : f = Head(v.peerOn).frame
  OBVIOUS
<1>5. Head(v.peerOn) \in Returning(p, h, v.twoStep, v.now) /\ None(w.peerOn, Aboard(S))
  <2>1. Head(v.peerOn) \in Aboard(S)
    <3>1. Head(v.peerOn) \in WireT
      BY <1>3
    <3> QED BY <1>1, <3>1 DEF Aboard
  <2> QED BY <2>1, <1>2, <1>3, OneLess DEF AnswersRight
<1>6. /\ h.stage = 4 /\ f.receipt = 0 /\ f.twoStep = v.twoStep /\ f.clean = h.clean
      /\ 0 = LinkDelay[Peer[p]] - (v.now - h.t3)
      /\ h.clean => f.corr = IF v.twoStep THEN 0 ELSE Stay(p, h) - Asymmetry[p]
  BY <1>4, <1>5 DEF Returning
<1>7. LinkDelay[Peer[p]] \in Int /\ LinkDelay[p] \in Int /\ Asymmetry[p] \in Int
      /\ h.t1 \in Int /\ h.t3 \in Int
  BY NetworkAssumption DEF CourseT
<1>8. v.now \in Int /\ v.clock.offset \in Int
  <2>1. v.now \in Int /\ v.clock \in [offset : Int, epoch : Nat]
    BY DEF ViewT
  <2> QED BY <2>1
<1>9. v.now = h.t3 + LinkDelay[Peer[p]]
  BY <1>6, <1>7, <1>8
<1>10. PICK g : g = [h EXCEPT !.stage = 5]
  OBVIOUS
<1>11. g \in CourseT /\ g.stage = 5 /\ g.t1 = h.t1 /\ g.e2 = h.e2 /\ g.followed = h.followed
       /\ g.t3 = h.t3 /\ g.clean = h.clean
  BY <1>10 DEF CourseT
<1>12. Stay(p, g) = Stay(p, h) /\ Stay(p, h) \in Int
  BY <1>7, <1>11 DEF Stay
<1>13. AsksRight(p, w, g, Q)
  BY <1>2, <1>6, NotYetThere, NoneAsks
<1>14. AnswersRight(p, w, g, S)
  <2>1. y \in FrameT
    BY DEF ResponseTo
  <2>2. y.reqEgress = h.t1 + v.clock.offset
    <3>1. Only(v.asked, p, k, h.t1 + v.clock.offset)
      BY <1>2, <1>6 DEF AskedRight
    <3>2. PICK t \in Int : t = h.t1 + v.clock.offset
      BY <1>7, <1>8
    <3>3. PICK R \in Seq(EntryT) : R = v.asked
      BY <1>3
    <3>4. Only(R, p, k, t)
      BY <3>1, <3>2, <3>3
    <3>5. Result(R, p, k) = [valid |-> TRUE, time |-> t]
      BY <3>4, PopFinds, ZenonT(30)
    <3> QED BY <3>2, <3>3, <3>5
  <2>3. g.clean => y.corr = IF v.twoStep THEN Asymmetry[p] ELSE Stay(p, g)
    <3>1. ASSUME g.clean PROVE y.corr = IF v.twoStep THEN Asymmetry[p] ELSE Stay(p, g)
      <4>1. y.corr = f.corr + Asymmetry[p]
        BY <1>4
      <4>2. CASE v.twoStep
        <5>1. f.corr = 0
          BY <1>6, <1>11, <3>1, <4>2
        <5>2. y.corr = Asymmetry[p]
          BY <1>7, <4>1, <5>1
        <5> QED BY <4>2, <5>2
      <4>3. CASE ~v.twoStep
        <5>1. f.corr = Stay(p, h) - Asymmetry[p]
          BY <1>6, <1>11, <3>1, <4>3
        <5>2. y.corr = Stay(p, h)
          BY <1>7, <1>12, <4>1, <5>1
        <5> QED BY <1>12, <4>3, <5>2
      <4> QED BY <4>2, <4>3
    <3> QED BY <3>1
  <2>4. y.stamp.time = g.t3 + LinkDelay[Peer[p]] + v.clock.offset
    BY <1>9, <1>11
  <2>5. y \in Back(p, g, v.twoStep, v.clock.offset)
    BY <1>4, <1>6, <1>11, <2>1, <2>2, <2>3, <2>4 DEF Back
  <2>6. None(v.peerOut, S) /\ None(v.in, S)
    BY <1>2, <1>6, NotYetBack
  <2>7. All(w.in, S, Back(p, g, v.twoStep, v.clock.offset)) /\ One(w.in, S)
    BY <1>3, <2>1, <2>5, <2>6, FirstOfAll
  <2>8. All(w.peerOut, S, Answering(p, g, v.twoStep)) /\ One(w.peerOut, S)
    BY <2>6, NoneIsAll
  <2>9. All(w.peerOn, Aboard(S), Returning(p, g, v.twoStep, v.now)) /\ One(w.peerOn, Aboard(S))
    BY <1>5, NoneIsAll
  <2> QED BY <2>7, <2>8, <2>9 DEF AnswersRight
<1>15. FollowsRight(p, w, g, S, U)
  <2>1. Following(p, g, v.twoStep) = Following(p, h, v.twoStep)
    BY <1>6, <1>11 DEF Following
  <2>2. Coming(p, g) = Coming(p, h)
    BY <1>6, <1>11, <1>12 DEF Coming
  <2>3. All(w.peerOut, U, Following(p, g, v.twoStep)) /\ One(w.peerOut, U)
    BY <1>2, <2>1 DEF FollowsRight
  <2>4. All(v.peerOn, Aboard(U), Aboard(Coming(p, g))) /\ All(v.in, U, Coming(p, g))
    BY <1>2, <2>2 DEF FollowsRight
  <2>5. All(w.peerOn, Aboard(U), Aboard(Coming(p, g)))
    BY <1>3, <2>4, AllLess
  <2>6. y \in FrameT /\ y \notin U
    BY <1>1 DEF ResponseTo, FollowUpTo
  <2>7. All(w.in, U, Coming(p, g))
    BY <1>3, <2>4, <2>6, OtherAdded
  <2> QED BY <1>11, <2>3, <2>5, <2>7 DEF FollowsRight
<1>16. AskedRight(p, w, g, k)
  BY <1>11 DEF AskedRight
<1>17. HeldRight(p, w, g, k)
  <2>1. h.e2 <= w.peerClock.epoch
    BY <1>2 DEF HeldRight
  <2>2. h.clean /\ v.twoStep /\ ~h.followed => Only(w.held, p, k, Stay(p, h))
    BY <1>2, <1>6 DEF HeldRight
  <2> QED BY <2>1, <2>2, <1>11, <1>12 DEF HeldRight
<1>18. StoredRight(p, w, g, k)
  BY <1>2, <1>6 DEF StoredRight
<1> QED BY <1>1, <1>11, <1>13, <1>14, <1>15, <1>16, <1>17, <1>18 DEF Course

\* The Follow_Up of the response arrives.
LEMMA FollowUpArrives ==
  ASSUME NEW p \in Ports, NEW v \in ViewT, NEW w \in ViewT, NEW h \in CourseT, Course(p, v, h),
         NEW k, k = v.service.requSequId,
         v.peerOn # <<>>, Head(v.peerOn).frame \in FollowUpTo(p, k), w.peerOn = Tail(v.peerOn),
         NEW y \in FollowUpTo(p, k), y.origin = Head(v.peerOn).frame.origin,
         y.corr = Head(v.peerOn).frame.corr, w.in = Append(v.in, y),
         w.on = v.on, w.out = v.out, w.peerIn = v.peerIn, w.peerOut = v.peerOut,
         w.asked = v.asked, w.held = v.held, w.peerClock = v.peerClock, w.service = v.service,
         w.twoStep = v.twoStep, w.clock = v.clock, w.now = v.now
  PROVE  Course(p, w, h)
<1>1. PICK Q, S, U : Q = RequestOf(p, k) /\ S = ResponseTo(p, k) /\ U = FollowUpTo(p, k)
  OBVIOUS
<1>2. /\ AsksRight(p, v, h, Q) /\ AnswersRight(p, v, h, S) /\ FollowsRight(p, v, h, S, U)
      /\ AskedRight(p, v, h, k) /\ HeldRight(p, v, h, k) /\ StoredRight(p, v, h, k)
  BY <1>1 DEF Course
<1>3. v.in \in Seq(FrameT) /\ v.peerOn \in Seq(WireT) /\ y \in FrameT /\ y \in U /\ y \notin S
  BY <1>1 DEF ViewT, FollowUpTo, ResponseTo
<1>4. Head(v.peerOn).frame \in Coming(p, h)
  <2>1. Head(v.peerOn) \in Aboard(U)
    <3>1. Head(v.peerOn) \in WireT
      BY <1>3
    <3> QED BY <1>1, <3>1 DEF Aboard
  <2>2. Head(v.peerOn) \in Aboard(Coming(p, h))
    BY <1>2, <1>3, <2>1, FirstTaken DEF FollowsRight
  <2> QED BY <2>2 DEF Aboard
<1>5. y \in Coming(p, h)
  BY <1>3, <1>4 DEF Coming
<1>6. AsksRight(p, w, h, Q)
  BY <1>2 DEF AsksRight
<1>7. AnswersRight(p, w, h, S)
  <2>1. All(v.peerOn, Aboard(S), Returning(p, h, v.twoStep, v.now)) /\ One(v.peerOn, Aboard(S))
    BY <1>2 DEF AnswersRight
  <2>2. All(w.peerOn, Aboard(S), Returning(p, h, v.twoStep, v.now)) /\ One(w.peerOn, Aboard(S))
    BY <1>3, <2>1, FirstTaken
  <2>3. All(v.in, S, Back(p, h, v.twoStep, v.clock.offset)) /\ One(v.in, S)
    BY <1>2 DEF AnswersRight
  <2>4. All(w.in, S, Back(p, h, v.twoStep, v.clock.offset)) /\ One(w.in, S)
    BY <1>3, <2>3, OtherAdded
  <2> QED BY <1>2, <2>2, <2>4 DEF AnswersRight
<1>8. FollowsRight(p, w, h, S, U)
  <2>1. All(v.peerOn, Aboard(U), Aboard(Coming(p, h))) /\ All(v.in, U, Coming(p, h))
    BY <1>2 DEF FollowsRight
  <2>2. All(w.peerOn, Aboard(U), Aboard(Coming(p, h)))
    BY <1>3, <2>1, AllLess
  <2>3. All(w.in, U, Coming(p, h))
    BY <1>3, <1>5, <2>1, OneMore
  <2> QED BY <1>2, <2>2, <2>3 DEF FollowsRight
<1>9. AskedRight(p, w, h, k) /\ HeldRight(p, w, h, k) /\ StoredRight(p, w, h, k)
  <2>1. AskedRight(p, w, h, k)
    BY <1>2 DEF AskedRight
  <2>2. HeldRight(p, w, h, k)
    BY <1>2 DEF HeldRight
  <2>3. StoredRight(p, w, h, k)
    BY <1>2 DEF StoredRight
  <2> QED BY <2>1, <2>2, <2>3
<1> QED BY <1>1, <1>6, <1>7, <1>8, <1>9 DEF Course

\* The times of a two-step response are stored.
LEMMA ResponseStored ==
  ASSUME NEW p \in Ports, NEW v \in ViewT, NEW w \in ViewT, NEW h \in CourseT, Course(p, v, h),
         NEW k, k = v.service.requSequId, NEW f, f = Head(v.in),
         v.in # <<>>, f \in ResponseTo(p, k), f.twoStep, w.in = Tail(v.in),
         w.service = PDelayStored(v.service, f),
         w.on = v.on, w.out = v.out, w.peerIn = v.peerIn, w.peerOut = v.peerOut,
         w.peerOn = v.peerOn, w.asked = v.asked, w.held = v.held, w.peerClock = v.peerClock,
         w.twoStep = v.twoStep, w.clock = v.clock, w.now = v.now
  PROVE  Course(p, w, h)
<1>1. PICK Q, S, U : Q = RequestOf(p, k) /\ S = ResponseTo(p, k) /\ U = FollowUpTo(p, k)
  OBVIOUS
<1>2. /\ AsksRight(p, v, h, Q) /\ AnswersRight(p, v, h, S) /\ FollowsRight(p, v, h, S, U)
      /\ AskedRight(p, v, h, k) /\ HeldRight(p, v, h, k)
  BY <1>1 DEF Course
<1>3. v.in \in Seq(FrameT) /\ v.service \in PDelayT
  BY DEF ViewT
<1>4. f \in Back(p, h, v.twoStep, v.clock.offset) /\ None(w.in, S)
  BY <1>1, <1>2, <1>3, OneLess DEF AnswersRight
<1>5. /\ h.stage = 5 /\ f.receipt = 0 /\ f.twoStep = v.twoStep /\ f.clean = h.clean
      /\ f.stamp.time = h.t3 + LinkDelay[Peer[p]] + v.clock.offset
      /\ f.reqEgress = h.t1 + v.clock.offset
      /\ h.clean => f.corr = IF v.twoStep THEN Asymmetry[p] ELSE Stay(p, h)
  BY <1>4 DEF Back
<1>6. /\ w.service.requSequId = k /\ w.service.clean = f.clean
      /\ w.service.requestReceipt = f.receipt /\ w.service.respCorr = f.corr
      /\ w.service.respIngress = f.stamp.time /\ w.service.reqEgress = f.reqEgress
  BY <1>3 DEF PDelayT, PDelayStored
<1>7. AsksRight(p, w, h, Q)
  BY <1>2 DEF AsksRight
<1>8. AnswersRight(p, w, h, S)
  BY <1>2, <1>4, NoneIsAll DEF AnswersRight
<1>9. FollowsRight(p, w, h, S, U)
  <2>1. All(w.in, U, Coming(p, h))
    BY <1>2, <1>3, FirstTaken DEF FollowsRight
  <2> QED BY <1>2, <2>1 DEF FollowsRight
<1>10. AskedRight(p, w, h, k)
  BY <1>2 DEF AskedRight
<1>11. HeldRight(p, w, h, k)
  BY <1>2 DEF HeldRight
<1>12. StoredRight(p, w, h, k)
  BY <1>5, <1>6 DEF StoredRight
<1> QED BY <1>1, <1>6, <1>7, <1>8, <1>9, <1>10, <1>11, <1>12 DEF Course

\* What the frames of a wire have left of their journey gets less.
Nearer(R, Q) == R = [i \in DOMAIN Q |-> [Q[i] EXCEPT !.left = @ - 1]]

LEMMA NearerKeeps ==
  ASSUME NEW Q \in Seq(WireT), NEW R \in Seq(WireT), Nearer(R, Q), NEW S, NEW C, NEW D,
         All(Q, Aboard(S), C),
         \A x \in C, y \in WireT : y.frame = x.frame /\ y.left = x.left - 1 => y \in D
  PROVE  All(R, Aboard(S), D) /\ (One(Q, Aboard(S)) => One(R, Aboard(S)))
<1>1. DOMAIN R = DOMAIN Q
  BY DEF Nearer
<1>2. ASSUME NEW i \in DOMAIN R
      PROVE  /\ R[i] \in WireT /\ Q[i] \in WireT /\ R[i].frame = Q[i].frame
             /\ R[i].left = Q[i].left - 1
  <2>1. R[i] = [Q[i] EXCEPT !.left = @ - 1]
    BY <1>1, <1>2 DEF Nearer
  <2>2. R[i] \in WireT /\ Q[i] \in WireT
    BY <1>1, <1>2
  <2> QED BY <2>1, <2>2 DEF WireT
<1>3. \A i \in DOMAIN R : R[i] \in Aboard(S) => Q[i] \in Aboard(S)
  BY <1>2 DEF Aboard
<1> QED BY <1>1, <1>2, <1>3 DEF All, One

LEMMA TimePasses ==
  ASSUME NEW p \in Ports, NEW v \in ViewT, NEW w \in ViewT, NEW h \in CourseT, Course(p, v, h),
         Nearer(w.on, v.on), Nearer(w.peerOn, v.peerOn), w.now = v.now + 1,
         w.out = v.out, w.peerIn = v.peerIn, w.peerOut = v.peerOut, w.in = v.in,
         w.asked = v.asked, w.held = v.held, w.peerClock = v.peerClock, w.service = v.service,
         w.twoStep = v.twoStep, w.clock = v.clock
  PROVE  Course(p, w, h)
<1>1. PICK k, Q, S, U : /\ k = v.service.requSequId /\ Q = RequestOf(p, k)
                        /\ S = ResponseTo(p, k) /\ U = FollowUpTo(p, k)
  OBVIOUS
<1>2. /\ AsksRight(p, v, h, Q) /\ AnswersRight(p, v, h, S) /\ FollowsRight(p, v, h, S, U)
      /\ AskedRight(p, v, h, k) /\ HeldRight(p, v, h, k) /\ StoredRight(p, v, h, k)
  BY <1>1 DEF Course
<1>3. /\ v.on \in Seq(WireT) /\ v.peerOn \in Seq(WireT)
      /\ w.on \in Seq(WireT) /\ w.peerOn \in Seq(WireT)
      /\ v.now \in Int
  BY DEF ViewT
<1>a. PICK on \in Seq(WireT), on2 \in Seq(WireT), back \in Seq(WireT), back2 \in Seq(WireT) :
        /\ on = v.on /\ on2 = w.on /\ back = v.peerOn /\ back2 = w.peerOn
  BY <1>3
<1>b. Nearer(on2, on) /\ Nearer(back2, back)
  BY <1>a
<1>4. LinkDelay[Peer[p]] \in Int /\ LinkDelay[p] \in Int /\ h.t1 \in Int /\ h.t3 \in Int
  BY NetworkAssumption DEF CourseT
<1>5. AsksRight(p, w, h, Q)
  <2>1. ASSUME NEW x \in Going(p, h, v.now), NEW y \in WireT,
               y.frame = x.frame /\ y.left = x.left - 1
        PROVE  y \in Going(p, h, w.now)
    <3>1. x.left = LinkDelay[p] - (v.now - h.t1)
      BY DEF Going
    <3>2. y.left = LinkDelay[p] - (w.now - h.t1)
      BY <1>3, <1>4, <2>1, <3>1
    <3> QED BY <2>1, <3>2 DEF Going
  <2>2. PICK C, D : C = Going(p, h, v.now) /\ D = Going(p, h, w.now)
    OBVIOUS
  <2>3. All(on, Aboard(Q), C) /\ One(on, Aboard(Q))
    BY <1>2, <1>a, <2>2 DEF AsksRight
  <2>4. \A x \in C, y \in WireT : y.frame = x.frame /\ y.left = x.left - 1 => y \in D
    BY <2>1, <2>2
  <2>5. All(on2, Aboard(Q), D) /\ One(on2, Aboard(Q))
    BY <1>b, <2>3, <2>4, NearerKeeps
  <2> QED BY <1>2, <1>a, <2>2, <2>5 DEF AsksRight
<1>6. AnswersRight(p, w, h, S)
  <2>1. ASSUME NEW x \in Returning(p, h, v.twoStep, v.now), NEW y \in WireT,
               y.frame = x.frame /\ y.left = x.left - 1
        PROVE  y \in Returning(p, h, v.twoStep, w.now)
    <3>1. x.left = LinkDelay[Peer[p]] - (v.now - h.t3)
      BY DEF Returning
    <3>2. y.left = LinkDelay[Peer[p]] - (w.now - h.t3)
      BY <1>3, <1>4, <2>1, <3>1
    <3> QED BY <2>1, <3>2 DEF Returning
  <2>2. PICK C, D : C = Returning(p, h, v.twoStep, v.now) /\ D = Returning(p, h, v.twoStep, w.now)
    OBVIOUS
  <2>3. All(back, Aboard(S), C) /\ One(back, Aboard(S))
    BY <1>2, <1>a, <2>2 DEF AnswersRight
  <2>4. \A x \in C, y \in WireT : y.frame = x.frame /\ y.left = x.left - 1 => y \in D
    BY <2>1, <2>2
  <2>5. All(back2, Aboard(S), D) /\ One(back2, Aboard(S))
    BY <1>b, <2>3, <2>4, NearerKeeps
  <2> QED BY <1>2, <1>a, <2>2, <2>5 DEF AnswersRight
<1>7. FollowsRight(p, w, h, S, U)
  <2>1. PICK C : C = Aboard(Coming(p, h))
    OBVIOUS
  <2>2. All(back, Aboard(U), C)
    BY <1>2, <1>a, <2>1 DEF FollowsRight
  <2>3. \A x \in C, y \in WireT : y.frame = x.frame /\ y.left = x.left - 1 => y \in C
    BY <2>1 DEF Aboard
  <2>4. All(back2, Aboard(U), C)
    BY <1>b, <2>2, <2>3, NearerKeeps
  <2> QED BY <1>2, <1>a, <2>1, <2>4 DEF FollowsRight
<1>8. AskedRight(p, w, h, k)
  BY <1>2 DEF AskedRight
<1>9. HeldRight(p, w, h, k)
  BY <1>2 DEF HeldRight
<1>10. StoredRight(p, w, h, k)
  BY <1>2 DEF StoredRight
<1> QED BY <1>1, <1>5, <1>6, <1>7, <1>8, <1>9, <1>10 DEF Course

-----------------------------------------------------------------------------
(* What is measured *)

\* How long the frames take, there and back.
BothWays(p) == LinkDelay[p] + LinkDelay[Peer[p]]

LEMMA ThereAndBack ==
  \A t1, t3, a, b, o \in Int :
    (t3 + b + o - (t1 + o)) - (0 - 0) - (t3 - t1 - a) = a + b
OBVIOUS

\* The times of a one-step response.
LEMMA OneStepTrue ==
  ASSUME NEW p \in Ports, NEW v \in ViewT, NEW h \in CourseT, Course(p, v, h),
         NEW f, f = Head(v.in), v.in # <<>>, f \in ResponseTo(p, v.service.requSequId),
         ~f.twoStep, f.clean
  PROVE  PeerRoundTrip(f.reqEgress, f.stamp.time, f.receipt, 0, f.corr, 0) = BothWays(p)
<1>1. v.in \in Seq(FrameT)
  BY DEF ViewT
<1>2. f \in Back(p, h, v.twoStep, v.clock.offset)
  BY <1>1, FirstTaken DEF Course, AnswersRight
<1>3. /\ f.receipt = 0 /\ f.corr = Stay(p, h)
      /\ f.stamp.time = h.t3 + LinkDelay[Peer[p]] + v.clock.offset
      /\ f.reqEgress = h.t1 + v.clock.offset
  BY <1>2 DEF Back
<1>4. PICK a \in Int, b \in Int, o \in Int, t1 \in Int, t3 \in Int :
        a = LinkDelay[p] /\ b = LinkDelay[Peer[p]] /\ o = v.clock.offset /\ t1 = h.t1 /\ t3 = h.t3
  <2>1. LinkDelay[p] \in Int /\ LinkDelay[Peer[p]] \in Int /\ h.t1 \in Int /\ h.t3 \in Int
    BY NetworkAssumption DEF CourseT
  <2>2. v.clock \in [offset : Int, epoch : Nat]
    BY DEF ViewT
  <2>3. v.clock.offset \in Int
    BY <2>2
  <2> QED BY <2>1, <2>3
<1>5. (t3 + b + o - (t1 + o)) - (0 - 0) - (t3 - t1 - a) = a + b
  BY ThereAndBack
<1>6. PeerRoundTrip(t1 + o, t3 + b + o, 0, 0, t3 - t1 - a, 0) = a + b
  BY <1>5 DEF PeerRoundTrip
<1>7. f.corr = t3 - t1 - a
  BY <1>3, <1>4 DEF Stay
<1> QED BY <1>3, <1>4, <1>6, <1>7 DEF BothWays

\* The times of a two-step response, and those of its Follow_Up.
LEMMA TwoStepTrue ==
  ASSUME NEW p \in Ports, NEW v \in ViewT, NEW h \in CourseT, Course(p, v, h),
         NEW f, f = Head(v.in), v.in # <<>>, NEW s, s = v.service,
         f \in FollowUpTo(p, s.requSequId), s.respSequID = s.requSequId, s.clean
  PROVE  PeerRoundTrip(s.reqEgress, s.respIngress, s.requestReceipt, f.origin, s.respCorr,
                       f.corr) = BothWays(p)
<1>1. v.in \in Seq(FrameT)
  BY DEF ViewT
<1>2. f \in Coming(p, h)
  BY <1>1, FirstTaken DEF Course, FollowsRight
<1>3. /\ h.clean /\ s.requestReceipt = 0 /\ s.respCorr = Asymmetry[p]
      /\ s.respIngress = h.t3 + LinkDelay[Peer[p]] + v.clock.offset
      /\ s.reqEgress = h.t1 + v.clock.offset
  BY DEF Course, StoredRight
<1>4. f.origin = 0 /\ f.corr = Stay(p, h) - Asymmetry[p]
  BY <1>2, <1>3 DEF Coming
<1>5. PICK a \in Int, b \in Int, o \in Int, t1 \in Int, t3 \in Int, y \in Int :
        /\ a = LinkDelay[p] /\ b = LinkDelay[Peer[p]] /\ o = v.clock.offset
        /\ t1 = h.t1 /\ t3 = h.t3 /\ y = Asymmetry[p]
  <2>1. LinkDelay[p] \in Int /\ LinkDelay[Peer[p]] \in Int /\ h.t1 \in Int /\ h.t3 \in Int
        /\ Asymmetry[p] \in Int
    BY NetworkAssumption DEF CourseT
  <2>2. v.clock \in [offset : Int, epoch : Nat]
    BY DEF ViewT
  <2>3. v.clock.offset \in Int
    BY <2>2
  <2> QED BY <2>1, <2>3
<1>6. (t3 + b + o - (t1 + o)) - (0 - 0) - (t3 - t1 - a) = a + b
  BY ThereAndBack
<1>7. PeerRoundTrip(t1 + o, t3 + b + o, 0, 0, y, (t3 - t1 - a) - y) = a + b
  <2>1. \A x, z \in Int : x - y - (z - y) = x - z
    OBVIOUS
  <2> QED BY <1>6, <2>1 DEF PeerRoundTrip
<1>8. f.corr = (t3 - t1 - a) - y
  BY <1>4, <1>5 DEF Stay
<1> QED BY <1>3, <1>4, <1>5, <1>7, <1>8 DEF BothWays

-----------------------------------------------------------------------------
(* Tables and numbers *)

\* The port whose request a frame belongs to.
Asker(f) == IF f.type = "PDELAY_REQ" THEN f.source ELSE f.requester

LEMMA LiveIs ==
  ASSUME NEW p, NEW v, NEW f \in FrameT
  PROVE  f \in Live(p, v) <=> /\ f.type \in PDelays /\ Asker(f) = p
                              /\ f.seq = v.service.requSequId
BY DEF Live, RequestOf, ResponseTo, FollowUpTo, Asker, PDelays

\* What Q knows of the request k of p stays in R.
Spares(Q, R, p, k) ==
  /\ None(Q, EntryOf(p, k)) => None(R, EntryOf(p, k))
  /\ \A t : Only(Q, p, k, t) => Only(R, p, k, t)

\* What the handlers do with a table for the frame n of s.
Works(Q, R, s, n) ==
  \/ R = Q
  \/ R = Rest(Q, s, n)
  \/ \E t \in Int : R = Append(Q, Entry(s, n, t))
  \/ \E t \in Int : R = Append(Rest(Q, s, n), Entry(s, n, t))

LEMMA SparesSelf == \A Q, p, k : Spares(Q, Q, p, k)
BY DEF Spares

LEMMA SparesAll ==
  ASSUME NEW Q, NEW R, NEW S, NEW p, NEW k, Spares(Q, R, p, k), Spares(R, S, p, k)
  PROVE  Spares(Q, S, p, k)
BY DEF Spares

LEMMA RestSpares ==
  ASSUME NEW Q \in Seq(EntryT), NEW s, NEW n \in Nat, NEW p, NEW k \in Nat, s # p \/ n < k
  PROVE  Spares(Q, Rest(Q, s, n), p, k) /\ Rest(Q, s, n) \in Seq(EntryT)
<1>1. Rest(Q, s, n) \in Seq(EntryT)
  BY RestKeeps
<1>2. None(Q, EntryOf(p, k)) => None(Rest(Q, s, n), EntryOf(p, k))
  BY RestKeeps
<1>3. ASSUME NEW t, Only(Q, p, k, t) PROVE Only(Rest(Q, s, n), p, k, t)
  BY <1>3, PopSpares
<1> QED BY <1>1, <1>2, <1>3 DEF Spares

LEMMA AddSpares ==
  ASSUME NEW Q \in Seq(EntryT), NEW s \in PortOrNone, NEW n \in Nat, NEW u \in Int,
         NEW p, NEW k, s # p \/ n # k
  PROVE  Spares(Q, Append(Q, Entry(s, n, u)), p, k)
<1>1. None(Q, EntryOf(p, k)) => None(Append(Q, Entry(s, n, u)), EntryOf(p, k))
  BY PushSpares
<1>2. ASSUME NEW t, Only(Q, p, k, t) PROVE Only(Append(Q, Entry(s, n, u)), p, k, t)
  BY <1>2, PushSpares
<1> QED BY <1>1, <1>2 DEF Spares

LEMMA WorksSpares ==
  ASSUME NEW Q \in Seq(EntryT), NEW R, NEW s \in PortOrNone, NEW n \in Nat, Works(Q, R, s, n),
         NEW p, NEW k \in Nat, s # p \/ n < k
  PROVE  Spares(Q, R, p, k)
<1>1. s # p \/ n # k
  OBVIOUS
<1>2. PICK P \in Seq(EntryT) : P = Rest(Q, s, n) /\ Spares(Q, P, p, k)
  BY RestSpares
<1>3. CASE R = Q
  BY <1>3, SparesSelf
<1>4. CASE R = Rest(Q, s, n)
  BY <1>2, <1>4
<1>5. CASE \E t \in Int : R = Append(Q, Entry(s, n, t))
  BY <1>1, <1>5, AddSpares
<1>6. CASE \E t \in Int : R = Append(Rest(Q, s, n), Entry(s, n, t))
  <2>1. PICK t \in Int : R = Append(P, Entry(s, n, t))
    BY <1>2, <1>6
  <2>2. Spares(P, R, p, k)
    BY <1>1, <2>1, AddSpares
  <2> QED BY <1>2, <2>2, SparesAll
<1> QED BY <1>3, <1>4, <1>5, <1>6 DEF Works

LEMMA WorksOn ==
  ASSUME NEW S, NEW Q \in Seq(S), NEW R, NEW s, NEW n, Works(Q, R, s, n),
         \A t \in Int : Entry(s, n, t) \in S
  PROVE  R \in Seq(S)
<1>1. PICK P \in Seq(S) : P = Rest(Q, s, n)
  BY RestKeeps
<1>2. ASSUME NEW t \in Int
      PROVE  Append(Q, Entry(s, n, t)) \in Seq(S) /\ Append(P, Entry(s, n, t)) \in Seq(S)
  OBVIOUS
<1> QED BY <1>1, <1>2 DEF Works

-----------------------------------------------------------------------------
(* What the handlers of a MAC do with the tables of the peer delays *)

LEMMA Expects ==
  ASSUME NEW c, NEW g, NEW tab, NEW out, out = Expect(c, Out(g, tab))
  PROVE  out.frame = g /\ out.nic = tab /\ (out.failed <=> ~c)
<1>1. PICK b \in BOOLEAN : b <=> ~c
  OBVIOUS
<1>2. out = [frame |-> g, nic |-> tab, requ |-> "NONE", failed |-> b]
  BY <1>1, Zenon DEF Expect, Out
<1> QED BY <1>1, <1>2

\* The tables of the peer delays in tab are those of ctl.
SamePeers(tab, ctl) ==
  tab.pdelayReqResp = ctl.pdelayReqResp /\ tab.pdelayRespFu = ctl.pdelayRespFu

LEMMA OtherTable ==
  ASSUME NEW ctl, NEW m, m = "syncFu" \/ m = "delayReqResp", NEW r
  PROVE  SamePeers([ctl EXCEPT ![m] = r], ctl)
BY DEF SamePeers

LEMMA OtherPush ==
  ASSUME NEW ctl, NEW m, m = "syncFu" \/ m = "delayReqResp", NEW s, NEW n, NEW t
  PROVE  SamePeers(Push(ctl, m, s, n, t), ctl) /\ SamePeers(Popped(ctl, m, s, n), ctl)
BY OtherTable DEF Push, Popped

LEMMA RequestSent ==
  ASSUME NEW p \in Ports, NEW m, NEW two \in BOOLEAN, NEW ctl \in NicT(p[1]), NEW f \in FrameT,
         NEW clk \in TimeT, f.type = "PDELAY_REQ", f.source = p,
         NEW out, out = HandleEgress(MacOf(m, two, p), ctl, f, clk)
  PROVE  /\ out.frame.corr = f.corr - ctl.asymmetry[p]
         /\ out.nic.pdelayReqResp = Append(ctl.pdelayReqResp, Entry(p, f.seq, clk.time))
         /\ out.nic.pdelayRespFu = ctl.pdelayRespFu
         /\ out.failed <=> m # "P2P"
<1>1. PICK a \in Int : a = -ctl.asymmetry[p] /\ ctl.asymmetry[p] \in Int
  <2>1. p \in PortsOf(p[1]) /\ ctl.asymmetry \in [PortsOf(p[1]) -> Int]
    BY DEF PortsOf, NicT
  <2> QED BY <2>1
<1>2. PICK g : g = AddCorrection(f, a)
  OBVIOUS
<1>3. g.corr = f.corr + a
  BY <1>2, Corrects
<1>4. PICK tab : tab = Push(ctl, "pdelayReqResp", p, f.seq, clk.time)
  OBVIOUS
<1>5. MacOf(m, two, p).id = p /\ MacOf(m, two, p).mechanism = m
  BY DEF MacOf
<1>6. PICK c \in BOOLEAN : c = (m = "P2P")
  OBVIOUS
<1>7. out = Expect(c, Out(g, tab))
  BY <1>6, <1>1, <1>2, <1>4, <1>5 DEF HandleEgress, HandleEgressOwnPtp, HandleEgressOwnPDelayReq
<1>8. out.frame = g /\ out.nic = tab /\ (out.failed <=> ~c)
  BY <1>7, Expects
<1>9. /\ tab.pdelayReqResp = Append(ctl.pdelayReqResp, Entry(p, f.seq, clk.time))
      /\ tab.pdelayRespFu = ctl.pdelayRespFu
  BY <1>4 DEF Push, push, NicT
<1>10. g.corr = f.corr - ctl.asymmetry[p]
  BY <1>1, <1>3 DEF FrameT
<1> QED BY <1>8, <1>9, <1>10, <1>6

LEMMA TablesIn == \A n, ctl : ctl \in NicT(n) => /\ "pdelayReqResp" \in DOMAIN ctl
                                               /\ "pdelayRespFu" \in DOMAIN ctl
BY DEF NicT

\* Before a response leaves, the time the request came is looked up.
LEMMA ResponseSent ==
  ASSUME NEW p \in Ports, NEW m, NEW two \in BOOLEAN, NEW ctl \in NicT(p[1]), NEW f \in FrameT,
         NEW clk \in TimeT, f.type = "PDELAY_RESP", f.source = p,
         NEW out, out = HandleEgress(MacOf(m, two, p), ctl, f, clk),
         NEW r, r = Result(ctl.pdelayRespFu, f.requester, f.seq),
         NEW Q, Q = Rest(ctl.pdelayRespFu, f.requester, f.seq)
  PROVE  /\ out.nic.pdelayReqResp = ctl.pdelayReqResp
         /\ out.frame.twoStep = f.twoStep
         /\ ~r.valid => out.frame = f /\ out.nic.pdelayRespFu = Q
         /\ r.valid /\ two => /\ out.frame = f
                             /\ out.nic.pdelayRespFu =
                                  Append(Q, Entry(f.requester, f.seq, clk.time - r.time))
         /\ r.valid /\ ~two => /\ out.frame = AddCorrection(f, clk.time - r.time)
                              /\ out.nic.pdelayRespFu = Q
         /\ out.failed <=> two # f.twoStep
<1>1. PICK rest : rest = Popped(ctl, "pdelayRespFu", f.requester, f.seq)
  OBVIOUS
<1>2. rest = [ctl EXCEPT !.pdelayRespFu = Q]
  BY <1>1 DEF Popped
<1>3. /\ rest.pdelayRespFu = Q /\ rest.pdelayReqResp = ctl.pdelayReqResp
      /\ "pdelayRespFu" \in DOMAIN rest
  BY <1>2, TablesIn
<1>4. PICK e : e = clk.time - r.time
  OBVIOUS
<1>5. PICK tab : tab = Push(rest, "pdelayRespFu", f.requester, f.seq, e)
  OBVIOUS
<1>6. /\ tab.pdelayRespFu = Append(Q, Entry(f.requester, f.seq, e))
      /\ tab.pdelayReqResp = ctl.pdelayReqResp
  BY <1>3, <1>5 DEF Push, push
<1>7. PICK c \in BOOLEAN : c = (two = f.twoStep)
  OBVIOUS
<1>8. MacOf(m, two, p).id = p /\ MacOf(m, two, p).twoStep = two
  BY DEF MacOf
<1>9. out = HandleEgressOwnPDelayResp(MacOf(m, two, p), ctl, f, clk)
  BY <1>8 DEF HandleEgress, HandleEgressOwnPtp
<1>10. out = Expect(c, IF ~r.valid THEN Out(f, rest)
                       ELSE IF two THEN Out(f, tab) ELSE Out(AddCorrection(f, e), rest))
  BY <1>1, <1>4, <1>5, <1>7, <1>8, <1>9, Zenon
     DEF HandleEgressOwnPDelayResp, HasMatch, Found
<1>11. CASE ~r.valid
  <2>1. out = Expect(c, Out(f, rest))
    BY <1>10, <1>11
  <2>2. out.frame = f /\ out.nic = rest /\ (out.failed <=> ~c)
    BY <2>1, Expects
  <2> QED BY <2>2, <1>3, <1>7, <1>11
<1>12. CASE r.valid /\ two
  <2>1. out = Expect(c, Out(f, tab))
    BY <1>10, <1>12
  <2>2. out.frame = f /\ out.nic = tab /\ (out.failed <=> ~c)
    BY <2>1, Expects
  <2> QED BY <2>2, <1>4, <1>6, <1>7, <1>12
<1>13. CASE r.valid /\ ~two
  <2>1. out = Expect(c, Out(AddCorrection(f, e), rest))
    BY <1>10, <1>13
  <2>2. out.frame = AddCorrection(f, e) /\ out.nic = rest /\ (out.failed <=> ~c)
    BY <2>1, Expects
  <2>3. AddCorrection(f, e).twoStep = f.twoStep
    BY DEF AddCorrection, FrameT
  <2> QED BY <2>2, <2>3, <1>3, <1>4, <1>7, <1>13
<1> QED BY <1>11, <1>12, <1>13

LEMMA FollowUpSent ==
  ASSUME NEW p \in Ports, NEW m, NEW two \in BOOLEAN, NEW ctl \in NicT(p[1]), NEW f \in FrameT,
         NEW clk \in TimeT, f.type = "PDELAY_RESP_FU", f.source = p,
         NEW out, out = HandleEgress(MacOf(m, two, p), ctl, f, clk)
  PROVE  /\ out.nic.pdelayReqResp = ctl.pdelayReqResp
         /\ out.nic.pdelayRespFu = Rest(ctl.pdelayRespFu, f.requester, f.seq)
         /\ out.frame.origin = 0
         /\ out.frame.corr = f.corr + Result(ctl.pdelayRespFu, f.requester, f.seq).time
         /\ out.failed <=> ~two
<1>1. PICK rest : rest = Popped(ctl, "pdelayRespFu", f.requester, f.seq)
  OBVIOUS
<1>2. /\ rest.pdelayRespFu = Rest(ctl.pdelayRespFu, f.requester, f.seq)
      /\ rest.pdelayReqResp = ctl.pdelayReqResp
  BY <1>1, TablesIn DEF Popped
<1>3. PICK t : t = Result(ctl.pdelayRespFu, f.requester, f.seq).time
  OBVIOUS
<1>4. PICK g : g = AddCorrection([f EXCEPT !.origin = 0], t)
  OBVIOUS
<1>5. g.origin = 0 /\ g.corr = f.corr + t
  BY <1>4 DEF AddCorrection, FrameT
<1>6. MacOf(m, two, p).id = p /\ MacOf(m, two, p).twoStep = two
  BY DEF MacOf
<1>7. out = HandleEgressOwnPDelayRespFU(MacOf(m, two, p), ctl, f, clk)
  BY <1>6 DEF HandleEgress, HandleEgressOwnPtp
<1>8. out = Expect(two, Out(g, rest))
  BY <1>1, <1>3, <1>4, <1>6, <1>7 DEF HandleEgressOwnPDelayRespFU, Found
<1>9. out.frame = g /\ out.nic = rest /\ (out.failed <=> ~two)
  BY <1>8, Expects
<1> QED BY <1>2, <1>3, <1>5, <1>9

LEMMA SamePeersSelf == \A ctl : SamePeers(ctl, ctl)
BY DEF SamePeers

\* Other frames leave the tables of the peer delays alone.
LEMMA OwnPlainSent ==
  ASSUME NEW mac, NEW ctl, NEW f, NEW clk,
         f.type \in {"SYNC", "FOLLOW_UP", "DELAY_REQ", "DELAY_RESP"}
  PROVE  SamePeers(HandleEgressOwnPtp(mac, ctl, f, clk).nic, ctl)
<1>1. PICK out : out = HandleEgressOwnPtp(mac, ctl, f, clk)
  OBVIOUS
<1>2. CASE f.type = "SYNC"
  <2>1. out = HandleEgressOwnSync(mac, ctl, f, clk)
    BY <1>1, <1>2 DEF HandleEgressOwnPtp
  <2>2. PICK c, g, t : out = Expect(c, Out(g, Push(ctl, "syncFu", f.source, f.seq, t)))
                       \/ out = Expect(c, Out(g, ctl))
    BY <2>1, Zenon DEF HandleEgressOwnSync
  <2>3. out.nic = ctl \/ out.nic = Push(ctl, "syncFu", f.source, f.seq, t)
    BY <2>2, Expects
  <2> QED BY <1>1, <2>3, SamePeersSelf, OtherPush
<1>3. CASE f.type = "FOLLOW_UP"
  <2>1. out = HandleEgressOwnFollowUp(mac, ctl, f, clk)
    BY <1>1, <1>3 DEF HandleEgressOwnPtp
  <2>2. PICK c, g : out = Expect(c, Out(g, Popped(ctl, "syncFu", f.source, f.seq)))
    BY <2>1, Zenon DEF HandleEgressOwnFollowUp
  <2>3. out.nic = Popped(ctl, "syncFu", f.source, f.seq)
    BY <2>2, Expects
  <2> QED BY <1>1, <2>3, OtherPush
<1>4. CASE f.type = "DELAY_REQ"
  <2>1. out = HandleEgressOwnDelayReq(mac, ctl, f, clk)
    BY <1>1, <1>4 DEF HandleEgressOwnPtp
  <2>2. PICK c, g, s, t : out = Expect(c, Out(g, Push(ctl, "delayReqResp", s, f.seq, t)))
    BY <2>1, Zenon DEF HandleEgressOwnDelayReq
  <2>3. out.nic = Push(ctl, "delayReqResp", s, f.seq, t)
    BY <2>2, Expects
  <2> QED BY <1>1, <2>3, OtherPush
<1>5. CASE f.type = "DELAY_RESP"
  <2>1. out = HandleEgressOwnDelayResp(mac, ctl, f, clk)
    BY <1>1, <1>5 DEF HandleEgressOwnPtp
  <2>2. PICK c : out = Expect(c, Out(f, ctl))
    BY <2>1, Zenon DEF HandleEgressOwnDelayResp
  <2>3. out.nic = ctl
    BY <2>2, Expects
  <2> QED BY <1>1, <2>3, SamePeersSelf
<1> QED BY <1>1, <1>2, <1>3, <1>4, <1>5

LEMMA ForeignPlainSent ==
  ASSUME NEW mac, NEW ctl, NEW f, NEW clk,
         f.type \in {"SYNC", "FOLLOW_UP", "DELAY_REQ", "DELAY_RESP"}
  PROVE  SamePeers(HandleEgressForeignPtp(mac, ctl, f, clk).nic, ctl)
<1>1. PICK out : out = HandleEgressForeignPtp(mac, ctl, f, clk)
  OBVIOUS
<1>2. CASE f.type = "SYNC"
  <2>1. out = HandleEgressForeignSync(mac, ctl, f, clk)
    BY <1>1, <1>2 DEF HandleEgressForeignPtp
  <2>2. PICK c, g, t, r :
          \/ out = Expect(c, [Out(g, Push(ctl, "syncFu", f.source, f.seq, t)) EXCEPT !.requ = r])
          \/ out = Expect(c, Out(g, ctl))
    BY <2>1, Zenon DEF HandleEgressForeignSync
  <2>3. PICK tab : tab = Push(ctl, "syncFu", f.source, f.seq, t)
    OBVIOUS
  <2>4. out.nic = ctl \/ out.nic = tab
    <3>1. CASE out = Expect(c, Out(g, ctl))
      BY <3>1, Expects
    <3>2. CASE out = Expect(c, [Out(g, tab) EXCEPT !.requ = r])
      BY <3>2 DEF Expect, Out
    <3> QED BY <2>2, <2>3, <3>1, <3>2
  <2> QED BY <1>1, <2>3, <2>4, SamePeersSelf, OtherPush
<1>3. CASE f.type = "FOLLOW_UP"
  <2>1. out = HandleEgressForeignFollowUp(mac, ctl, f, clk)
    BY <1>1, <1>3 DEF HandleEgressForeignPtp
  <2>2. PICK c, g : out = Expect(c, Out(g, Popped(ctl, "syncFu", f.source, f.seq)))
                    \/ out = Expect(c, Out(g, ctl))
    BY <2>1, Zenon DEF HandleEgressForeignFollowUp
  <2>3. out.nic = Popped(ctl, "syncFu", f.source, f.seq) \/ out.nic = ctl
    BY <2>2, Expects
  <2> QED BY <1>1, <2>3, SamePeersSelf, OtherPush
<1>4. CASE f.type = "DELAY_REQ"
  <2>1. out = HandleEgressForeignDelayReq(mac, ctl, f, clk)
    BY <1>1, <1>4 DEF HandleEgressForeignPtp
  <2>2. PICK c, g, t : out = Expect(c, Out(g, Push(ctl, "delayReqResp", f.source, f.seq, t)))
                       \/ out = Expect(c, Out(g, ctl))
    BY <2>1, Zenon DEF HandleEgressForeignDelayReq
  <2>3. out.nic = Push(ctl, "delayReqResp", f.source, f.seq, t) \/ out.nic = ctl
    BY <2>2, Expects
  <2> QED BY <1>1, <2>3, SamePeersSelf, OtherPush
<1>5. CASE f.type = "DELAY_RESP"
  <2>1. out = HandleEgressForeignDelayResp(mac, ctl, f, clk)
    BY <1>1, <1>5 DEF HandleEgressForeignPtp
  <2>2. PICK c, g : out = Expect(c, Out(g, Popped(ctl, "delayReqResp", f.requester, f.seq)))
                    \/ out = Expect(c, Out(g, ctl))
    BY <2>1, Zenon DEF HandleEgressForeignDelayResp
  <2>3. out.nic = Popped(ctl, "delayReqResp", f.requester, f.seq) \/ out.nic = ctl
    BY <2>2, Expects
  <2> QED BY <1>1, <2>3, SamePeersSelf, OtherPush
<1> QED BY <1>1, <1>2, <1>3, <1>4, <1>5

LEMMA PlainSent ==
  ASSUME NEW mac, NEW ctl, NEW f \in FrameT, NEW clk, f.type \notin PDelays
  PROVE  SamePeers(HandleEgress(mac, ctl, f, clk).nic, ctl)
<1>1. f.type \in {"SYNC", "FOLLOW_UP", "DELAY_REQ", "DELAY_RESP"}
  BY DEF FrameT, FrameTypes, Delays
<1> QED BY <1>1, OwnPlainSent, ForeignPlainSent DEF HandleEgress

-----------------------------------------------------------------------------
(* What arrives *)

LEMMA RequestTaken ==
  ASSUME NEW p \in Ports, NEW m, NEW two \in BOOLEAN, NEW ctl \in NicT(p[1]), NEW f \in FrameT,
         NEW clk \in TimeT, f.type = "PDELAY_REQ",
         NEW out, out = HandleIngress(MacOf(m, two, p), ctl, f, clk)
  PROVE  /\ out.frame.corr = f.corr
         /\ out.nic.pdelayReqResp = ctl.pdelayReqResp
         /\ out.nic.pdelayRespFu = Append(ctl.pdelayRespFu, Entry(f.source, f.seq, clk.time))
<1>1. PICK g : g = [f EXCEPT !.rx = p]
  OBVIOUS
<1>2. g.corr = f.corr /\ g.type = f.type /\ g.source = f.source /\ g.seq = f.seq
  BY <1>1 DEF FrameT
<1>3. MacOf(m, two, p).id = p
  BY DEF MacOf
<1>4. PICK tab : tab = Push(ctl, "pdelayRespFu", f.source, f.seq, clk.time)
  OBVIOUS
<1>5. out = Out(g, tab)
  BY <1>1, <1>2, <1>3, <1>4 DEF HandleIngress, HandleIngressPDelayReq
<1>6. out.frame = g /\ out.nic = tab
  BY <1>5 DEF Out
<1>7. /\ tab.pdelayRespFu = Append(ctl.pdelayRespFu, Entry(f.source, f.seq, clk.time))
      /\ tab.pdelayReqResp = ctl.pdelayReqResp
  BY <1>4, TablesIn DEF Push, push
<1> QED BY <1>2, <1>6, <1>7

LEMMA ResponseTaken ==
  ASSUME NEW p \in Ports, NEW m, NEW two \in BOOLEAN, NEW ctl \in NicT(p[1]), NEW f \in FrameT,
         NEW clk \in TimeT, f.type = "PDELAY_RESP",
         NEW out, out = HandleIngress(MacOf(m, two, p), ctl, f, clk)
  PROVE  /\ out.frame.corr = f.corr + ctl.asymmetry[p] /\ out.frame.stamp = clk
         /\ out.frame.receipt = f.receipt
         /\ out.nic.pdelayRespFu = ctl.pdelayRespFu
         /\ f.requester # p => out.nic.pdelayReqResp = ctl.pdelayReqResp
         /\ f.requester = p =>
              /\ out.nic.pdelayReqResp = Rest(ctl.pdelayReqResp, p, f.seq)
              /\ \A t \in Int : Result(ctl.pdelayReqResp, p, f.seq) = [valid |-> TRUE, time |-> t]
                   => out.frame.reqEgress = t
<1>1. PICK g : g = [f EXCEPT !.rx = p]
  OBVIOUS
<1>2. PICK a : a = ctl.asymmetry[p]
  OBVIOUS
<1>3. PICK h : h = AddCorrection(TimestampOnIngress(g, clk), a)
  OBVIOUS
<1>4. /\ g.type = f.type
      /\ h.corr = f.corr + a /\ h.stamp = clk /\ h.receipt = f.receipt
      /\ h.requester = f.requester /\ h.seq = f.seq
      /\ {"corr", "stamp", "receipt", "requester", "seq", "reqEgress"} \subseteq DOMAIN h
  BY <1>1, <1>3 DEF FrameT, AddCorrection, TimestampOnIngress
<1>5. MacOf(m, two, p).id = p
  BY DEF MacOf
<1>6. out = Answered(MacOf(m, two, p), ctl, "pdelayReqResp", h)
  BY <1>1, <1>2, <1>3, <1>4, <1>5 DEF HandleIngress, HandleIngressPDelayResp
<1>7. CASE f.requester # p
  <2>1. out = Out(h, ctl)
    BY <1>4, <1>5, <1>6, <1>7 DEF Answered
  <2>2. out.frame = h /\ out.nic = ctl
    BY <2>1 DEF Out
  <2> QED BY <1>2, <1>4, <1>7, <2>2
<1>8. CASE f.requester = p
  <2>1. PICK tab : tab = Popped(ctl, "pdelayReqResp", p, f.seq)
    OBVIOUS
  <2>2. PICK r : r = Result(ctl.pdelayReqResp, p, f.seq)
    OBVIOUS
  <2>3. PICK j : j = IF r.valid THEN [h EXCEPT !.reqEgress = r.time] ELSE h
    OBVIOUS
  <2>4. out = Out(j, tab)
    BY <1>4, <1>5, <1>6, <1>8, <2>1, <2>2, <2>3, Zenon DEF Answered, HasMatch, Found
  <2>5. out.frame = j /\ out.nic = tab
    BY <2>4 DEF Out
  <2>6. j.corr = h.corr /\ j.stamp = h.stamp /\ j.receipt = h.receipt
    BY <1>4, <2>3
  <2>7. r.valid => j.reqEgress = r.time
    BY <1>4, <2>3
  <2>8. ASSUME NEW t \in Int, r = [valid |-> TRUE, time |-> t] PROVE j.reqEgress = t
    BY <2>7, <2>8
  <2>9. /\ tab.pdelayReqResp = Rest(ctl.pdelayReqResp, p, f.seq)
        /\ tab.pdelayRespFu = ctl.pdelayRespFu
    BY <2>1, TablesIn DEF Popped
  <2> QED BY <1>2, <1>4, <1>8, <2>2, <2>5, <2>6, <2>8, <2>9
<1> QED BY <1>7, <1>8

LEMMA PlainTaken ==
  ASSUME NEW p \in Ports, NEW m, NEW two \in BOOLEAN, NEW ctl \in NicT(p[1]), NEW f \in FrameT,
         NEW clk, f.type \notin {"PDELAY_REQ", "PDELAY_RESP"},
         NEW out, out = HandleIngress(MacOf(m, two, p), ctl, f, clk)
  PROVE  /\ SamePeers(out.nic, ctl)
         /\ f.type = "PDELAY_RESP_FU" => out.frame.corr = f.corr
<1>1. PICK g : g = [f EXCEPT !.rx = p]
  OBVIOUS
<1>2. g.type = f.type /\ g.corr = f.corr
  BY <1>1 DEF FrameT
<1>3. MacOf(m, two, p).id = p
  BY DEF MacOf
<1>4. CASE f.type = "DELAY_RESP"
  <2>1. out = Answered(MacOf(m, two, p), ctl, "delayReqResp", g)
    BY <1>1, <1>2, <1>3, <1>4 DEF HandleIngress, HandleIngressDelayResp
  <2>2. PICK j : out = Out(j, ctl) \/ out = Out(j, Popped(ctl, "delayReqResp", p, g.seq))
    BY <1>3, <2>1, Zenon DEF Answered
  <2>3. out.nic = ctl \/ out.nic = Popped(ctl, "delayReqResp", p, g.seq)
    BY <2>2 DEF Out
  <2> QED BY <1>4, <2>3, SamePeersSelf, OtherPush
<1>5. CASE f.type = "SYNC" \/ f.type = "DELAY_REQ"
  <2>1. PICK j : out = Out(j, ctl)
    BY <1>1, <1>2, <1>3, <1>5, Zenon DEF HandleIngress, HandleIngressSync
  <2>2. out.nic = ctl
    BY <2>1 DEF Out
  <2> QED BY <1>5, <2>2, SamePeersSelf
<1>6. CASE f.type \notin {"DELAY_RESP", "SYNC", "DELAY_REQ"}
  <2>1. out = Out(g, ctl)
    BY <1>1, <1>2, <1>3, <1>6 DEF HandleIngress
  <2>2. out.nic = ctl /\ out.frame = g
    BY <2>1 DEF Out
  <2> QED BY <1>2, <2>2, SamePeersSelf
<1> QED BY <1>4, <1>5, <1>6

-----------------------------------------------------------------------------
(* The numbers that have been given out *)

\* s are the services: no frame and no entry has a number that is still to be given.
Known(s) ==
  {f \in FrameT : f.type \in PDelays => \A p \in Ports : Asker(f) = p => f.seq < s[p].sequId}

KnownEntries(s) ==
  {e \in EntryT : \A p \in Ports : e.source = p => e.sequenceId < s[p].sequId}

Numbered(s) ==
  /\ s.sequId = s.requSequId + 1 \/ (s.sequId = 0 /\ s.requSequId = 0)
  /\ s.clean => s.respSequID < s.sequId

QueuesKnown(s) ==
  \A p \in Ports : /\ egress[p] \in Seq(Known(s)) /\ ingress[p] \in Seq(Known(s))
                   /\ wire[p] \in Seq(Aboard(Known(s)))
                   /\ nic[p[1]].pdelayReqResp \in Seq(KnownEntries(s))
                   /\ nic[p[1]].pdelayRespFu \in Seq(KnownEntries(s))

Young == QueuesKnown(pdelay) /\ \A p \in Ports : Numbered(pdelay[p])

LEMMA KnownGrows ==
  ASSUME NEW s \in [Ports -> PDelayT], NEW t \in [Ports -> PDelayT],
         \A p \in Ports : s[p].sequId <= t[p].sequId
  PROVE  /\ Seq(Known(s)) \subseteq Seq(Known(t))
         /\ Seq(KnownEntries(s)) \subseteq Seq(KnownEntries(t))
         /\ Seq(Aboard(Known(s))) \subseteq Seq(Aboard(Known(t)))
<1>1. \A p \in Ports : s[p].sequId \in Nat /\ t[p].sequId \in Nat
  BY DEF PDelayT
<1>2. Known(s) \subseteq Known(t)
  <2>1. SUFFICES ASSUME NEW f \in Known(s), f.type \in PDelays, NEW p \in Ports, Asker(f) = p
                 PROVE  f.seq < t[p].sequId
    BY DEF Known
  <2>2. f.seq < s[p].sequId /\ f.seq \in Nat
    BY <2>1 DEF Known, FrameT
  <2> QED BY <1>1, <2>2
<1>3. KnownEntries(s) \subseteq KnownEntries(t)
  <2>1. SUFFICES ASSUME NEW e \in KnownEntries(s), NEW p \in Ports, e.source = p
                 PROVE  e.sequenceId < t[p].sequId
    BY DEF KnownEntries
  <2>2. e.sequenceId < s[p].sequId /\ e.sequenceId \in Nat
    BY <2>1 DEF KnownEntries, EntryT
  <2> QED BY <1>1, <2>2
<1>4. Aboard(Known(s)) \subseteq Aboard(Known(t))
  BY <1>2 DEF Aboard
<1> QED BY <1>2, <1>3, <1>4, SeqOf

LEMMA QueuesGrow ==
  ASSUME NEW s \in [Ports -> PDelayT], NEW t \in [Ports -> PDelayT],
         \A p \in Ports : s[p].sequId <= t[p].sequId, QueuesKnown(s)'
  PROVE  QueuesKnown(t)'
BY KnownGrows DEF QueuesKnown

\* A frame whose number is known is live, or older than the last request.
LEMMA KnownIsOld ==
  ASSUME NEW s \in [Ports -> PDelayT], NEW f \in Known(s), f.type \in PDelays,
         NEW p \in Ports, Numbered(s[p]), NEW k, k = s[p].requSequId, f.seq # k
  PROVE  Asker(f) # p \/ f.seq < k
<1>1. PICK a \in Nat, b \in Nat : a = s[p].sequId /\ b = s[p].requSequId
  BY DEF PDelayT
<1>2. f.seq \in Nat /\ (Asker(f) = p => f.seq < a)
  BY <1>1 DEF Known, FrameT
<1>3. a = b + 1 \/ a = 0
  BY <1>1 DEF Numbered
<1> QED BY <1>1, <1>2, <1>3

LEMMA AskerTyped == \A f \in FrameT : Asker(f) \in PortOrNone
BY DEF Asker, FrameT, PortOrNone

LEMMA KnownEntry ==
  ASSUME NEW s \in [Ports -> PDelayT], NEW f \in Known(s), f.type \in PDelays, NEW t \in Int
  PROVE  Entry(Asker(f), f.seq, t) \in KnownEntries(s)
<1>1. f.seq \in Nat /\ Asker(f) \in PortOrNone
  BY AskerTyped DEF Known, FrameT
<1>2. PICK e \in EntryT :
        e = Entry(Asker(f), f.seq, t) /\ e.source = Asker(f) /\ e.sequenceId = f.seq
  BY <1>1, EntryIs
<1> QED BY <1>2 DEF KnownEntries, Known

-----------------------------------------------------------------------------
(* The views of the ports *)

LEMMA ViewTyped == Typed => \A p \in Ports : View(p) \in ViewT
<1>1. SUFFICES ASSUME Typed, NEW p \in Ports PROVE View(p) \in ViewT
  OBVIOUS
<1>2. PICK q \in Ports : q = Peer[p]
  BY PortTypes
<1>3. p[1] \in Nodes /\ q[1] \in Nodes
  BY PortTypes
<1>4. config.twoStep[q[1]] \in BOOLEAN /\ now \in Int
  BY <1>1, <1>3 DEF Typed, ConfigTyped, ClocksTyped
<1>5. clock[p[1]] \in [offset : Int, epoch : Nat] /\ clock[q[1]] \in [offset : Int, epoch : Nat]
  BY <1>1, <1>3 DEF Typed, ClocksTyped
<1>6. pdelay[p] \in PDelayT
  BY <1>1 DEF Typed, ServicesTyped
<1>7. nic[p[1]].pdelayReqResp \in Seq(EntryT) /\ nic[q[1]].pdelayRespFu \in Seq(EntryT)
  BY <1>1, <1>3 DEF Typed, NicTyped, NicT
<1>8. /\ egress[p] \in Seq(FrameT) /\ egress[q] \in Seq(FrameT)
      /\ ingress[p] \in Seq(FrameT) /\ ingress[q] \in Seq(FrameT)
      /\ wire[p] \in Seq(WireT) /\ wire[q] \in Seq(WireT)
  BY <1>1 DEF Typed, EgressTyping, IngressTyping, WireTyping
<1>9. View(p) =
        [twoStep |-> config.twoStep[q[1]], now |-> now, clock |-> clock[p[1]],
         peerClock |-> clock[q[1]], service |-> pdelay[p],
         asked |-> nic[p[1]].pdelayReqResp, held |-> nic[q[1]].pdelayRespFu,
         out |-> egress[p], on |-> wire[p], in |-> ingress[p],
         peerOut |-> egress[q], peerOn |-> wire[q], peerIn |-> ingress[q]]
  BY <1>2 DEF View
<1> QED BY <1>4, <1>5, <1>6, <1>7, <1>8, <1>9 DEF ViewT

ViewsTyped == \A p \in Ports : View(p) \in ViewT

LEMMA NextViewTyped == Typed' => \A p \in Ports : View(p)' \in ViewT
<1>1. Typed => ViewsTyped
  BY ViewTyped DEF ViewsTyped
<1>2. Typed' => ViewsTyped'
  BY <1>1, PTL
<1> QED BY <1>2 DEF ViewsTyped

LEMMA ViewIs ==
  ASSUME NEW p, NEW v, v = View(p)
  PROVE  /\ v.twoStep = config.twoStep[Peer[p][1]] /\ v.now = now
         /\ v.clock = clock[p[1]] /\ v.peerClock = clock[Peer[p][1]] /\ v.service = pdelay[p]
         /\ v.asked = nic[p[1]].pdelayReqResp /\ v.held = nic[Peer[p][1]].pdelayRespFu
         /\ v.out = egress[p] /\ v.on = wire[p] /\ v.in = ingress[p]
         /\ v.peerOut = egress[Peer[p]] /\ v.peerOn = wire[Peer[p]] /\ v.peerIn = ingress[Peer[p]]
BY DEF View

LEMMA NextViewIs ==
  ASSUME NEW p, NEW w, w = View(p)'
  PROVE  /\ w.twoStep = config'.twoStep[Peer[p][1]] /\ w.now = now'
         /\ w.clock = clock'[p[1]] /\ w.peerClock = clock'[Peer[p][1]] /\ w.service = pdelay'[p]
         /\ w.asked = nic'[p[1]].pdelayReqResp /\ w.held = nic'[Peer[p][1]].pdelayRespFu
         /\ w.out = egress'[p] /\ w.on = wire'[p] /\ w.in = ingress'[p]
         /\ w.peerOut = egress'[Peer[p]] /\ w.peerOn = wire'[Peer[p]]
         /\ w.peerIn = ingress'[Peer[p]]
BY DEF View

\* What a step may do in the queues of q if the frames of L matter.
QueuesFit(q, L) ==
  /\ Firm(egress'[q], egress[q], FrameT, L) /\ Thinner(ingress'[q], ingress[q], FrameT, L)
  /\ Thinner(wire'[q], wire[q], WireT, Aboard(L))

SparesTables(p, k) ==
  /\ Spares(nic[p[1]].pdelayReqResp, nic'[p[1]].pdelayReqResp, p, k)
  /\ Spares(nic[Peer[p][1]].pdelayRespFu, nic'[Peer[p][1]].pdelayRespFu, p, k)

\* The step does not concern the request of p.
Undisturbed(p) ==
  /\ config' = config /\ now' = now /\ clock'[p[1]] = clock[p[1]] /\ pdelay'[p] = pdelay[p]
  /\ Moves(clock[Peer[p][1]], clock'[Peer[p][1]])
  /\ QueuesFit(p, Live(p, View(p))) /\ QueuesFit(Peer[p], Live(p, View(p)))
  /\ SparesTables(p, pdelay[p].requSequId)

LEMMA CourseStays ==
  ASSUME Typed, Typed', Tracked, NEW p \in Ports, Undisturbed(p)
  PROVE  \E h \in CourseT : Course(p, View(p)', h)
<1>1. PICK v \in ViewT : v = View(p)
  BY ViewTyped
<1>2. PICK w \in ViewT : w = View(p)'
  BY NextViewTyped
<1>3. PICK h \in CourseT : Course(p, v, h)
  BY <1>1 DEF Tracked
<1>4. PICK L : L = Live(p, v)
  OBVIOUS
<1>5. /\ w.twoStep = v.twoStep /\ w.now = v.now /\ w.clock = v.clock /\ w.service = v.service
      /\ Moves(v.peerClock, w.peerClock)
  BY <1>1, <1>2, ViewIs, NextViewIs DEF Undisturbed
<1>6. /\ Thinner(w.out, v.out, FrameT, L) /\ Thinner(w.in, v.in, FrameT, L)
      /\ Thinner(w.peerIn, v.peerIn, FrameT, L) /\ Firm(w.peerOut, v.peerOut, FrameT, L)
      /\ Thinner(w.on, v.on, WireT, Aboard(L)) /\ Thinner(w.peerOn, v.peerOn, WireT, Aboard(L))
  <2>1. QueuesFit(p, L) /\ QueuesFit(Peer[p], L)
    BY <1>1, <1>4 DEF Undisturbed
  <2>2. /\ w.out = egress'[p] /\ w.on = wire'[p] /\ w.in = ingress'[p]
        /\ w.peerOut = egress'[Peer[p]] /\ w.peerOn = wire'[Peer[p]]
        /\ w.peerIn = ingress'[Peer[p]]
    BY <1>2, NextViewIs
  <2>3. /\ v.out = egress[p] /\ v.on = wire[p] /\ v.in = ingress[p]
        /\ v.peerOut = egress[Peer[p]] /\ v.peerOn = wire[Peer[p]] /\ v.peerIn = ingress[Peer[p]]
    BY <1>1, ViewIs
  <2> QED BY <2>1, <2>2, <2>3 DEF QueuesFit, Firm
<1>7. PICK k : k = v.service.requSequId /\ k = pdelay[p].requSequId
  BY <1>1, ViewIs
<1>8. Spares(v.asked, w.asked, p, k) /\ Spares(v.held, w.held, p, k)
  BY <1>1, <1>2, <1>7, ViewIs, NextViewIs DEF Undisturbed, SparesTables
<1>9. Beside(p, v, w)
  BY <1>4, <1>5, <1>6, <1>7, <1>8 DEF Beside, Spares
<1>10. Course(p, w, h)
  BY <1>3, <1>9, CourseBeside
<1> QED BY <1>2, <1>10

LEMMA NoneIn ==
  ASSUME NEW T, NEW A, \A x \in T : x \notin A, NEW Q \in Seq(T)
  PROVE  None(Q, A)
<1>1. \A i \in DOMAIN Q : Q[i] \in T
  OBVIOUS
<1> QED BY <1>1 DEF None

LEMMA NoneKnown ==
  ASSUME NEW s \in [Ports -> PDelayT], NEW p \in Ports, NEW k, k = s[p].sequId,
         NEW A, A = RequestOf(p, k) \cup ResponseTo(p, k) \cup FollowUpTo(p, k)
  PROVE  /\ \A Q \in Seq(Known(s)) : None(Q, A)
         /\ \A Q \in Seq(Aboard(Known(s))) : None(Q, Aboard(A))
         /\ \A Q \in Seq(KnownEntries(s)) : None(Q, EntryOf(p, k))
<1>1. k \in Nat
  BY DEF PDelayT
<1>2. \A f \in Known(s) : f \notin A
  BY <1>1 DEF Known, RequestOf, ResponseTo, FollowUpTo, Asker, PDelays
<1>3. \A e \in KnownEntries(s) : e \notin EntryOf(p, k)
  BY <1>1 DEF KnownEntries, EntryOf
<1>4. \A w \in Aboard(Known(s)) : w \notin Aboard(A)
  BY <1>2 DEF Aboard
<1> QED BY <1>2, <1>3, <1>4, NoneIn

KnownView(v, s) ==
  /\ v.out \in Seq(Known(s)) /\ v.in \in Seq(Known(s))
  /\ v.peerOut \in Seq(Known(s)) /\ v.peerIn \in Seq(Known(s))
  /\ v.on \in Seq(Aboard(Known(s))) /\ v.peerOn \in Seq(Aboard(Known(s)))
  /\ v.asked \in Seq(KnownEntries(s)) /\ v.held \in Seq(KnownEntries(s))

LEMMA YetUnknown ==
  ASSUME NEW s \in [Ports -> PDelayT], NEW p \in Ports, NEW k, k = s[p].sequId, NEW v,
         KnownView(v, s), v.service.clean => v.service.respSequID # k
  PROVE  Unknown(p, v, k)
BY NoneKnown DEF Unknown, KnownView

LEMMA JumpNumbers ==
  ASSUME NEW a \in PDelayT, NEW b, b = PDelayTimeJump(a)
  PROVE  /\ b.requSequId = a.sequId /\ b.sequId = a.sequId + 1 /\ b \in PDelayT
         /\ b.clean = a.clean /\ b.respSequID = a.respSequID
<1>1. PICK k \in Nat : k = a.sequId
  BY DEF PDelayT
<1>2. b = [a EXCEPT !.requSequId = k, !.sequId = k + 1]
  BY <1>1 DEF PDelayTimeJump, PDelayT
<1>3. k + 1 \in Nat
  OBVIOUS
<1> QED BY <1>1, <1>2, <1>3 DEF PDelayT

LEMMA LessThanNext == \A r \in Int, k \in Nat : r < k => r < k + 1 /\ r # k
OBVIOUS

\* After a jump of its clock a port expects no answer.
LEMMA JumpEnds ==
  ASSUME Typed', NEW s \in [Ports -> PDelayT], QueuesKnown(s)', NEW p \in Ports,
         Numbered(s[p]), pdelay'[p] = PDelayTimeJump(s[p])
  PROVE  (\E h \in CourseT : Course(p, View(p)', h)) /\ Numbered(pdelay'[p])
<1>1. PICK k \in Nat : k = s[p].sequId
  BY DEF PDelayT
<1>2. PICK w \in ViewT : w = View(p)'
  BY NextViewTyped
<1>3. PICK a \in PDelayT : a = s[p]
  OBVIOUS
<1>4. PICK b \in PDelayT : b = pdelay'[p] /\ b = PDelayTimeJump(a)
  BY <1>3, JumpNumbers
<1>5. b.requSequId = k /\ b.sequId = k + 1 /\ b.clean = a.clean /\ b.respSequID = a.respSequID
  BY <1>1, <1>3, <1>4, JumpNumbers
<1>6. a.clean => a.respSequID < k
  BY <1>1, <1>3 DEF Numbered
<1>7. a.respSequID \in Int
  BY <1>3 DEF PDelayT
<1>8. Numbered(b)
  <2>1. a.clean => a.respSequID < k + 1
    BY <1>6, <1>7, LessThanNext
  <2> QED BY <1>5, <2>1 DEF Numbered
<1>9. k = w.service.requSequId /\ (w.service.clean => w.service.respSequID # k)
  <2>1. w.service = b
    BY <1>2, <1>4, NextViewIs
  <2> QED BY <1>5, <1>6, <1>7, <2>1, LessThanNext
<1>10. Unknown(p, w, k)
  <2>1. PICK q \in Ports : q = Peer[p]
    BY PortTypes
  <2>2. /\ w.out = egress'[p] /\ w.on = wire'[p] /\ w.in = ingress'[p]
        /\ w.peerOut = egress'[q] /\ w.peerOn = wire'[q] /\ w.peerIn = ingress'[q]
        /\ w.asked = nic'[p[1]].pdelayReqResp /\ w.held = nic'[q[1]].pdelayRespFu
    BY <1>2, <2>1, NextViewIs
  <2>3. KnownView(w, s)
    BY <2>2 DEF QueuesKnown, KnownView
  <2> QED BY <1>1, <1>9, <2>3, YetUnknown
<1>11. \E h \in CourseT : Course(p, w, h)
  BY <1>9, <1>10, CourseEnds
<1> QED BY <1>2, <1>4, <1>8, <1>11

\* The request of p goes on.
GoesOn(p) ==
  /\ pdelay'[p].sequId = pdelay[p].sequId /\ pdelay'[p].requSequId = pdelay[p].requSequId
  /\ pdelay'[p].clean => pdelay'[p].respSequID < pdelay'[p].sequId
  /\ \E h \in CourseT : Course(p, View(p)', h)

\* A step that gives no new numbers to requests.
LEMMA StepKeeps ==
  ASSUME Typed, Typed', Tracked, Young, NEW s, s = pdelay, QueuesKnown(s)',
         \A p \in Ports : \/ Undisturbed(p) \/ GoesOn(p)
                          \/ pdelay'[p] = PDelayTimeJump(pdelay[p])
  PROVE  Tracked' /\ Young'
<1>1. s \in [Ports -> PDelayT] /\ pdelay' \in [Ports -> PDelayT]
  BY DEF Typed, ServicesTyped
<1>2. ASSUME NEW p \in Ports
      PROVE  /\ \E h \in CourseT : Course(p, View(p)', h)
             /\ Numbered(pdelay'[p]) /\ s[p].sequId <= pdelay'[p].sequId
  <2>1. PICK k \in Nat : k = s[p].sequId
    BY <1>1 DEF PDelayT
  <2>2. Numbered(s[p])
    BY DEF Young
  <2>3. CASE Undisturbed(p)
    <3>1. pdelay'[p] = s[p]
      BY <2>3 DEF Undisturbed
    <3>2. k <= k
      OBVIOUS
    <3> QED BY <2>1, <2>2, <2>3, <3>1, <3>2, CourseStays
  <2>4. CASE GoesOn(p)
    <3>1. Numbered(pdelay'[p])
      BY <2>2, <2>4 DEF GoesOn, Numbered
    <3>2. pdelay'[p].sequId = k
      BY <2>1, <2>4 DEF GoesOn
    <3> QED BY <2>1, <2>4, <3>1, <3>2 DEF GoesOn
  <2>5. CASE pdelay'[p] = PDelayTimeJump(pdelay[p])
    <3>1. pdelay'[p] = PDelayTimeJump(s[p])
      BY <2>5
    <3>2. (\E h \in CourseT : Course(p, View(p)', h)) /\ Numbered(pdelay'[p])
      BY <1>1, <2>2, <3>1, JumpEnds
    <3>3. pdelay'[p].sequId = k + 1
      BY <1>1, <2>1, <3>1, JumpNumbers
    <3>4. k <= k + 1
      OBVIOUS
    <3> QED BY <2>1, <3>2, <3>3, <3>4
  <2> QED BY <2>3, <2>4, <2>5
<1>3. PICK t \in [Ports -> PDelayT] : t = pdelay'
  BY <1>1
<1>4. QueuesKnown(t)'
  BY <1>1, <1>2, <1>3, QueuesGrow
<1>5. QueuesKnown(pdelay)'
  BY <1>3, <1>4 DEF QueuesKnown
<1>6. Young'
  BY <1>2, <1>5 DEF Young
<1>7. Tracked'
  BY <1>2 DEF Tracked
<1> QED BY <1>6, <1>7

-----------------------------------------------------------------------------
(* Queues that change at one end *)

LEMMA FirmSelf ==
  ASSUME NEW Q \in Seq(FrameT), NEW L PROVE Firm(Q, Q, FrameT, L)
<1>1. ~(Q # <<>> /\ Q = Tail(Q))
  OBVIOUS
<1> QED BY <1>1 DEF Firm, Thinner

LEMMA FirmTail ==
  ASSUME NEW Q \in Seq(FrameT), Q # <<>>, NEW L, Head(Q) \notin L
  PROVE  Firm(Tail(Q), Q, FrameT, L)
BY DEF Firm, Thinner

LEMMA FirmMore ==
  ASSUME NEW Q \in Seq(FrameT), NEW R \in Seq(FrameT), NEW L, None(R, L)
  PROVE  Firm(Q \o R, Q, FrameT, L)
<1>1. ~(Q # <<>> /\ Q \o R = Tail(Q))
  <2>1. SUFFICES ASSUME Q # <<>>, Q \o R = Tail(Q) PROVE FALSE
    OBVIOUS
  <2>2. PICK m \in Nat, n \in Nat : m = Len(Q) /\ n = Len(R)
    OBVIOUS
  <2>3. Len(Q \o R) = m + n /\ Len(Tail(Q)) = m - 1
    BY <2>1, <2>2
  <2> QED BY <2>1, <2>2, <2>3
<1> QED BY <1>1 DEF Firm, Thinner

LEMMA ThinnerSelf == \A Q, T, L : Thinner(Q, Q, T, L)
BY DEF Thinner

LEMMA ThinnerTail == \A Q, T, L : Q # <<>> => Thinner(Tail(Q), Q, T, L)
BY DEF Thinner

LEMMA ThinnerMore ==
  ASSUME NEW T, NEW Q \in Seq(T), NEW x \in T, NEW L, x \notin L
  PROVE  Thinner(Append(Q, x), Q, T, L)
<1>1. PICK R \in Seq(T) : R = <<x>>
  <2>1. <<x>> \in Seq(T)
    OBVIOUS
  <2> QED BY <2>1
<1>2. Append(Q, x) = Q \o R /\ None(R, L)
  BY <1>1 DEF None
<1> QED BY <1>1, <1>2 DEF Thinner

-----------------------------------------------------------------------------
(* A frame leaves *)

\* What x sends, and what becomes of it.
Sends(x, f, out, g) ==
  /\ egress[x] # <<>> /\ f = Head(egress[x])
  /\ out = HandleEgress(Mac(x), nic[x[1]], f, Reading(x[1]))
  /\ g = [out.frame EXCEPT !.clean = StaysClean(x, f, f.source # x)]
  /\ egress' = [egress EXCEPT ![x] = Tail(@)]
  /\ wire' = [wire EXCEPT ![x] = Append(@, [frame |-> g, left |-> LinkDelay[x]])]
  /\ nic' = [nic EXCEPT ![x[1]] = out.nic]
  /\ failed' = out.failed
  /\ UNCHANGED <<config, now, clock, ingress, pdelay, trusted, measure>>

LEMMA TransmitSends == ASSUME NEW x, Transmit(x) PROVE \E f, out, g : Sends(x, f, out, g)
BY DEF Transmit, Sends

LEMMA SendsFrame ==
  ASSUME Typed, NEW x \in Ports, NEW f, NEW out, NEW g, Sends(x, f, out, g)
  PROVE  /\ f \in InEgress(config.mechanism, x) /\ f \in FrameT /\ g \in FrameT
         /\ out.frame \in FrameT /\ out.nic \in NicT(x[1])
         /\ g.type = f.type /\ g.source = f.source /\ g.seq = f.seq
         /\ g.requester = f.requester /\ g.receipt = f.receipt
         /\ g.clean = StaysClean(x, f, f.source # x)
         /\ g.corr = out.frame.corr /\ g.origin = out.frame.origin
         /\ g.twoStep = out.frame.twoStep
<1>1. f \in InEgress(config.mechanism, x) /\ Outcome(out, f, nic[x[1]], x[1])
  BY FirstOut DEF Sends
<1>2. f \in FrameT
  BY <1>1, OnWireOnPort
<1>3. PICK h \in FrameT : h = out.frame /\ SameFrame(h, f)
  BY <1>1 DEF Outcome, OutT
<1>4. PICK c \in BOOLEAN : c = StaysClean(x, f, f.source # x)
  BY DEF StaysClean
<1>5. g = [h EXCEPT !.clean = c]
  BY <1>3, <1>4 DEF Sends
<1>6. /\ g \in FrameT /\ g.type = h.type /\ g.source = h.source /\ g.seq = h.seq
      /\ g.requester = h.requester /\ g.receipt = h.receipt /\ g.clean = c
      /\ g.corr = h.corr /\ g.origin = h.origin /\ g.twoStep = h.twoStep
  BY <1>5 DEF FrameT
<1>7. out.nic \in NicT(x[1])
  BY <1>1 DEF Outcome, OutT
<1> QED BY <1>1, <1>2, <1>3, <1>4, <1>6, <1>7 DEF SameFrame

LEMMA SendsAt ==
  ASSUME Typed, NEW x \in Ports, NEW f, NEW out, NEW g, Sends(x, f, out, g),
         NEW e, e = [frame |-> g, left |-> LinkDelay[x]]
  PROVE  /\ egress'[x] = Tail(egress[x]) /\ wire'[x] = Append(wire[x], e)
         /\ nic'[x[1]] = out.nic
         /\ \A q \in Ports : q # x => egress'[q] = egress[q] /\ wire'[q] = wire[q]
         /\ \A q \in Ports : q[1] # x[1] => nic'[q[1]] = nic[q[1]]
<1>1. egress \in [Ports -> Seq(FrameT)] /\ wire \in [Ports -> Seq(WireT)]
  BY DEF Typed, EgressTyping, WireTyping
<1>2. nic = [n \in Nodes |-> nic[n]] /\ nic' = [nic EXCEPT ![x[1]] = out.nic]
  BY DEF Typed, NicTyped, Sends
<1>3. nic'[x[1]] = out.nic /\ \A q \in Ports : q[1] # x[1] => nic'[q[1]] = nic[q[1]]
  BY <1>2, PortTypes
<1>4. egress' = [egress EXCEPT ![x] = Tail(@)] /\ wire' = [wire EXCEPT ![x] = Append(@, e)]
  BY DEF Sends
<1> QED BY <1>1, <1>3, <1>4

\* The peer delay frames that leave x are its own.
LEMMA OwnPeers ==
  ASSUME NEW m, NEW x \in Ports, NEW f \in InEgress(m, x), f.type \in PDelays
  PROVE  f.source = x /\ m = "P2P" /\ (f.type # "PDELAY_REQ" => f.requester = Peer[x])
BY DEF InEgress, OnWire, LeavesBy, Genuine, PDelays

TablesWork(tab, ctl, f) ==
  /\ Works(ctl.pdelayReqResp, tab.pdelayReqResp, Asker(f), f.seq)
  /\ Works(ctl.pdelayRespFu, tab.pdelayRespFu, Asker(f), f.seq)

LEMMA SendsTables ==
  ASSUME Typed, NEW x \in Ports, NEW f, NEW out, NEW g, Sends(x, f, out, g)
  PROVE  /\ f.type \in PDelays => TablesWork(out.nic, nic[x[1]], f)
         /\ f.type \notin PDelays => SamePeers(out.nic, nic[x[1]])
<1>1. f \in InEgress(config.mechanism, x) /\ f \in FrameT
  BY SendsFrame
<1>2. PICK two \in BOOLEAN, clk \in TimeT, ctl \in NicT(x[1]) :
        /\ two = config.twoStep[x[1]] /\ clk = Reading(x[1]) /\ ctl = nic[x[1]]
  BY PortTypes, MacIs, ReadingTyped
<1>3. PICK m : m = config.mechanism
  OBVIOUS
<1>4. out = HandleEgress(MacOf(m, two, x), ctl, f, clk)
  BY <1>2, <1>3, MacIs DEF Sends
<1>5. f.type \notin PDelays => SamePeers(out.nic, ctl)
  BY <1>1, <1>4, PlainSent
<1>6. ASSUME f.type \in PDelays PROVE TablesWork(out.nic, ctl, f)
  <2>1. f.source = x
    BY <1>1, <1>6, OwnPeers
  <2>2. clk.time \in Int
    BY DEF TimeT
  <2>3. CASE f.type = "PDELAY_REQ"
    <3>1. out.nic.pdelayReqResp = Append(ctl.pdelayReqResp, Entry(x, f.seq, clk.time))
      BY <1>1, <1>4, <2>1, <2>3, RequestSent
    <3>2. out.nic.pdelayRespFu = ctl.pdelayRespFu
      BY <1>1, <1>4, <2>1, <2>3, RequestSent
    <3>3. Asker(f) = x
      BY <2>1, <2>3 DEF Asker
    <3> QED BY <2>2, <3>1, <3>3, <3>2 DEF TablesWork, Works
  <2>4. CASE f.type = "PDELAY_RESP"
    <3>1. PICK r, Q : /\ r = Result(ctl.pdelayRespFu, f.requester, f.seq)
                      /\ Q = Rest(ctl.pdelayRespFu, f.requester, f.seq)
      OBVIOUS
    <3>2. out.nic.pdelayReqResp = ctl.pdelayReqResp
      BY <1>1, <1>4, <2>1, <2>4, ResponseSent
    <3>3. /\ ~r.valid => out.nic.pdelayRespFu = Q
          /\ r.valid /\ two =>
               out.nic.pdelayRespFu = Append(Q, Entry(f.requester, f.seq, clk.time - r.time))
          /\ r.valid /\ ~two => out.nic.pdelayRespFu = Q
      BY <1>1, <1>4, <2>1, <2>4, <3>1, ResponseSent
    <3>4. Asker(f) = f.requester
      BY <2>4 DEF Asker
    <3>5. r.time \in Int
      <4>1. ctl.pdelayRespFu \in Seq(EntryT) /\ \A e \in EntryT : e.time \in Int
        BY DEF NicT, EntryT
      <4> QED BY <3>1, <4>1, PopTyped
    <3>6. PICK u \in Int : u = clk.time - r.time
      BY <2>2, <3>5
    <3> QED BY <3>1, <3>2, <3>3, <3>4, <3>6 DEF TablesWork, Works
  <2>5. CASE f.type = "PDELAY_RESP_FU"
    <3>1. /\ out.nic.pdelayReqResp = ctl.pdelayReqResp
          /\ out.nic.pdelayRespFu = Rest(ctl.pdelayRespFu, f.requester, f.seq)
      BY <1>1, <1>4, <2>1, <2>5, FollowUpSent
    <3>2. Asker(f) = f.requester
      BY <2>5 DEF Asker
    <3> QED BY <3>1, <3>2 DEF TablesWork, Works
  <2> QED BY <1>6, <2>3, <2>4, <2>5 DEF PDelays
<1> QED BY <1>2, <1>5, <1>6

\* The tables keep what they know of the request of p if f does not belong to it.
TablesSpare(tab, ctl, p, k) ==
  /\ Spares(ctl.pdelayReqResp, tab.pdelayReqResp, p, k)
  /\ Spares(ctl.pdelayRespFu, tab.pdelayRespFu, p, k)

LEMMA TablesSpared ==
  ASSUME Typed, Young, NEW n, NEW ctl \in NicT(n), NEW tab, NEW f \in Known(pdelay),
         \/ f.type \in PDelays /\ TablesWork(tab, ctl, f)
         \/ SamePeers(tab, ctl),
         NEW p \in Ports, f \notin Live(p, View(p))
  PROVE  TablesSpare(tab, ctl, p, pdelay[p].requSequId)
<1>1. PICK s \in [Ports -> PDelayT] : s = pdelay
  BY DEF Typed, ServicesTyped
<1>2. PICK k \in Nat : k = s[p].requSequId
  BY <1>1 DEF PDelayT
<1>3. CASE SamePeers(tab, ctl)
  BY <1>3, SparesSelf DEF SamePeers, TablesSpare
<1>4. CASE f.type \in PDelays /\ TablesWork(tab, ctl, f)
  <2>1. f \in FrameT /\ f.seq \in Nat /\ Asker(f) \in PortOrNone
    BY AskerTyped DEF Known, FrameT
  <2>2. PICK v : v = View(p) /\ v.service = s[p]
    BY <1>1, ViewIs
  <2>3. Asker(f) # p \/ f.seq # k
    BY <1>2, <1>4, <2>1, <2>2, LiveIs
  <2>4. Asker(f) # p \/ f.seq < k
    <3>1. Numbered(s[p])
      BY <1>1 DEF Young
    <3>2. f \in Known(s)
      BY <1>1
    <3> QED BY <1>2, <1>4, <2>3, <3>1, <3>2, KnownIsOld
  <2>5. ctl.pdelayReqResp \in Seq(EntryT) /\ ctl.pdelayRespFu \in Seq(EntryT)
    BY DEF NicT
  <2>6. Spares(ctl.pdelayReqResp, tab.pdelayReqResp, p, k)
    BY <1>2, <1>4, <2>1, <2>4, <2>5, WorksSpares DEF TablesWork
  <2>7. Spares(ctl.pdelayRespFu, tab.pdelayRespFu, p, k)
    BY <1>2, <1>4, <2>1, <2>4, <2>5, WorksSpares DEF TablesWork
  <2> QED BY <1>1, <1>2, <2>6, <2>7 DEF TablesSpare
<1> QED BY <1>3, <1>4

LEMMA TablesKnown ==
  ASSUME NEW s \in [Ports -> PDelayT], NEW ctl, NEW tab, NEW f \in Known(s),
         \/ f.type \in PDelays /\ TablesWork(tab, ctl, f)
         \/ SamePeers(tab, ctl),
         ctl.pdelayReqResp \in Seq(KnownEntries(s)), ctl.pdelayRespFu \in Seq(KnownEntries(s))
  PROVE  /\ tab.pdelayReqResp \in Seq(KnownEntries(s))
         /\ tab.pdelayRespFu \in Seq(KnownEntries(s))
<1>1. CASE SamePeers(tab, ctl)
  BY <1>1 DEF SamePeers
<1>2. CASE f.type \in PDelays /\ TablesWork(tab, ctl, f)
  <2>1. \A t \in Int : Entry(Asker(f), f.seq, t) \in KnownEntries(s)
    BY <1>2, KnownEntry
  <2> QED BY <1>2, <2>1, WorksOn DEF TablesWork
<1> QED BY <1>1, <1>2

\* If every node keeps what its tables know of the request of p, so do p and its peer.
LEMMA SparedAt ==
  ASSUME NEW p \in Ports, NEW k, \A q \in Ports : TablesSpare(nic'[q[1]], nic[q[1]], p, k)
  PROVE  SparesTables(p, k)
BY PortTypes DEF TablesSpare, SparesTables

LEMMA TablesSpareSelf == \A ctl, p, k : TablesSpare(ctl, ctl, p, k)
BY SparesSelf DEF TablesSpare

LEMMA FirstKnown ==
  ASSUME NEW s, NEW Q \in Seq(Known(s)), Q # <<>>
  PROVE  Head(Q) \in Known(s) /\ Tail(Q) \in Seq(Known(s))
OBVIOUS

LEMMA SendsBeside ==
  ASSUME Typed, Young, NEW x \in Ports, NEW f, NEW out, NEW g, Sends(x, f, out, g),
         NEW p \in Ports, f \notin Live(p, View(p))
  PROVE  Undisturbed(p)
<1>1. /\ f \in FrameT /\ g \in FrameT /\ f.type = g.type /\ Asker(f) = Asker(g) /\ f.seq = g.seq
  BY SendsFrame DEF Asker
<1>2. PICK L : L = Live(p, View(p))
  OBVIOUS
<1>3. g \notin L /\ f \notin L
  BY <1>1, <1>2, LiveIs
<1>4. f \in Known(pdelay)
  BY FirstKnown DEF Young, QueuesKnown, Sends
<1>5. PICK e \in WireT : e = [frame |-> g, left |-> LinkDelay[x]]
  BY <1>1, NetworkAssumption DEF WireT
<1>6. /\ egress'[x] = Tail(egress[x]) /\ wire'[x] = Append(wire[x], e)
      /\ nic'[x[1]] = out.nic
      /\ \A q \in Ports : q # x => egress'[q] = egress[q] /\ wire'[q] = wire[q]
      /\ \A q \in Ports : q[1] # x[1] => nic'[q[1]] = nic[q[1]]
  BY <1>5, SendsAt
<1>7. ASSUME NEW q \in Ports PROVE QueuesFit(q, L)
  <2>1. PICK Q \in Seq(FrameT), I \in Seq(FrameT), W \in Seq(WireT) :
          Q = egress[q] /\ I = ingress[q] /\ W = wire[q]
    BY DEF Typed, EgressTyping, IngressTyping, WireTyping
  <2>2. Thinner(ingress'[q], I, FrameT, L)
    BY <2>1, ThinnerSelf DEF Sends
  <2>3. CASE q # x
    BY <1>6, <2>1, <2>2, <2>3, FirmSelf, ThinnerSelf DEF QueuesFit
  <2>4. CASE q = x
    <3>1. Q # <<>> /\ Head(Q) = f /\ egress'[q] = Tail(Q) /\ wire'[q] = Append(W, e)
      BY <1>6, <2>1, <2>4 DEF Sends
    <3>2. e \notin Aboard(L)
      BY <1>3, <1>5 DEF Aboard
    <3>3. Q # <<>> /\ Head(Q) \notin L
      BY <1>3, <3>1
    <3>4. Firm(Tail(Q), Q, FrameT, L)
      BY <3>3, FirmTail
    <3>5. Thinner(Append(W, e), W, WireT, Aboard(L))
      BY <1>5, <3>2, ThinnerMore
    <3> QED BY <2>1, <2>2, <3>1, <3>4, <3>5 DEF QueuesFit
  <2> QED BY <2>3, <2>4
<1>8. SparesTables(p, pdelay[p].requSequId)
  <2>1. PICK k : k = pdelay[p].requSequId
    OBVIOUS
  <2>2. ASSUME NEW q \in Ports PROVE TablesSpare(nic'[q[1]], nic[q[1]], p, k)
    <3>1. CASE q[1] # x[1]
      BY <1>6, <3>1, TablesSpareSelf
    <3>2. CASE q[1] = x[1]
      <4>1. PICK ctl \in NicT(x[1]) : ctl = nic[x[1]]
        BY MacIs
      <4>2. PICK tab : tab = out.nic
        OBVIOUS
      <4>3. \/ f.type \in PDelays /\ TablesWork(tab, ctl, f)
            \/ SamePeers(tab, ctl)
        BY <4>1, <4>2, SendsTables
      <4>4. TablesSpare(tab, ctl, p, k)
        BY <1>4, <2>1, <4>3, TablesSpared
      <4> QED BY <1>6, <3>2, <4>1, <4>4, <4>2
    <3> QED BY <3>1, <3>2
  <2> QED BY <2>1, <2>2, SparedAt
<1>9. Moves(clock[Peer[p][1]], clock'[Peer[p][1]])
  BY DEF Moves, Sends
<1>10. QueuesFit(p, L) /\ QueuesFit(Peer[p], L)
  BY <1>7, PortTypes
<1>11. config' = config /\ now' = now /\ clock'[p[1]] = clock[p[1]] /\ pdelay'[p] = pdelay[p]
  BY DEF Sends
<1> QED BY <1>2, <1>8, <1>9, <1>10, <1>11 DEF Undisturbed

LEMMA SendsKnown ==
  ASSUME Typed, NEW s \in [Ports -> PDelayT], QueuesKnown(s), NEW x \in Ports,
         NEW f, NEW out, NEW g, Sends(x, f, out, g)
  PROVE  QueuesKnown(s)'
<1>1. SUFFICES ASSUME NEW q \in Ports
               PROVE  /\ egress'[q] \in Seq(Known(s)) /\ ingress'[q] \in Seq(Known(s))
                      /\ wire'[q] \in Seq(Aboard(Known(s)))
                      /\ nic'[q[1]].pdelayReqResp \in Seq(KnownEntries(s))
                      /\ nic'[q[1]].pdelayRespFu \in Seq(KnownEntries(s))
  BY DEF QueuesKnown
<1>2. /\ f \in FrameT /\ g \in FrameT /\ f.type = g.type /\ Asker(f) = Asker(g) /\ f.seq = g.seq
  BY SendsFrame DEF Asker
<1>3. PICK K : K = Known(s)
  OBVIOUS
<1>4. /\ egress[q] \in Seq(K) /\ ingress[q] \in Seq(K)
      /\ wire[q] \in Seq(Aboard(K)) /\ egress[x] \in Seq(K)
  BY <1>3 DEF QueuesKnown
<1>5. f \in K
  BY <1>3, <1>4, FirstKnown DEF Sends
<1>6. g \in K
  BY <1>2, <1>3, <1>5 DEF Known
<1>7. PICK e \in Aboard(K) : e = [frame |-> g, left |-> LinkDelay[x]]
  <2>1. [frame |-> g, left |-> LinkDelay[x]] \in WireT
    BY <1>2, NetworkAssumption DEF WireT
  <2> QED BY <1>6, <2>1 DEF Aboard
<1>8. /\ egress'[x] = Tail(egress[x]) /\ wire'[x] = Append(wire[x], e)
      /\ nic'[x[1]] = out.nic
      /\ \A p \in Ports : p # x => egress'[p] = egress[p] /\ wire'[p] = wire[p]
      /\ \A p \in Ports : p[1] # x[1] => nic'[p[1]] = nic[p[1]]
  BY <1>7, SendsAt
<1>9. egress'[q] \in Seq(K)
  <2>1. q = x => egress[q] # <<>>
    BY DEF Sends
  <2>2. PICK Q \in Seq(K) : Q = egress[q]
    BY <1>4
  <2>3. Q # <<>> => Tail(Q) \in Seq(K)
    OBVIOUS
  <2> QED BY <1>8, <2>1, <2>2, <2>3
<1>10. wire'[q] \in Seq(Aboard(K))
  <2>1. PICK W \in Seq(Aboard(K)) : W = wire[q]
    BY <1>4
  <2>2. Append(W, e) \in Seq(Aboard(K))
    OBVIOUS
  <2> QED BY <1>8, <2>1, <2>2
<1>11. ingress'[q] \in Seq(K)
  BY <1>4 DEF Sends
<1>12. /\ nic'[q[1]].pdelayReqResp \in Seq(KnownEntries(s))
       /\ nic'[q[1]].pdelayRespFu \in Seq(KnownEntries(s))
  <2>1. CASE q[1] # x[1]
    BY <1>8, <2>1 DEF QueuesKnown
  <2>2. CASE q[1] = x[1]
    <3>1. PICK ctl, tab : ctl = nic[x[1]] /\ tab = out.nic
      OBVIOUS
    <3>2. \/ f.type \in PDelays /\ TablesWork(tab, ctl, f)
          \/ SamePeers(tab, ctl)
      BY <3>1, SendsTables
    <3>3. /\ ctl.pdelayReqResp \in Seq(KnownEntries(s))
          /\ ctl.pdelayRespFu \in Seq(KnownEntries(s))
      BY <3>1 DEF QueuesKnown
    <3>4. /\ tab.pdelayReqResp \in Seq(KnownEntries(s))
          /\ tab.pdelayRespFu \in Seq(KnownEntries(s))
      BY <1>3, <1>5, <3>2, <3>3, TablesKnown
    <3> QED BY <1>8, <2>2, <3>1, <3>4
  <2> QED BY <2>1, <2>2
<1> QED BY <1>3, <1>9, <1>10, <1>11, <1>12

LEMMA PeerApart ==
  ASSUME NEW p \in Ports
  PROVE  Peer[p] \in Ports /\ Peer[Peer[p]] = p /\ Peer[p] # p /\ Peer[p][1] # p[1]
BY NetworkAssumption DEF NetworkAssumption

LEMMA SameService ==
  ASSUME Young, NEW p \in Ports, pdelay'[p] = pdelay[p], \E h \in CourseT : Course(p, View(p)', h)
  PROVE  GoesOn(p)
BY DEF Young, Numbered, GoesOn

\* What the two ends of its link see when x sends.
LEMMA SendsOut ==
  ASSUME Typed, NEW x \in Ports, NEW f, NEW out, NEW g, Sends(x, f, out, g),
         NEW e, e = [frame |-> g, left |-> LinkDelay[x]],
         NEW v, v = View(x), NEW w, w = View(x)'
  PROVE  /\ v.out # <<>> /\ f = Head(v.out) /\ w.out = Tail(v.out) /\ w.on = Append(v.on, e)
         /\ v.asked = nic[x[1]].pdelayReqResp /\ w.asked = out.nic.pdelayReqResp
         /\ w.peerIn = v.peerIn /\ w.peerOut = v.peerOut /\ w.peerOn = v.peerOn
         /\ w.in = v.in /\ w.held = v.held /\ w.peerClock = v.peerClock
         /\ w.service = v.service /\ w.twoStep = v.twoStep /\ w.clock = v.clock
         /\ w.now = v.now /\ v.now = now /\ v.clock = clock[x[1]]
<1>1. PICK y \in Ports : y = Peer[x] /\ y # x /\ y[1] # x[1]
  BY PeerApart
<1>2. /\ egress'[x] = Tail(egress[x]) /\ wire'[x] = Append(wire[x], e)
      /\ nic'[x[1]] = out.nic
      /\ egress'[y] = egress[y] /\ wire'[y] = wire[y] /\ nic'[y[1]] = nic[y[1]]
  BY <1>1, SendsAt
<1>3. /\ v.twoStep = config.twoStep[y[1]] /\ v.now = now
      /\ v.clock = clock[x[1]] /\ v.peerClock = clock[y[1]] /\ v.service = pdelay[x]
      /\ v.asked = nic[x[1]].pdelayReqResp /\ v.held = nic[y[1]].pdelayRespFu
      /\ v.out = egress[x] /\ v.on = wire[x] /\ v.in = ingress[x]
      /\ v.peerOut = egress[y] /\ v.peerOn = wire[y] /\ v.peerIn = ingress[y]
  BY <1>1, ViewIs
<1>4. /\ w.twoStep = config'.twoStep[y[1]] /\ w.now = now'
      /\ w.clock = clock'[x[1]] /\ w.peerClock = clock'[y[1]] /\ w.service = pdelay'[x]
      /\ w.asked = nic'[x[1]].pdelayReqResp /\ w.held = nic'[y[1]].pdelayRespFu
      /\ w.out = egress'[x] /\ w.on = wire'[x] /\ w.in = ingress'[x]
      /\ w.peerOut = egress'[y] /\ w.peerOn = wire'[y] /\ w.peerIn = ingress'[y]
  BY <1>1, NextViewIs
<1> QED BY <1>2, <1>3, <1>4 DEF Sends

LEMMA SendsBack ==
  ASSUME Typed, NEW x \in Ports, NEW f, NEW out, NEW g, Sends(x, f, out, g),
         NEW e, e = [frame |-> g, left |-> LinkDelay[x]], NEW p, p = Peer[x],
         NEW v, v = View(p), NEW w, w = View(p)'
  PROVE  /\ v.peerOut # <<>> /\ f = Head(v.peerOut) /\ w.peerOut = Tail(v.peerOut)
         /\ w.peerOn = Append(v.peerOn, e)
         /\ v.held = nic[x[1]].pdelayRespFu /\ w.held = out.nic.pdelayRespFu
         /\ w.on = v.on /\ w.out = v.out /\ w.peerIn = v.peerIn /\ w.in = v.in
         /\ w.asked = v.asked /\ w.peerClock = v.peerClock /\ w.service = v.service
         /\ w.twoStep = v.twoStep /\ w.clock = v.clock /\ w.now = v.now
         /\ v.now = now /\ v.peerClock = clock[x[1]] /\ v.twoStep = config.twoStep[x[1]]
<1>1. p \in Ports /\ Peer[p] = x /\ p # x /\ p[1] # x[1]
  BY PeerApart
<1>2. /\ egress'[x] = Tail(egress[x]) /\ wire'[x] = Append(wire[x], e)
      /\ nic'[x[1]] = out.nic
      /\ egress'[p] = egress[p] /\ wire'[p] = wire[p] /\ nic'[p[1]] = nic[p[1]]
  BY <1>1, SendsAt
<1>3. /\ v.twoStep = config.twoStep[x[1]] /\ v.now = now
      /\ v.clock = clock[p[1]] /\ v.peerClock = clock[x[1]] /\ v.service = pdelay[p]
      /\ v.asked = nic[p[1]].pdelayReqResp /\ v.held = nic[x[1]].pdelayRespFu
      /\ v.out = egress[p] /\ v.on = wire[p] /\ v.in = ingress[p]
      /\ v.peerOut = egress[x] /\ v.peerOn = wire[x] /\ v.peerIn = ingress[x]
  BY <1>1, ViewIs
<1>4. /\ w.twoStep = config'.twoStep[x[1]] /\ w.now = now'
      /\ w.clock = clock'[p[1]] /\ w.peerClock = clock'[x[1]] /\ w.service = pdelay'[p]
      /\ w.asked = nic'[p[1]].pdelayReqResp /\ w.held = nic'[x[1]].pdelayRespFu
      /\ w.out = egress'[p] /\ w.on = wire'[p] /\ w.in = ingress'[p]
      /\ w.peerOut = egress'[x] /\ w.peerOn = wire'[x] /\ w.peerIn = ingress'[x]
  BY <1>1, NextViewIs
<1> QED BY <1>2, <1>3, <1>4 DEF Sends

\* The MAC of x as the handlers see it.
LEMMA SendsBy ==
  ASSUME Typed, NEW x \in Ports, NEW f, NEW out, NEW g, Sends(x, f, out, g)
  PROVE  \E m : \E two \in BOOLEAN, clk \in TimeT, ctl \in NicT(x[1]) :
           /\ two = config.twoStep[x[1]] /\ clk = Reading(x[1]) /\ ctl = nic[x[1]]
           /\ out = HandleEgress(MacOf(m, two, x), ctl, f, clk)
           /\ ctl.asymmetry[x] = Asymmetry[x]
<1>1. /\ config.twoStep[x[1]] \in BOOLEAN /\ Reading(x[1]) \in TimeT /\ nic[x[1]] \in NicT(x[1])
      /\ Mac(x) = MacOf(config.mechanism, config.twoStep[x[1]], x)
  BY PortTypes, MacIs, ReadingTyped
<1>2. nic[x[1]].asymmetry[x] = Asymmetry[x]
  BY PortTypes DEF Typed, NicTyped
<1>3. out = HandleEgress(Mac(x), nic[x[1]], f, Reading(x[1]))
  BY DEF Sends
<1>4. PICK m : m = config.mechanism
  OBVIOUS
<1>5. PICK two \in BOOLEAN, clk \in TimeT, ctl \in NicT(x[1]) :
        two = config.twoStep[x[1]] /\ clk = Reading(x[1]) /\ ctl = nic[x[1]]
  BY <1>1
<1>6. out = HandleEgress(MacOf(m, two, x), ctl, f, clk) /\ ctl.asymmetry[x] = Asymmetry[x]
  BY <1>1, <1>2, <1>3, <1>4, <1>5
<1> QED BY <1>5, <1>6

LEMMA RequestGoesOn ==
  ASSUME Typed, Typed', Tracked, Young, NEW x \in Ports, NEW f, NEW out, NEW g,
         Sends(x, f, out, g), f \in Live(x, View(x)), f.type = "PDELAY_REQ"
  PROVE  GoesOn(x)
<1>1. PICK v \in ViewT : v = View(x)
  BY ViewTyped
<1>2. PICK w \in ViewT : w = View(x)'
  BY NextViewTyped
<1>3. PICK h \in CourseT : Course(x, v, h)
  BY <1>1 DEF Tracked
<1>4. /\ f \in FrameT /\ g \in FrameT /\ g.type = f.type /\ g.source = f.source
      /\ g.seq = f.seq /\ g.clean = StaysClean(x, f, f.source # x)
      /\ g.corr = out.frame.corr
  BY SendsFrame
<1>5. PICK k : k = v.service.requSequId
  OBVIOUS
<1>6. f \in RequestOf(x, k)
  <2>1. f \in Live(x, v)
    BY <1>1
  <2> QED BY <1>4, <1>5, <2>1, LiveIs DEF RequestOf, Asker
<1>7. PICK e : e = [frame |-> g, left |-> LinkDelay[x]]
  OBVIOUS
<1>8. /\ v.out # <<>> /\ f = Head(v.out) /\ w.out = Tail(v.out) /\ w.on = Append(v.on, e)
      /\ v.asked = nic[x[1]].pdelayReqResp /\ w.asked = out.nic.pdelayReqResp
      /\ w.peerIn = v.peerIn /\ w.peerOut = v.peerOut /\ w.peerOn = v.peerOn
      /\ w.in = v.in /\ w.held = v.held /\ w.peerClock = v.peerClock
      /\ w.service = v.service /\ w.twoStep = v.twoStep /\ w.clock = v.clock
      /\ w.now = v.now /\ v.now = now /\ v.clock = clock[x[1]]
  BY <1>1, <1>2, <1>7, SendsOut
<1>9. PICK m : \E two \in BOOLEAN, clk \in TimeT, ctl \in NicT(x[1]) :
        /\ two = config.twoStep[x[1]] /\ clk = Reading(x[1]) /\ ctl = nic[x[1]]
        /\ out = HandleEgress(MacOf(m, two, x), ctl, f, clk)
        /\ ctl.asymmetry[x] = Asymmetry[x]
  BY SendsBy
<1>10. PICK two \in BOOLEAN, clk \in TimeT, ctl \in NicT(x[1]) :
        /\ two = config.twoStep[x[1]] /\ clk = Reading(x[1]) /\ ctl = nic[x[1]]
        /\ out = HandleEgress(MacOf(m, two, x), ctl, f, clk)
        /\ ctl.asymmetry[x] = Asymmetry[x]
  BY <1>9
<1>11. f.source = x /\ f.seq = k
  BY <1>6 DEF RequestOf
<1>12. /\ out.frame.corr = f.corr - Asymmetry[x]
       /\ out.nic.pdelayReqResp = Append(ctl.pdelayReqResp, Entry(x, k, clk.time))
  <2>1. /\ out.frame.corr = f.corr - ctl.asymmetry[x]
        /\ out.nic.pdelayReqResp = Append(ctl.pdelayReqResp, Entry(x, f.seq, clk.time))
    <3>1. f \in FrameT /\ f.type = "PDELAY_REQ" /\ f.source = x
      BY <1>4, <1>11
    <3>2. out = HandleEgress(MacOf(m, two, x), ctl, f, clk)
      BY <1>10
    <3> QED BY <3>1, <3>2, RequestSent
  <2>2. ctl.asymmetry[x] = Asymmetry[x] /\ f.seq = k
    BY <1>10, <1>11
  <2> QED BY <2>1, <2>2
<1>13. clk.time = w.now + w.clock.offset
  BY <1>8, <1>10 DEF Reading
<1>14. g \in RequestOf(x, k)
  BY <1>4, <1>6 DEF RequestOf
<1>15. g.clean = f.clean
  <2>1. StaysClean(x, f, f.source # x) <=> f.clean
    BY <1>11 DEF StaysClean
  <2>2. f.clean \in BOOLEAN /\ g.clean \in BOOLEAN
    BY <1>4 DEF FrameT
  <2> QED BY <1>4, <2>1, <2>2
<1>16. w.asked = Append(v.asked, Entry(x, k, w.now + w.clock.offset))
  BY <1>8, <1>10, <1>12, <1>13
<1>17. \E j \in CourseT : Course(x, w, j)
  <2>1. Head(v.out) \in RequestOf(x, k) /\ g.clean = Head(v.out).clean
        /\ g.corr = Head(v.out).corr - Asymmetry[x]
    BY <1>4, <1>6, <1>8, <1>12, <1>15
  <2>2. w.on = Append(v.on, [frame |-> g, left |-> LinkDelay[x]])
    BY <1>7, <1>8
  <2>3. k = w.service.requSequId
    BY <1>5, <1>8
  <2> QED BY <1>3, <1>5, <1>8, <1>14, <1>16, <2>1, <2>2, <2>3, RequestLeaves
<1> QED BY <1>2, <1>17, SameService DEF Sends

LEMMA ResponseGoesOn ==
  ASSUME Typed, Typed', Tracked, Young, NEW x \in Ports, NEW f, NEW out, NEW g,
         Sends(x, f, out, g), NEW p, p = Peer[x], f \in Live(p, View(p)),
         f.type = "PDELAY_RESP", f.source = x
  PROVE  GoesOn(p)
<1>1. p \in Ports /\ Peer[p] = x
  BY PeerApart
<1>2. PICK v \in ViewT : v = View(p)
  BY <1>1, ViewTyped
<1>3. PICK w \in ViewT : w = View(p)'
  BY <1>1, NextViewTyped
<1>4. PICK h \in CourseT : Course(p, v, h)
  BY <1>1, <1>2 DEF Tracked
<1>5. /\ f \in FrameT /\ g \in FrameT /\ g.type = f.type /\ g.seq = f.seq
      /\ g.requester = f.requester /\ g.receipt = f.receipt
      /\ g.clean = StaysClean(x, f, f.source # x)
      /\ g.corr = out.frame.corr /\ g.twoStep = out.frame.twoStep
  BY SendsFrame
<1>6. PICK k : k = v.service.requSequId
  OBVIOUS
<1>7. f \in ResponseTo(p, k)
  <2>1. f \in Live(p, v)
    BY <1>2
  <2> QED BY <1>5, <1>6, <2>1, LiveIs DEF ResponseTo, Asker
<1>8. PICK e : e = [frame |-> g, left |-> LinkDelay[x]]
  OBVIOUS
<1>9. /\ v.peerOut # <<>> /\ f = Head(v.peerOut) /\ w.peerOut = Tail(v.peerOut)
      /\ w.peerOn = Append(v.peerOn, e)
      /\ v.held = nic[x[1]].pdelayRespFu /\ w.held = out.nic.pdelayRespFu
      /\ w.on = v.on /\ w.out = v.out /\ w.peerIn = v.peerIn /\ w.in = v.in
      /\ w.asked = v.asked /\ w.peerClock = v.peerClock /\ w.service = v.service
      /\ w.twoStep = v.twoStep /\ w.clock = v.clock /\ w.now = v.now
      /\ v.now = now /\ v.peerClock = clock[x[1]] /\ v.twoStep = config.twoStep[x[1]]
  BY <1>2, <1>3, <1>8, SendsBack
<1>10. PICK m : \E two \in BOOLEAN, clk \in TimeT, ctl \in NicT(x[1]) :
        /\ two = config.twoStep[x[1]] /\ clk = Reading(x[1]) /\ ctl = nic[x[1]]
        /\ out = HandleEgress(MacOf(m, two, x), ctl, f, clk)
        /\ ctl.asymmetry[x] = Asymmetry[x]
  BY SendsBy
<1>11. PICK two \in BOOLEAN, clk \in TimeT, ctl \in NicT(x[1]) :
        /\ two = config.twoStep[x[1]] /\ clk = Reading(x[1]) /\ ctl = nic[x[1]]
        /\ out = HandleEgress(MacOf(m, two, x), ctl, f, clk)
  BY <1>10
<1>12. f.requester = p /\ f.seq = k
  BY <1>7 DEF ResponseTo
<1>13. PICK r, Q : r = Result(ctl.pdelayRespFu, p, k) /\ Q = Rest(ctl.pdelayRespFu, p, k)
  OBVIOUS
<1>14. /\ out.frame.twoStep = f.twoStep
       /\ r.valid /\ two => /\ out.frame = f
                            /\ out.nic.pdelayRespFu = Append(Q, Entry(p, k, clk.time - r.time))
       /\ r.valid /\ ~two => out.frame = AddCorrection(f, clk.time - r.time)
  BY <1>5, <1>11, <1>12, <1>13, ResponseSent
<1>15. clk.time = v.now + v.peerClock.offset /\ clk.time \in Int
  BY <1>9, <1>11 DEF Reading, TimeT
<1>16. g \in ResponseTo(p, k)
  BY <1>5, <1>7 DEF ResponseTo
<1>17. g.clean <=> f.clean /\ f.epoch = v.peerClock.epoch
  <2>1. StaysClean(x, f, f.source # x) <=> f.clean /\ f.epoch = clock[x[1]].epoch
    BY <1>5 DEF StaysClean
  <2> QED BY <1>5, <1>9, <2>1
<1>18. ASSUME NEW t \in Int, r = [valid |-> TRUE, time |-> t]
       PROVE  /\ two => /\ g.corr = f.corr
                        /\ w.held = Append(Q, Entry(p, k, v.now + v.peerClock.offset - t))
              /\ ~two => g.corr = f.corr + (v.now + v.peerClock.offset - t)
  <2>1. r.valid /\ r.time = t
    BY <1>18
  <2>2. PICK c \in Int : c = clk.time - t /\ c = v.now + v.peerClock.offset - t
    <3>1. v.now \in Int /\ v.peerClock.offset \in Int
      BY DEF ViewT
    <3> QED BY <1>15, <3>1
  <2>3. ASSUME two PROVE out.frame = f /\ out.nic.pdelayRespFu = Append(Q, Entry(p, k, c))
    BY <1>14, <2>1, <2>2, <2>3
  <2>4. ASSUME ~two PROVE out.frame.corr = f.corr + c
    <3>1. out.frame = AddCorrection(f, c)
      BY <1>14, <2>1, <2>2, <2>4
    <3> QED BY <1>5, <3>1, Corrects
  <2> QED BY <1>5, <1>9, <2>2, <2>3, <2>4
<1>19. \E j \in CourseT : Course(p, w, j)
  <2>1. /\ Head(v.peerOut) \in ResponseTo(p, k) /\ g.receipt = Head(v.peerOut).receipt
        /\ g.clean <=> Head(v.peerOut).clean /\ Head(v.peerOut).epoch = v.peerClock.epoch
        /\ g.twoStep = Head(v.peerOut).twoStep
    BY <1>5, <1>7, <1>9, <1>14, <1>17
  <2>2. w.peerOn = Append(v.peerOn, [frame |-> g, left |-> LinkDelay[Peer[p]]])
    BY <1>1, <1>8, <1>9
  <2>3. v.held = ctl.pdelayRespFu /\ v.twoStep = two
    BY <1>9, <1>11
  <2>4. ASSUME NEW t \in Int, Result(v.held, p, k) = [valid |-> TRUE, time |-> t]
        PROVE IF v.twoStep
              THEN /\ g.corr = Head(v.peerOut).corr
                   /\ w.held = Append(Rest(v.held, p, k),
                                      Entry(p, k, v.now + v.peerClock.offset - t))
              ELSE g.corr = Head(v.peerOut).corr + (v.now + v.peerClock.offset - t)
    <3>1. r = [valid |-> TRUE, time |-> t] /\ Q = Rest(v.held, p, k) /\ Head(v.peerOut) = f
      BY <1>9, <1>13, <2>3, <2>4
    <3> QED BY <1>18, <2>3, <3>1
  <2>5. \A t \in Int : Result(v.held, p, k) = [valid |-> TRUE, time |-> t] =>
          IF v.twoStep
          THEN /\ g.corr = Head(v.peerOut).corr
               /\ w.held = Append(Rest(v.held, p, k),
                                  Entry(p, k, v.now + v.peerClock.offset - t))
          ELSE g.corr = Head(v.peerOut).corr + (v.now + v.peerClock.offset - t)
    BY <2>4
  <2>6. v.peerOut # <<>> /\ w.peerOut = Tail(v.peerOut)
    BY <1>9
  <2>7. /\ w.on = v.on /\ w.out = v.out /\ w.peerIn = v.peerIn /\ w.in = v.in
        /\ w.asked = v.asked /\ w.peerClock = v.peerClock /\ w.service = v.service
        /\ w.twoStep = v.twoStep /\ w.clock = v.clock /\ w.now = v.now
    BY <1>9
  <2> QED BY <1>1, <1>4, <1>6, <1>16, <2>1, <2>2, <2>5, <2>6, <2>7, ResponseLeaves
<1> QED BY <1>1, <1>3, <1>19, SameService DEF Sends

LEMMA FollowUpGoesOn ==
  ASSUME Typed, Typed', Tracked, Young, NEW x \in Ports, NEW f, NEW out, NEW g,
         Sends(x, f, out, g), NEW p, p = Peer[x], f \in Live(p, View(p)),
         f.type = "PDELAY_RESP_FU", f.source = x
  PROVE  GoesOn(p)
<1>1. p \in Ports /\ Peer[p] = x
  BY PeerApart
<1>2. PICK v \in ViewT : v = View(p)
  BY <1>1, ViewTyped
<1>3. PICK w \in ViewT : w = View(p)'
  BY <1>1, NextViewTyped
<1>4. PICK h \in CourseT : Course(p, v, h)
  BY <1>1, <1>2 DEF Tracked
<1>5. /\ f \in FrameT /\ g \in FrameT /\ g.type = f.type /\ g.seq = f.seq
      /\ g.requester = f.requester
      /\ g.corr = out.frame.corr /\ g.origin = out.frame.origin
  BY SendsFrame
<1>6. PICK k : k = v.service.requSequId
  OBVIOUS
<1>7. f \in FollowUpTo(p, k)
  <2>1. f \in Live(p, v)
    BY <1>2
  <2> QED BY <1>5, <1>6, <2>1, LiveIs DEF FollowUpTo, Asker
<1>8. PICK e : e = [frame |-> g, left |-> LinkDelay[x]]
  OBVIOUS
<1>9. /\ v.peerOut # <<>> /\ f = Head(v.peerOut) /\ w.peerOut = Tail(v.peerOut)
      /\ w.peerOn = Append(v.peerOn, e)
      /\ v.held = nic[x[1]].pdelayRespFu
      /\ w.on = v.on /\ w.out = v.out /\ w.peerIn = v.peerIn /\ w.in = v.in
      /\ w.asked = v.asked /\ w.peerClock = v.peerClock /\ w.service = v.service
      /\ w.twoStep = v.twoStep /\ w.clock = v.clock /\ w.now = v.now
  BY <1>2, <1>3, <1>8, SendsBack
<1>10. PICK m : \E two \in BOOLEAN, clk \in TimeT, ctl \in NicT(x[1]) :
        /\ two = config.twoStep[x[1]] /\ clk = Reading(x[1]) /\ ctl = nic[x[1]]
        /\ out = HandleEgress(MacOf(m, two, x), ctl, f, clk)
        /\ ctl.asymmetry[x] = Asymmetry[x]
  BY SendsBy
<1>11. PICK two \in BOOLEAN, clk \in TimeT, ctl \in NicT(x[1]) :
        /\ ctl = nic[x[1]]
        /\ out = HandleEgress(MacOf(m, two, x), ctl, f, clk)
  BY <1>10
<1>12. f.requester = p /\ f.seq = k
  BY <1>7 DEF FollowUpTo
<1>13. /\ out.frame.origin = 0
       /\ out.frame.corr = f.corr + Result(ctl.pdelayRespFu, p, k).time
  BY <1>5, <1>11, <1>12, FollowUpSent
<1>14. g \in FollowUpTo(p, k)
  BY <1>5, <1>7 DEF FollowUpTo
<1>15. \E j \in CourseT : Course(p, w, j)
  <2>1. /\ Head(v.peerOut) \in FollowUpTo(p, k) /\ g.origin = 0
        /\ g.corr = Head(v.peerOut).corr + Result(v.held, p, k).time
    BY <1>5, <1>7, <1>9, <1>11, <1>13
  <2>2. w.peerOn = Append(v.peerOn, [frame |-> g, left |-> LinkDelay[Peer[p]]])
    BY <1>1, <1>8, <1>9
  <2> QED BY <1>1, <1>4, <1>6, <1>9, <1>14, <2>1, <2>2, FollowUpLeaves
<1> QED BY <1>1, <1>3, <1>15, SameService DEF Sends

LEMMA TransmitKeeps ==
  ASSUME Typed, Typed', Tracked, Young, NEW x \in Ports, Transmit(x)
  PROVE  Tracked' /\ Young'
<1>1. PICK f, out, g : Sends(x, f, out, g)
  BY TransmitSends
<1>2. PICK s \in [Ports -> PDelayT] : s = pdelay
  BY DEF Typed, ServicesTyped
<1>3. QueuesKnown(s)'
  BY <1>1, <1>2, SendsKnown DEF Young
<1>4. f \in InEgress(config.mechanism, x) /\ f \in FrameT
  BY <1>1, SendsFrame
<1>5. ASSUME NEW p \in Ports PROVE Undisturbed(p) \/ GoesOn(p)
  <2>1. CASE f \notin Live(p, View(p))
    BY <1>1, <2>1, SendsBeside
  <2>2. CASE f \in Live(p, View(p))
    <3>1. PICK v : v = View(p)
      OBVIOUS
    <3>2. f.type \in PDelays /\ Asker(f) = p
      BY <1>4, <2>2, <3>1, LiveIs
    <3>3. f.source = x /\ (f.type # "PDELAY_REQ" => f.requester = Peer[x])
      BY <1>4, <3>2, OwnPeers
    <3>4. CASE f.type = "PDELAY_REQ"
      <4>1. p = x
        BY <3>2, <3>3, <3>4 DEF Asker
      <4> QED BY <1>1, <2>2, <3>4, <4>1, RequestGoesOn
    <3>5. CASE f.type # "PDELAY_REQ"
      <4>1. p = Peer[x]
        BY <3>2, <3>3, <3>5 DEF Asker
      <4>2. f.type = "PDELAY_RESP" \/ f.type = "PDELAY_RESP_FU"
        BY <3>2, <3>5 DEF PDelays
      <4> QED BY <1>1, <2>2, <3>3, <4>1, <4>2, ResponseGoesOn, FollowUpGoesOn
    <3> QED BY <3>4, <3>5
  <2> QED BY <2>1, <2>2
<1> QED BY <1>2, <1>3, <1>5, StepKeeps

-----------------------------------------------------------------------------
(* A frame arrives, or is lost *)

\* The first frame on the wire to x is taken from it.
Unloads(x) ==
  /\ Arrives(x)
  /\ wire' = [wire EXCEPT ![Peer[x]] = Tail(@)]
  /\ UNCHANGED <<config, now, clock, egress, pdelay, trusted>>

\* x takes it as f and makes out of it.
Takes(x, f, out) ==
  /\ Unloads(x)
  /\ f = [Head(wire[Peer[x]]).frame EXCEPT !.epoch = clock[x[1]].epoch]
  /\ out = HandleIngress(Mac(x), nic[x[1]], f, Reading(x[1]))
  /\ nic' = [nic EXCEPT ![x[1]] = out.nic]
  /\ ingress' = [ingress EXCEPT ![x] = Append(@, out.frame)]
  /\ UNCHANGED <<failed, measure>>

LEMMA ReceiveTakes ==
  ASSUME NEW x, Receive(x)
  PROVE  Unloads(x) /\ (UNCHANGED <<nic, ingress>> \/ \E f, out : Takes(x, f, out))
BY DEF Receive, Unloads, Takes

LEMMA LoseUnloads == ASSUME NEW x, Lose(x) PROVE Unloads(x) /\ UNCHANGED <<nic, ingress>>
BY DEF Lose, Unloads

LEMMA UnloadsAt ==
  ASSUME Typed, NEW x \in Ports, Unloads(x), NEW y, y = Peer[x]
  PROVE  /\ y \in Ports /\ y # x /\ wire[y] \in Seq(WireT) /\ wire[y] # <<>>
         /\ wire'[y] = Tail(wire[y]) /\ Head(wire[y]).left = 0
         /\ \A q \in Ports : q # y => wire'[q] = wire[q]
<1>1. y \in Ports /\ y # x
  BY PeerApart
<1>2. wire \in [Ports -> Seq(WireT)]
  BY DEF Typed, WireTyping
<1>3. wire' = [wire EXCEPT ![y] = Tail(@)]
  BY DEF Unloads
<1> QED BY <1>1, <1>2, <1>3 DEF Unloads, Arrives

LEMMA TakesAt ==
  ASSUME Typed, NEW x \in Ports, NEW f, NEW out, Takes(x, f, out)
  PROVE  /\ ingress'[x] = Append(ingress[x], out.frame) /\ nic'[x[1]] = out.nic
         /\ \A q \in Ports : q # x => ingress'[q] = ingress[q]
         /\ \A q \in Ports : q[1] # x[1] => nic'[q[1]] = nic[q[1]]
<1>1. ingress \in [Ports -> Seq(FrameT)]
  BY DEF Typed, IngressTyping
<1>2. nic = [n \in Nodes |-> nic[n]] /\ nic' = [nic EXCEPT ![x[1]] = out.nic]
  BY DEF Typed, NicTyped, Takes
<1>3. nic'[x[1]] = out.nic /\ \A q \in Ports : q[1] # x[1] => nic'[q[1]] = nic[q[1]]
  BY <1>2, PortTypes
<1>4. ingress' = [ingress EXCEPT ![x] = Append(@, out.frame)]
  BY DEF Takes
<1> QED BY <1>1, <1>3, <1>4

LEMMA TakesFrame ==
  ASSUME Typed, NEW x \in Ports, NEW f, NEW out, Takes(x, f, out),
         NEW a, a = Head(wire[Peer[x]]).frame
  PROVE  /\ f \in OnWire(config.mechanism, Peer[x]) /\ f \in FrameT /\ a \in FrameT
         /\ f.type = a.type /\ f.source = a.source /\ f.seq = a.seq
         /\ f.requester = a.requester /\ f.corr = a.corr /\ f.clean = a.clean
         /\ f.twoStep = a.twoStep /\ f.origin = a.origin /\ f.receipt = a.receipt
         /\ f.epoch = clock[x[1]].epoch
         /\ out.frame \in FrameT /\ Arrived(out.frame, f, x) /\ out.nic \in NicT(x[1])
         /\ nic[x[1]].asymmetry[x] = Asymmetry[x]
<1>1. Arrives(x)
  BY DEF Takes, Unloads
<1>2. /\ f = [a EXCEPT !.epoch = clock[x[1]].epoch]
      /\ out = HandleIngress(Mac(x), nic[x[1]], f, Reading(x[1]))
  BY DEF Takes
<1>3. /\ f \in OnWire(config.mechanism, Peer[x])
      /\ Enters(out, f, x, nic[x[1]]) /\ nic[x[1]].asymmetry[x] = Asymmetry[x]
  BY <1>1, <1>2, FirstIn
<1>4. a \in OnWire(config.mechanism, Peer[x])
  BY <1>1, OnPeersWire
<1>5. clock[x[1]].epoch \in Int
  BY PortTypes DEF Typed, ClocksTyped
<1>6. a \in FrameT /\ f \in FrameT
  BY <1>3, <1>4 DEF OnWire
<1>7. /\ f.type = a.type /\ f.source = a.source /\ f.seq = a.seq
      /\ f.requester = a.requester /\ f.corr = a.corr /\ f.clean = a.clean
      /\ f.twoStep = a.twoStep /\ f.origin = a.origin /\ f.receipt = a.receipt
      /\ f.epoch = clock[x[1]].epoch
  BY <1>2, <1>6 DEF FrameT
<1> QED BY <1>3, <1>6, <1>7 DEF Enters, Arrived

LEMMA PeersOfOthers ==
  ASSUME NEW m, NEW x \in Ports, NEW f \in OnWire(m, Peer[x]), f.type \in PDelays
  PROVE  f.source = Peer[x] /\ (f.type # "PDELAY_REQ" => f.requester = x)
<1>1. f.source = Peer[x] /\ (f.type # "PDELAY_REQ" => f.requester = Peer[f.source])
  BY DEF OnWire, LeavesBy, Genuine, PDelays
<1> QED BY <1>1, PeerApart

\* The MAC of x as the handlers see it.
LEMMA TakesBy ==
  ASSUME Typed, NEW x \in Ports, NEW f, NEW out, Takes(x, f, out)
  PROVE  \E m : \E two \in BOOLEAN, clk \in TimeT, ctl \in NicT(x[1]) :
           /\ two = config.twoStep[x[1]] /\ clk = Reading(x[1]) /\ ctl = nic[x[1]]
           /\ out = HandleIngress(MacOf(m, two, x), ctl, f, clk)
           /\ ctl.asymmetry[x] = Asymmetry[x]
<1>1. /\ config.twoStep[x[1]] \in BOOLEAN /\ Reading(x[1]) \in TimeT /\ nic[x[1]] \in NicT(x[1])
      /\ Mac(x) = MacOf(config.mechanism, config.twoStep[x[1]], x)
  BY PortTypes, MacIs, ReadingTyped
<1>2. nic[x[1]].asymmetry[x] = Asymmetry[x]
  BY PortTypes DEF Typed, NicTyped
<1>3. out = HandleIngress(Mac(x), nic[x[1]], f, Reading(x[1]))
  BY DEF Takes
<1>4. PICK m : m = config.mechanism
  OBVIOUS
<1>5. PICK two \in BOOLEAN, clk \in TimeT, ctl \in NicT(x[1]) :
        two = config.twoStep[x[1]] /\ clk = Reading(x[1]) /\ ctl = nic[x[1]]
  BY <1>1
<1>6. out = HandleIngress(MacOf(m, two, x), ctl, f, clk) /\ ctl.asymmetry[x] = Asymmetry[x]
  BY <1>1, <1>2, <1>3, <1>4, <1>5
<1> QED BY <1>5, <1>6

LEMMA TakesTables ==
  ASSUME Typed, NEW x \in Ports, NEW f, NEW out, Takes(x, f, out)
  PROVE  \/ f.type \in PDelays /\ TablesWork(out.nic, nic[x[1]], f)
         \/ SamePeers(out.nic, nic[x[1]])
<1>1. f \in OnWire(config.mechanism, Peer[x]) /\ f \in FrameT
  BY TakesFrame
<1>2. PICK m : \E two \in BOOLEAN, clk \in TimeT, ctl \in NicT(x[1]) :
        ctl = nic[x[1]] /\ out = HandleIngress(MacOf(m, two, x), ctl, f, clk)
  BY TakesBy
<1>3. PICK two \in BOOLEAN, clk \in TimeT, ctl \in NicT(x[1]) :
        ctl = nic[x[1]] /\ out = HandleIngress(MacOf(m, two, x), ctl, f, clk)
  BY <1>2
<1>4. CASE f.type \notin {"PDELAY_REQ", "PDELAY_RESP"}
  BY <1>1, <1>3, <1>4, PlainTaken
<1>5. CASE f.type = "PDELAY_REQ"
  <2>1. /\ out.nic.pdelayReqResp = ctl.pdelayReqResp
        /\ out.nic.pdelayRespFu = Append(ctl.pdelayRespFu, Entry(f.source, f.seq, clk.time))
    BY <1>1, <1>3, <1>5, RequestTaken
  <2>2. clk.time \in Int /\ Asker(f) = f.source /\ f.type \in PDelays
    BY <1>5 DEF TimeT, Asker, PDelays
  <2> QED BY <1>3, <2>1, <2>2 DEF TablesWork, Works
<1>6. CASE f.type = "PDELAY_RESP"
  <2>1. f.type \in PDelays /\ Asker(f) = f.requester
    BY <1>6 DEF Asker, PDelays
  <2>2. f.requester = x
    BY <1>1, <1>6, <2>1, PeersOfOthers
  <2>3. /\ out.nic.pdelayRespFu = ctl.pdelayRespFu
        /\ out.nic.pdelayReqResp = Rest(ctl.pdelayReqResp, x, f.seq)
    BY <1>1, <1>3, <1>6, <2>2, ResponseTaken
  <2> QED BY <1>3, <2>1, <2>2, <2>3 DEF TablesWork, Works
<1> QED BY <1>4, <1>5, <1>6

\* If the tables of all nodes but one stay, and that one's work for a frame.
LEMMA TablesBeside ==
  ASSUME Typed, Young, NEW x \in Ports, NEW f \in Known(pdelay), NEW tab, nic'[x[1]] = tab,
         \A q \in Ports : q[1] # x[1] => nic'[q[1]] = nic[q[1]],
         \/ f.type \in PDelays /\ TablesWork(tab, nic[x[1]], f)
         \/ SamePeers(tab, nic[x[1]]),
         NEW p \in Ports, f \notin Live(p, View(p))
  PROVE  SparesTables(p, pdelay[p].requSequId)
<1>1. PICK k : k = pdelay[p].requSequId
  OBVIOUS
<1>2. ASSUME NEW q \in Ports PROVE TablesSpare(nic'[q[1]], nic[q[1]], p, k)
  <2>1. CASE q[1] # x[1]
    BY <2>1, TablesSpareSelf
  <2>2. CASE q[1] = x[1]
    <3>1. PICK ctl \in NicT(x[1]) : ctl = nic[x[1]]
      BY MacIs
    <3>2. \/ f.type \in PDelays /\ TablesWork(tab, ctl, f)
          \/ SamePeers(tab, ctl)
      BY <3>1
    <3>3. TablesSpare(tab, ctl, p, k)
      BY <1>1, <3>2, TablesSpared
    <3> QED BY <2>2, <3>1, <3>3
  <2> QED BY <2>1, <2>2
<1> QED BY <1>1, <1>2, SparedAt

LEMMA SparesTablesSelf == ASSUME NEW p, NEW k, nic' = nic PROVE SparesTables(p, k)
BY SparesSelf DEF SparesTables

LEMMA MovesSelf == \A c : Moves(c, c)
BY DEF Moves

LEMMA OnlyUnloads ==
  ASSUME Typed, NEW x \in Ports, Unloads(x), UNCHANGED <<nic, ingress>>, NEW p \in Ports
  PROVE  Undisturbed(p)
<1>1. PICK y \in Ports : /\ y = Peer[x] /\ wire[y] # <<>> /\ wire'[y] = Tail(wire[y])
                         /\ \A q \in Ports : q # y => wire'[q] = wire[q]
  BY UnloadsAt
<1>2. PICK L : L = Live(p, View(p))
  OBVIOUS
<1>3. ASSUME NEW q \in Ports PROVE QueuesFit(q, L)
  <2>1. PICK Q \in Seq(FrameT) : Q = egress[q]
    BY DEF Typed, EgressTyping
  <2>2. Firm(egress'[q], Q, FrameT, L)
    BY <2>1, FirmSelf DEF Unloads
  <2>3. Thinner(ingress'[q], ingress[q], FrameT, L)
    BY ThinnerSelf
  <2>4. Thinner(wire'[q], wire[q], WireT, Aboard(L))
    <3>1. CASE q = y
      BY <1>1, <3>1, ThinnerTail
    <3>2. CASE q # y
      BY <1>1, <3>2, ThinnerSelf
    <3> QED BY <3>1, <3>2
  <2> QED BY <2>1, <2>2, <2>3, <2>4 DEF QueuesFit
<1>4. SparesTables(p, pdelay[p].requSequId)
  BY SparesTablesSelf
<1>5. QueuesFit(p, L) /\ QueuesFit(Peer[p], L)
  BY <1>3, PortTypes
<1> QED BY <1>2, <1>4, <1>5, MovesSelf DEF Undisturbed, Unloads

LEMMA UnloadsKnown ==
  ASSUME Typed, NEW s \in [Ports -> PDelayT], QueuesKnown(s), NEW x \in Ports, Unloads(x),
         NEW q \in Ports
  PROVE  wire'[q] \in Seq(Aboard(Known(s)))
<1>1. PICK y \in Ports : /\ y = Peer[x] /\ wire[y] # <<>> /\ wire'[y] = Tail(wire[y])
                         /\ \A r \in Ports : r # y => wire'[r] = wire[r]
  BY UnloadsAt
<1>2. PICK A : A = Aboard(Known(s))
  OBVIOUS
<1>3. PICK W \in Seq(A), V \in Seq(A) : W = wire[q] /\ V = wire[y]
  BY <1>2 DEF QueuesKnown
<1>4. V # <<>> => Tail(V) \in Seq(A)
  OBVIOUS
<1> QED BY <1>1, <1>2, <1>3, <1>4

LEMMA OnlyUnloadsKnown ==
  ASSUME Typed, NEW s \in [Ports -> PDelayT], QueuesKnown(s), NEW x \in Ports, Unloads(x),
         UNCHANGED <<nic, ingress>>
  PROVE  QueuesKnown(s)'
<1>1. \A q \in Ports : wire'[q] \in Seq(Aboard(Known(s)))
  BY UnloadsKnown
<1>2. egress' = egress
  BY DEF Unloads
<1> QED BY <1>1, <1>2 DEF QueuesKnown

LEMMA TakesFirst ==
  ASSUME Typed, NEW s \in [Ports -> PDelayT], QueuesKnown(s), NEW x \in Ports, NEW f, NEW out,
         Takes(x, f, out), NEW K, K = Known(s)
  PROVE  /\ f \in K /\ out.frame \in K
         /\ \A p, v : /\ f \in Live(p, v) <=> Head(wire[Peer[x]]).frame \in Live(p, v)
                      /\ f \in Live(p, v) <=> out.frame \in Live(p, v)
<1>1. PICK a : a = Head(wire[Peer[x]]).frame
  OBVIOUS
<1>2. /\ f \in FrameT /\ a \in FrameT /\ out.frame \in FrameT
      /\ f.type = a.type /\ f.source = a.source /\ f.seq = a.seq /\ f.requester = a.requester
      /\ Arrived(out.frame, f, x)
  BY <1>1, TakesFrame
<1>3. Asker(f) = Asker(a) /\ Asker(out.frame) = Asker(f)
  BY <1>2 DEF Asker, Arrived
<1>4. a \in K
  <2>1. PICK y \in Ports : y = Peer[x] /\ wire[y] # <<>>
    BY UnloadsAt DEF Takes
  <2>2. PICK A : A = Aboard(K)
    OBVIOUS
  <2>3. PICK W \in Seq(A) : W = wire[y] /\ W # <<>>
    BY <2>1, <2>2 DEF QueuesKnown
  <2>4. Head(W) \in A
    BY <2>3
  <2> QED BY <1>1, <2>1, <2>2, <2>3, <2>4 DEF Aboard
<1>5. f \in K /\ out.frame \in K
  BY <1>2, <1>3, <1>4 DEF Known, Arrived
<1>6. ASSUME NEW p, NEW v
      PROVE  /\ f \in Live(p, v) <=> a \in Live(p, v)
             /\ f \in Live(p, v) <=> out.frame \in Live(p, v)
  BY <1>2, <1>3, LiveIs DEF Arrived
<1> QED BY <1>1, <1>5, <1>6

LEMMA TakesBeside ==
  ASSUME Typed, Young, NEW x \in Ports, NEW f, NEW out, Takes(x, f, out),
         NEW p \in Ports, f \notin Live(p, View(p))
  PROVE  Undisturbed(p)
<1>1. PICK s \in [Ports -> PDelayT] : s = pdelay /\ QueuesKnown(s)
  BY DEF Typed, ServicesTyped, Young
<1>2. PICK L : L = Live(p, View(p))
  OBVIOUS
<1>3. PICK g \in FrameT : g = out.frame
  BY TakesFrame
<1>4. f \in Known(pdelay) /\ g \notin L
  BY <1>1, <1>2, <1>3, TakesFirst
<1>5. /\ ingress'[x] = Append(ingress[x], g) /\ nic'[x[1]] = out.nic
      /\ \A q \in Ports : q # x => ingress'[q] = ingress[q]
      /\ \A q \in Ports : q[1] # x[1] => nic'[q[1]] = nic[q[1]]
  BY <1>3, TakesAt
<1>6. Unloads(x)
  BY DEF Takes
<1>7. PICK y \in Ports : /\ y = Peer[x] /\ wire[y] # <<>> /\ wire'[y] = Tail(wire[y])
                         /\ \A q \in Ports : q # y => wire'[q] = wire[q]
  BY <1>6, UnloadsAt
<1>8. ASSUME NEW q \in Ports PROVE QueuesFit(q, L)
  <2>1. PICK Q \in Seq(FrameT), I \in Seq(FrameT) : Q = egress[q] /\ I = ingress[q]
    BY DEF Typed, EgressTyping, IngressTyping
  <2>2. Firm(egress'[q], Q, FrameT, L)
    BY <1>6, <2>1, FirmSelf DEF Unloads
  <2>3. Thinner(ingress'[q], I, FrameT, L)
    <3>1. CASE q = x
      <4>1. Thinner(Append(I, g), I, FrameT, L)
        BY <1>4, ThinnerMore
      <4> QED BY <1>5, <2>1, <3>1, <4>1
    <3>2. CASE q # x
      BY <1>5, <2>1, <3>2, ThinnerSelf
    <3> QED BY <3>1, <3>2
  <2>4. Thinner(wire'[q], wire[q], WireT, Aboard(L))
    <3>1. CASE q = y
      BY <1>7, <3>1, ThinnerTail
    <3>2. CASE q # y
      BY <1>7, <3>2, ThinnerSelf
    <3> QED BY <3>1, <3>2
  <2> QED BY <2>1, <2>2, <2>3, <2>4 DEF QueuesFit
<1>9. SparesTables(p, pdelay[p].requSequId)
  <2>1. PICK tab : tab = out.nic
    OBVIOUS
  <2>2. \/ f.type \in PDelays /\ TablesWork(tab, nic[x[1]], f)
        \/ SamePeers(tab, nic[x[1]])
    BY <2>1, TakesTables
  <2> QED BY <1>4, <1>5, <2>1, <2>2, TablesBeside
<1>10. QueuesFit(p, L) /\ QueuesFit(Peer[p], L)
  BY <1>8, PortTypes
<1> QED BY <1>2, <1>6, <1>9, <1>10, MovesSelf DEF Undisturbed, Unloads

LEMMA TakesKnown ==
  ASSUME Typed, NEW s \in [Ports -> PDelayT], QueuesKnown(s), NEW x \in Ports,
         NEW f, NEW out, Takes(x, f, out)
  PROVE  QueuesKnown(s)'
<1>1. Unloads(x)
  BY DEF Takes
<1>2. PICK K : K = Known(s)
  OBVIOUS
<1>3. PICK g \in K : g = out.frame /\ f \in K
  BY <1>2, TakesFirst
<1>4. /\ ingress'[x] = Append(ingress[x], g) /\ nic'[x[1]] = out.nic
      /\ \A q \in Ports : q # x => ingress'[q] = ingress[q]
      /\ \A q \in Ports : q[1] # x[1] => nic'[q[1]] = nic[q[1]]
  BY <1>3, TakesAt
<1>5. ASSUME NEW q \in Ports
      PROVE  /\ egress'[q] \in Seq(K) /\ ingress'[q] \in Seq(K)
             /\ wire'[q] \in Seq(Aboard(K))
             /\ nic'[q[1]].pdelayReqResp \in Seq(KnownEntries(s))
             /\ nic'[q[1]].pdelayRespFu \in Seq(KnownEntries(s))
  <2>1. wire'[q] \in Seq(Aboard(K))
    BY <1>1, <1>2, UnloadsKnown
  <2>2. egress'[q] \in Seq(K)
    BY <1>1, <1>2 DEF Unloads, QueuesKnown
  <2>3. ingress'[q] \in Seq(K)
    <3>1. PICK I \in Seq(K) : I = ingress[q]
      BY <1>2 DEF QueuesKnown
    <3>2. Append(I, g) \in Seq(K)
      OBVIOUS
    <3> QED BY <1>4, <3>1, <3>2
  <2>4. /\ nic'[q[1]].pdelayReqResp \in Seq(KnownEntries(s))
        /\ nic'[q[1]].pdelayRespFu \in Seq(KnownEntries(s))
    <3>1. CASE q[1] # x[1]
      BY <1>4, <3>1 DEF QueuesKnown
    <3>2. CASE q[1] = x[1]
      <4>1. PICK ctl, tab : ctl = nic[x[1]] /\ tab = out.nic
        OBVIOUS
      <4>2. \/ f.type \in PDelays /\ TablesWork(tab, ctl, f)
            \/ SamePeers(tab, ctl)
        BY <4>1, TakesTables
      <4>3. /\ ctl.pdelayReqResp \in Seq(KnownEntries(s))
            /\ ctl.pdelayRespFu \in Seq(KnownEntries(s))
        BY <4>1 DEF QueuesKnown
      <4>4. /\ tab.pdelayReqResp \in Seq(KnownEntries(s))
            /\ tab.pdelayRespFu \in Seq(KnownEntries(s))
        BY <1>2, <1>3, <4>2, <4>3, TablesKnown
      <4> QED BY <1>4, <3>2, <4>1, <4>4
    <3> QED BY <3>1, <3>2
  <2> QED BY <2>1, <2>2, <2>3, <2>4
<1> QED BY <1>2, <1>5 DEF QueuesKnown

\* What the two ends of its link see when x takes a frame.
LEMMA TakesIn ==
  ASSUME Typed, NEW x \in Ports, NEW f, NEW out, Takes(x, f, out), NEW g, g = out.frame,
         NEW v, v = View(x), NEW w, w = View(x)'
  PROVE  /\ v.peerOn # <<>> /\ Head(v.peerOn) = Head(wire[Peer[x]]) /\ Head(v.peerOn).left = 0
         /\ w.peerOn = Tail(v.peerOn) /\ w.in = Append(v.in, g)
         /\ v.asked = nic[x[1]].pdelayReqResp /\ w.asked = out.nic.pdelayReqResp
         /\ w.on = v.on /\ w.out = v.out /\ w.peerIn = v.peerIn /\ w.peerOut = v.peerOut
         /\ w.held = v.held /\ w.peerClock = v.peerClock /\ w.service = v.service
         /\ w.twoStep = v.twoStep /\ w.clock = v.clock /\ w.now = v.now
         /\ v.now = now /\ v.clock = clock[x[1]]
<1>1. Unloads(x)
  BY DEF Takes
<1>2. PICK y \in Ports : y = Peer[x] /\ y # x /\ y[1] # x[1]
  BY PeerApart
<1>3. /\ wire[y] # <<>> /\ wire'[y] = Tail(wire[y]) /\ Head(wire[y]).left = 0
      /\ wire'[x] = wire[x]
  BY <1>1, <1>2, UnloadsAt
<1>4. /\ ingress'[x] = Append(ingress[x], g) /\ nic'[x[1]] = out.nic
      /\ ingress'[y] = ingress[y] /\ nic'[y[1]] = nic[y[1]]
  BY <1>2, TakesAt
<1>5. /\ v.twoStep = config.twoStep[y[1]] /\ v.now = now
      /\ v.clock = clock[x[1]] /\ v.peerClock = clock[y[1]] /\ v.service = pdelay[x]
      /\ v.asked = nic[x[1]].pdelayReqResp /\ v.held = nic[y[1]].pdelayRespFu
      /\ v.out = egress[x] /\ v.on = wire[x] /\ v.in = ingress[x]
      /\ v.peerOut = egress[y] /\ v.peerOn = wire[y] /\ v.peerIn = ingress[y]
  BY <1>2, ViewIs
<1>6. /\ w.twoStep = config'.twoStep[y[1]] /\ w.now = now'
      /\ w.clock = clock'[x[1]] /\ w.peerClock = clock'[y[1]] /\ w.service = pdelay'[x]
      /\ w.asked = nic'[x[1]].pdelayReqResp /\ w.held = nic'[y[1]].pdelayRespFu
      /\ w.out = egress'[x] /\ w.on = wire'[x] /\ w.in = ingress'[x]
      /\ w.peerOut = egress'[y] /\ w.peerOn = wire'[y] /\ w.peerIn = ingress'[y]
  BY <1>2, NextViewIs
<1> QED BY <1>1, <1>2, <1>3, <1>4, <1>5, <1>6 DEF Unloads

LEMMA TakesThere ==
  ASSUME Typed, NEW x \in Ports, NEW f, NEW out, Takes(x, f, out), NEW g, g = out.frame,
         NEW p, p = Peer[x], NEW v, v = View(p), NEW w, w = View(p)'
  PROVE  /\ v.on # <<>> /\ Head(v.on) = Head(wire[Peer[x]]) /\ Head(v.on).left = 0
         /\ w.on = Tail(v.on) /\ w.peerIn = Append(v.peerIn, g)
         /\ v.held = nic[x[1]].pdelayRespFu /\ w.held = out.nic.pdelayRespFu
         /\ w.out = v.out /\ w.peerOut = v.peerOut /\ w.peerOn = v.peerOn /\ w.in = v.in
         /\ w.asked = v.asked /\ w.peerClock = v.peerClock /\ w.service = v.service
         /\ w.twoStep = v.twoStep /\ w.clock = v.clock /\ w.now = v.now
         /\ v.now = now /\ v.peerClock = clock[x[1]]
<1>1. Unloads(x)
  BY DEF Takes
<1>2. p \in Ports /\ Peer[p] = x /\ p # x /\ p[1] # x[1]
  BY PeerApart
<1>3. /\ wire[p] # <<>> /\ wire'[p] = Tail(wire[p]) /\ Head(wire[p]).left = 0
      /\ wire'[x] = wire[x]
  BY <1>1, <1>2, UnloadsAt
<1>4. /\ ingress'[x] = Append(ingress[x], g) /\ nic'[x[1]] = out.nic
      /\ ingress'[p] = ingress[p] /\ nic'[p[1]] = nic[p[1]]
  BY <1>2, TakesAt
<1>5. /\ v.twoStep = config.twoStep[x[1]] /\ v.now = now
      /\ v.clock = clock[p[1]] /\ v.peerClock = clock[x[1]] /\ v.service = pdelay[p]
      /\ v.asked = nic[p[1]].pdelayReqResp /\ v.held = nic[x[1]].pdelayRespFu
      /\ v.out = egress[p] /\ v.on = wire[p] /\ v.in = ingress[p]
      /\ v.peerOut = egress[x] /\ v.peerOn = wire[x] /\ v.peerIn = ingress[x]
  BY <1>2, ViewIs
<1>6. /\ w.twoStep = config'.twoStep[x[1]] /\ w.now = now'
      /\ w.clock = clock'[p[1]] /\ w.peerClock = clock'[x[1]] /\ w.service = pdelay'[p]
      /\ w.asked = nic'[p[1]].pdelayReqResp /\ w.held = nic'[x[1]].pdelayRespFu
      /\ w.out = egress'[p] /\ w.on = wire'[p] /\ w.in = ingress'[p]
      /\ w.peerOut = egress'[x] /\ w.peerOn = wire'[x] /\ w.peerIn = ingress'[x]
  BY <1>2, NextViewIs
<1> QED BY <1>1, <1>2, <1>3, <1>4, <1>5, <1>6 DEF Unloads

LEMMA RequestComesIn ==
  ASSUME Typed, Typed', Tracked, Young, NEW x \in Ports, NEW f, NEW out, Takes(x, f, out),
         NEW p, p = Peer[x], f \in Live(p, View(p)), f.type = "PDELAY_REQ"
  PROVE  GoesOn(p)
<1>1. p \in Ports /\ Peer[p] = x
  BY PeerApart
<1>2. PICK v \in ViewT : v = View(p)
  BY <1>1, ViewTyped
<1>3. PICK w \in ViewT : w = View(p)'
  BY <1>1, NextViewTyped
<1>4. PICK h \in CourseT : Course(p, v, h)
  BY <1>1, <1>2 DEF Tracked
<1>5. PICK a, g : a = Head(wire[Peer[x]]).frame /\ g = out.frame
  OBVIOUS
<1>6. /\ f \in FrameT /\ a \in FrameT /\ g \in FrameT /\ Arrived(g, f, x)
      /\ f.type = a.type /\ f.source = a.source /\ f.seq = a.seq
      /\ f.corr = a.corr /\ f.clean = a.clean /\ f.epoch = clock[x[1]].epoch
  BY <1>5, TakesFrame
<1>7. PICK k : k = v.service.requSequId
  OBVIOUS
<1>8. f \in RequestOf(p, k)
  <2>1. f \in Live(p, v)
    BY <1>2
  <2> QED BY <1>6, <1>7, <2>1, LiveIs DEF RequestOf, Asker
<1>9. a \in RequestOf(p, k) /\ g \in RequestOf(p, k)
  BY <1>6, <1>8 DEF RequestOf, Arrived
<1>10. /\ v.on # <<>> /\ Head(v.on) = Head(wire[Peer[x]]) /\ Head(v.on).left = 0
       /\ w.on = Tail(v.on) /\ w.peerIn = Append(v.peerIn, g)
       /\ v.held = nic[x[1]].pdelayRespFu /\ w.held = out.nic.pdelayRespFu
       /\ w.out = v.out /\ w.peerOut = v.peerOut /\ w.peerOn = v.peerOn /\ w.in = v.in
       /\ w.asked = v.asked /\ w.peerClock = v.peerClock /\ w.service = v.service
       /\ w.twoStep = v.twoStep /\ w.clock = v.clock /\ w.now = v.now
       /\ v.now = now /\ v.peerClock = clock[x[1]]
  BY <1>2, <1>3, <1>5, TakesThere
<1>11. PICK m : \E two \in BOOLEAN, clk \in TimeT, ctl \in NicT(x[1]) :
         /\ two = config.twoStep[x[1]] /\ clk = Reading(x[1]) /\ ctl = nic[x[1]]
         /\ out = HandleIngress(MacOf(m, two, x), ctl, f, clk)
         /\ ctl.asymmetry[x] = Asymmetry[x]
  BY TakesBy
<1>12. PICK two \in BOOLEAN, clk \in TimeT, ctl \in NicT(x[1]) :
         /\ clk = Reading(x[1]) /\ ctl = nic[x[1]]
         /\ out = HandleIngress(MacOf(m, two, x), ctl, f, clk)
  BY <1>11
<1>13. f.source = p /\ f.seq = k
  BY <1>8 DEF RequestOf
<1>14. /\ out.frame.corr = f.corr
       /\ out.nic.pdelayRespFu = Append(ctl.pdelayRespFu, Entry(f.source, f.seq, clk.time))
  BY <1>6, <1>8, <1>12, RequestTaken DEF RequestOf
<1>15. clk.time = v.now + v.peerClock.offset
  BY <1>10, <1>12 DEF Reading
<1>16. w.held = Append(v.held, Entry(p, k, v.now + v.peerClock.offset))
  BY <1>10, <1>12, <1>13, <1>14, <1>15
<1>17. Head(v.on).frame = a
  BY <1>5, <1>10
<1>18. g.clean = a.clean /\ g.corr = a.corr /\ g.epoch = v.peerClock.epoch
  BY <1>5, <1>6, <1>10, <1>14 DEF Arrived
<1>19. /\ Head(v.on).frame \in RequestOf(p, k) /\ g.clean = Head(v.on).frame.clean
       /\ g.corr = Head(v.on).frame.corr
  BY <1>9, <1>17, <1>18
<1>20. \E j \in CourseT : Course(p, w, j)
  BY <1>1, <1>4, <1>7, <1>9, <1>10, <1>16, <1>18, <1>19, RequestArrives
<1> QED BY <1>1, <1>3, <1>20, SameService DEF Takes, Unloads

LEMMA ResponseComesIn ==
  ASSUME Typed, Typed', Tracked, Young, NEW x \in Ports, NEW f, NEW out, Takes(x, f, out),
         f \in Live(x, View(x)), f.type = "PDELAY_RESP"
  PROVE  GoesOn(x)
<1>1. PICK v \in ViewT : v = View(x)
  BY ViewTyped
<1>2. PICK w \in ViewT : w = View(x)'
  BY NextViewTyped
<1>3. PICK h \in CourseT : Course(x, v, h)
  BY <1>1 DEF Tracked
<1>4. PICK a, g : a = Head(wire[Peer[x]]).frame /\ g = out.frame
  OBVIOUS
<1>5. /\ f \in FrameT /\ a \in FrameT /\ g \in FrameT /\ Arrived(g, f, x)
      /\ f.type = a.type /\ f.requester = a.requester /\ f.seq = a.seq
      /\ f.corr = a.corr /\ f.clean = a.clean /\ f.receipt = a.receipt
      /\ f.twoStep = a.twoStep
  BY <1>4, TakesFrame
<1>6. PICK k : k = v.service.requSequId
  OBVIOUS
<1>7. f \in ResponseTo(x, k)
  <2>1. f \in Live(x, v)
    BY <1>1
  <2> QED BY <1>5, <1>6, <2>1, LiveIs DEF ResponseTo, Asker
<1>8. a \in ResponseTo(x, k) /\ g \in ResponseTo(x, k)
  BY <1>5, <1>7 DEF ResponseTo, Arrived
<1>9. /\ v.peerOn # <<>> /\ Head(v.peerOn) = Head(wire[Peer[x]]) /\ Head(v.peerOn).left = 0
      /\ w.peerOn = Tail(v.peerOn) /\ w.in = Append(v.in, g)
      /\ v.asked = nic[x[1]].pdelayReqResp /\ w.asked = out.nic.pdelayReqResp
      /\ w.on = v.on /\ w.out = v.out /\ w.peerIn = v.peerIn /\ w.peerOut = v.peerOut
      /\ w.held = v.held /\ w.peerClock = v.peerClock /\ w.service = v.service
      /\ w.twoStep = v.twoStep /\ w.clock = v.clock /\ w.now = v.now
      /\ v.now = now /\ v.clock = clock[x[1]]
  BY <1>1, <1>2, <1>4, TakesIn
<1>10. PICK m : \E two \in BOOLEAN, clk \in TimeT, ctl \in NicT(x[1]) :
         /\ two = config.twoStep[x[1]] /\ clk = Reading(x[1]) /\ ctl = nic[x[1]]
         /\ out = HandleIngress(MacOf(m, two, x), ctl, f, clk)
         /\ ctl.asymmetry[x] = Asymmetry[x]
  BY TakesBy
<1>11. PICK two \in BOOLEAN, clk \in TimeT, ctl \in NicT(x[1]) :
         /\ clk = Reading(x[1]) /\ ctl = nic[x[1]]
         /\ out = HandleIngress(MacOf(m, two, x), ctl, f, clk)
         /\ ctl.asymmetry[x] = Asymmetry[x]
  BY <1>10
<1>12. f.requester = x /\ f.seq = k /\ f.type = "PDELAY_RESP"
  BY <1>7 DEF ResponseTo
<1>13. /\ g.corr = f.corr + ctl.asymmetry[x] /\ g.stamp = clk /\ g.receipt = f.receipt
       /\ \A t \in Int : Result(ctl.pdelayReqResp, x, f.seq) = [valid |-> TRUE, time |-> t]
            => g.reqEgress = t
  BY <1>4, <1>5, <1>11, <1>12, ResponseTaken
<1>14. g.stamp.time = v.now + v.clock.offset
  BY <1>9, <1>11, <1>13 DEF Reading
<1>15. Head(v.peerOn).frame = a
  BY <1>4, <1>9
<1>16. /\ g.clean = a.clean /\ g.twoStep = a.twoStep /\ g.receipt = a.receipt
       /\ g.corr = a.corr + Asymmetry[x]
  BY <1>5, <1>11, <1>13 DEF Arrived
<1>17. /\ Head(v.peerOn).frame \in ResponseTo(x, k) /\ g.receipt = Head(v.peerOn).frame.receipt
       /\ g.clean = Head(v.peerOn).frame.clean /\ g.twoStep = Head(v.peerOn).frame.twoStep
       /\ g.corr = Head(v.peerOn).frame.corr + Asymmetry[x]
  BY <1>8, <1>15, <1>16
<1>18. \A t \in Int : Result(v.asked, x, k) = [valid |-> TRUE, time |-> t] => g.reqEgress = t
  <2>1. v.asked = ctl.pdelayReqResp
    BY <1>9, <1>11
  <2> QED BY <1>12, <1>13, <2>1
<1>19. \E j \in CourseT : Course(x, w, j)
  BY <1>3, <1>6, <1>8, <1>9, <1>14, <1>17, <1>18, ResponseArrives
<1> QED BY <1>2, <1>19, SameService DEF Takes, Unloads

LEMMA FollowUpComesIn ==
  ASSUME Typed, Typed', Tracked, Young, NEW x \in Ports, NEW f, NEW out, Takes(x, f, out),
         f \in Live(x, View(x)), f.type = "PDELAY_RESP_FU"
  PROVE  GoesOn(x)
<1>1. PICK v \in ViewT : v = View(x)
  BY ViewTyped
<1>2. PICK w \in ViewT : w = View(x)'
  BY NextViewTyped
<1>3. PICK h \in CourseT : Course(x, v, h)
  BY <1>1 DEF Tracked
<1>4. PICK a, g : a = Head(wire[Peer[x]]).frame /\ g = out.frame
  OBVIOUS
<1>5. /\ f \in FrameT /\ a \in FrameT /\ g \in FrameT /\ Arrived(g, f, x)
      /\ f.type = a.type /\ f.requester = a.requester /\ f.seq = a.seq
      /\ f.corr = a.corr /\ f.origin = a.origin
  BY <1>4, TakesFrame
<1>6. PICK k : k = v.service.requSequId
  OBVIOUS
<1>7. f \in FollowUpTo(x, k)
  <2>1. f \in Live(x, v)
    BY <1>1
  <2> QED BY <1>5, <1>6, <2>1, LiveIs DEF FollowUpTo, Asker
<1>8. a \in FollowUpTo(x, k) /\ g \in FollowUpTo(x, k)
  BY <1>5, <1>7 DEF FollowUpTo, Arrived
<1>9. /\ v.peerOn # <<>> /\ Head(v.peerOn) = Head(wire[Peer[x]])
      /\ w.peerOn = Tail(v.peerOn) /\ w.in = Append(v.in, g)
      /\ v.asked = nic[x[1]].pdelayReqResp /\ w.asked = out.nic.pdelayReqResp
      /\ w.on = v.on /\ w.out = v.out /\ w.peerIn = v.peerIn /\ w.peerOut = v.peerOut
      /\ w.held = v.held /\ w.peerClock = v.peerClock /\ w.service = v.service
      /\ w.twoStep = v.twoStep /\ w.clock = v.clock /\ w.now = v.now
  BY <1>1, <1>2, <1>4, TakesIn
<1>10. PICK m : \E two \in BOOLEAN, clk \in TimeT, ctl \in NicT(x[1]) :
         /\ two = config.twoStep[x[1]] /\ clk = Reading(x[1]) /\ ctl = nic[x[1]]
         /\ out = HandleIngress(MacOf(m, two, x), ctl, f, clk)
         /\ ctl.asymmetry[x] = Asymmetry[x]
  BY TakesBy
<1>11. PICK two \in BOOLEAN, clk \in TimeT, ctl \in NicT(x[1]) :
         ctl = nic[x[1]] /\ out = HandleIngress(MacOf(m, two, x), ctl, f, clk)
  BY <1>10
<1>12. f.type = "PDELAY_RESP_FU"
  BY <1>7 DEF FollowUpTo
<1>13. SamePeers(out.nic, ctl) /\ g.corr = f.corr
  BY <1>4, <1>5, <1>11, <1>12, PlainTaken
<1>14. w.asked = v.asked
  BY <1>9, <1>11, <1>13 DEF SamePeers
<1>15. Head(v.peerOn).frame = a
  BY <1>4, <1>9
<1>16. /\ Head(v.peerOn).frame \in FollowUpTo(x, k) /\ g.origin = Head(v.peerOn).frame.origin
       /\ g.corr = Head(v.peerOn).frame.corr
  BY <1>5, <1>8, <1>13, <1>15 DEF Arrived
<1>17. Course(x, w, h)
  BY <1>3, <1>6, <1>8, <1>9, <1>14, <1>16, FollowUpArrives
<1> QED BY <1>2, <1>17, SameService DEF Takes, Unloads

LEMMA ReceiveKeeps ==
  ASSUME Typed, Typed', Tracked, Young, NEW x \in Ports, Receive(x) \/ Lose(x)
  PROVE  Tracked' /\ Young'
<1>1. PICK s \in [Ports -> PDelayT] : s = pdelay /\ QueuesKnown(s)
  BY DEF Typed, ServicesTyped, Young
<1>2. CASE Unloads(x) /\ UNCHANGED <<nic, ingress>>
  <2>1. QueuesKnown(s)'
    BY <1>1, <1>2, OnlyUnloadsKnown
  <2>2. \A p \in Ports : Undisturbed(p)
    BY <1>2, OnlyUnloads
  <2> QED BY <1>1, <2>1, <2>2, StepKeeps
<1>3. CASE \E f, out : Takes(x, f, out)
  <2>1. PICK f, out : Takes(x, f, out)
    BY <1>3
  <2>2. QueuesKnown(s)'
    BY <1>1, <2>1, TakesKnown
  <2>3. f \in OnWire(config.mechanism, Peer[x]) /\ f \in FrameT
    BY <2>1, TakesFrame
  <2>4. ASSUME NEW p \in Ports PROVE Undisturbed(p) \/ GoesOn(p)
    <3>1. CASE f \notin Live(p, View(p))
      BY <2>1, <3>1, TakesBeside
    <3>2. CASE f \in Live(p, View(p))
      <4>1. PICK v : v = View(p)
        OBVIOUS
      <4>2. f.type \in PDelays /\ Asker(f) = p
        BY <2>3, <3>2, <4>1, LiveIs
      <4>3. f.source = Peer[x] /\ (f.type # "PDELAY_REQ" => f.requester = x)
        BY <2>3, <4>2, PeersOfOthers
      <4>4. CASE f.type = "PDELAY_REQ"
        <5>1. p = Peer[x]
          BY <4>2, <4>3, <4>4 DEF Asker
        <5> QED BY <2>1, <3>2, <4>4, <5>1, RequestComesIn
      <4>5. CASE f.type # "PDELAY_REQ"
        <5>1. p = x
          BY <4>2, <4>3, <4>5 DEF Asker
        <5>2. f.type = "PDELAY_RESP" \/ f.type = "PDELAY_RESP_FU"
          BY <4>2, <4>5 DEF PDelays
        <5> QED BY <2>1, <3>2, <5>1, <5>2, ResponseComesIn, FollowUpComesIn
      <4> QED BY <4>4, <4>5
    <3> QED BY <3>1, <3>2
  <2> QED BY <1>1, <2>2, <2>4, StepKeeps
<1> QED BY <1>2, <1>3, ReceiveTakes, LoseUnloads

-----------------------------------------------------------------------------
(* Steps that add frames, deliver one or move a clock *)

NonPeer == {f \in FrameT : f.type \notin PDelays}

\* The step adds frames of F to what waits to leave, and may take one that has come.
Calmly(F) ==
  /\ config' = config /\ now' = now /\ wire' = wire
  /\ \A q \in Ports : \E R \in Seq(F) : egress'[q] = egress[q] \o R
  /\ \A q \in Ports : \/ ingress'[q] = ingress[q]
                      \/ ingress[q] # <<>> /\ ingress'[q] = Tail(ingress[q])
  /\ \A n \in Nodes : SamePeers(nic'[n], nic[n]) /\ Moves(clock[n], clock'[n])

LEMMA CalmUndisturbed ==
  ASSUME Typed, NEW p \in Ports, NEW F, Calmly(F), F \subseteq FrameT,
         \A f \in F : f \notin Live(p, View(p)),
         clock'[p[1]] = clock[p[1]], pdelay'[p] = pdelay[p]
  PROVE  Undisturbed(p)
<1>1. PICK L : L = Live(p, View(p))
  OBVIOUS
<1>2. ASSUME NEW q \in Ports PROVE QueuesFit(q, L)
  <2>1. PICK Q \in Seq(FrameT) : Q = egress[q]
    BY DEF Typed, EgressTyping
  <2>2. PICK R \in Seq(F) : egress'[q] = Q \o R
    BY <2>1 DEF Calmly
  <2>3. R \in Seq(FrameT)
    BY SeqOf
  <2>4. None(R, L)
    BY <1>1, NoneIn
  <2>5. Firm(egress'[q], egress[q], FrameT, L)
    BY <2>1, <2>2, <2>3, <2>4, FirmMore
  <2>6. Thinner(ingress'[q], ingress[q], FrameT, L)
    BY ThinnerSelf, ThinnerTail DEF Calmly
  <2>7. Thinner(wire'[q], wire[q], WireT, Aboard(L))
    BY ThinnerSelf DEF Calmly
  <2> QED BY <2>5, <2>6, <2>7 DEF QueuesFit
<1>3. PICK k : k = pdelay[p].requSequId
  OBVIOUS
<1>4. PICK y \in Ports : y = Peer[p] /\ y[1] \in Nodes /\ p[1] \in Nodes
  BY PortTypes
<1>5. SparesTables(p, k)
  BY <1>4, SparesSelf DEF Calmly, SamePeers, SparesTables
<1>6. Moves(clock[y[1]], clock'[y[1]])
  BY <1>4 DEF Calmly
<1>7. QueuesFit(p, L) /\ QueuesFit(y, L)
  BY <1>2, <1>4
<1>8. config' = config /\ now' = now
  BY DEF Calmly
<1> QED BY <1>1, <1>3, <1>4, <1>5, <1>6, <1>7, <1>8 DEF Undisturbed

LEMMA CalmKnown ==
  ASSUME Typed, NEW s \in [Ports -> PDelayT], QueuesKnown(s), NEW F, Calmly(F), F \subseteq Known(s)
  PROVE  QueuesKnown(s)'
<1>1. PICK K, E : K = Known(s) /\ E = KnownEntries(s)
  OBVIOUS
<1>2. ASSUME NEW q \in Ports
      PROVE  /\ egress'[q] \in Seq(K) /\ ingress'[q] \in Seq(K)
             /\ wire'[q] \in Seq(Aboard(K))
             /\ nic'[q[1]].pdelayReqResp \in Seq(E) /\ nic'[q[1]].pdelayRespFu \in Seq(E)
  <2>1. PICK Q \in Seq(K), I \in Seq(K) : Q = egress[q] /\ I = ingress[q]
    BY <1>1 DEF QueuesKnown
  <2>2. PICK R \in Seq(F) : egress'[q] = Q \o R
    BY <2>1 DEF Calmly
  <2>3. R \in Seq(K)
    BY <1>1, SeqOf
  <2>4. Q \o R \in Seq(K) /\ (I # <<>> => Tail(I) \in Seq(K))
    BY <2>3
  <2>5. egress'[q] \in Seq(K)
    BY <2>2, <2>4
  <2>6. ingress'[q] \in Seq(K)
    BY <2>1, <2>4 DEF Calmly
  <2>7. wire'[q] \in Seq(Aboard(K))
    BY <1>1 DEF QueuesKnown, Calmly
  <2>8. q[1] \in Nodes
    BY PortTypes
  <2>9. SamePeers(nic'[q[1]], nic[q[1]])
    BY <2>8 DEF Calmly
  <2>10. nic[q[1]].pdelayReqResp \in Seq(E) /\ nic[q[1]].pdelayRespFu \in Seq(E)
    BY <1>1 DEF QueuesKnown
  <2>11. nic'[q[1]].pdelayReqResp \in Seq(E) /\ nic'[q[1]].pdelayRespFu \in Seq(E)
    BY <2>9, <2>10 DEF SamePeers
  <2> QED BY <2>5, <2>6, <2>7, <2>11
<1> QED BY <1>1, <1>2 DEF QueuesKnown

LEMMA NonPeerFits ==
  /\ NonPeer \subseteq FrameT /\ \A s : NonPeer \subseteq Known(s)
  /\ \A p, v : \A f \in NonPeer : f \notin Live(p, v)
BY LiveIs DEF NonPeer, Known

\* A jump of the clock of n ends the requests of its ports.
LEMMA JumpMovesOn ==
  ASSUME Typed, NEW n \in Nodes, NEW delta, Jump(n, delta)
  PROVE  /\ \A m \in Nodes : Moves(clock[m], clock'[m])
         /\ \A m \in Nodes : m # n => clock'[m] = clock[m]
         /\ \A p \in Ports :
              /\ p[1] = n => pdelay'[p] = PDelayTimeJump(pdelay[p])
              /\ p[1] # n => pdelay'[p] = pdelay[p]
<1>1. clock \in [Nodes -> [offset : Int, epoch : Nat]]
  BY DEF Typed, ClocksTyped
<1>2. \A m \in Nodes :
        clock'[m] = IF m = n THEN [offset |-> clock[m].offset + delta,
                                   epoch |-> clock[m].epoch + 1]
                             ELSE clock[m]
  BY <1>1 DEF Jump
<1>3. \A m \in Nodes : m # n => clock'[m] = clock[m]
  BY <1>2
<1>4. clock'[n].epoch = clock[n].epoch + 1
  <2>1. PICK o, e : o = clock[n].offset + delta /\ e = clock[n].epoch + 1
    OBVIOUS
  <2>2. clock'[n] = [offset |-> o, epoch |-> e]
    BY <1>2, <2>1
  <2> QED BY <2>1, <2>2
<1>5. \A p \in Ports :
        /\ p[1] = n => pdelay'[p] = PDelayTimeJump(pdelay[p])
        /\ p[1] # n => pdelay'[p] = pdelay[p]
  BY DEF Jump
<1>6. ASSUME NEW m \in Nodes PROVE Moves(clock[m], clock'[m])
  BY <1>3, <1>4 DEF Moves
<1> QED BY <1>3, <1>5, <1>6

LEMMA JumpCourses ==
  ASSUME Typed, NEW n \in Nodes, NEW delta, Jump(n, delta), NEW p \in Ports
  PROVE  \/ pdelay'[p] = PDelayTimeJump(pdelay[p])
         \/ pdelay'[p] = pdelay[p] /\ clock'[p[1]] = clock[p[1]]
BY JumpMovesOn, PortTypes

LEMMA SameClock == clock' = clock => \A n \in Nodes : Moves(clock[n], clock'[n])
BY DEF Moves

\* A step that adds only frames of other kinds.
LEMMA CalmKeeps ==
  ASSUME Typed, Typed', Tracked, Young, Calmly(NonPeer),
         \A p \in Ports : \/ pdelay'[p] = PDelayTimeJump(pdelay[p])
                          \/ pdelay'[p] = pdelay[p] /\ clock'[p[1]] = clock[p[1]]
                          \/ GoesOn(p)
  PROVE  Tracked' /\ Young'
<1>1. PICK s \in [Ports -> PDelayT] : s = pdelay /\ QueuesKnown(s)
  BY DEF Typed, ServicesTyped, Young
<1>2. QueuesKnown(s)'
  BY <1>1, CalmKnown, NonPeerFits
<1>3. ASSUME NEW p \in Ports, pdelay'[p] = pdelay[p], clock'[p[1]] = clock[p[1]]
      PROVE  Undisturbed(p)
  BY <1>3, CalmUndisturbed, NonPeerFits
<1> QED BY <1>1, <1>2, <1>3, StepKeeps

\* x issues frames of F.
LEMMA IssuesCalmly ==
  ASSUME Typed, NEW F, F \subseteq FrameT, NEW x \in Ports, NEW R \in Seq(F), Issue(x, R),
         UNCHANGED <<config, now, clock, ingress, wire>>, nic' = nic
  PROVE  Calmly(F)
<1>1. egress \in [Ports -> Seq(FrameT)]
  BY DEF Typed, EgressTyping
<1>2. \A q \in Ports : egress'[q] = IF q = x THEN egress[q] \o R ELSE egress[q]
  BY <1>1 DEF Issue
<1>3. ASSUME NEW q \in Ports PROVE \E S \in Seq(F) : egress'[q] = egress[q] \o S
  <2>1. CASE q = x
    BY <1>2, <2>1
  <2>2. CASE q # x
    <3>1. PICK Q \in Seq(FrameT) : Q = egress[q]
      BY <1>1
    <3>2. Q \o <<>> = Q /\ <<>> \in Seq(F)
      OBVIOUS
    <3> QED BY <1>2, <2>2, <3>1, <3>2
  <2> QED BY <2>1, <2>2
<1>4. \A n \in Nodes : SamePeers(nic'[n], nic[n])
  BY SamePeersSelf
<1> QED BY <1>3, <1>4, SameClock DEF Calmly

\* The frames of the Sync and delay services are no frames of the peer delay mechanism.
LEMMA SyncsApart ==
  ASSUME NEW s \in SyncT, NEW p \in Ports, NEW two \in BOOLEAN
  PROVE  SyncFrames(s, p, two) \in Seq(NonPeer)
<1>1. PICK f, g : f = CreateSyncFrame(s, p, two) /\ g = CreateFollowUpFrame(f)
  OBVIOUS
<1>2. s.sequId \in Nat /\ "SYNC" \in FrameTypes
  BY DEF SyncT, FrameTypes
<1>3. f \in FrameT /\ f.type = "SYNC"
  BY <1>1, <1>2, FrameTyped DEF CreateSyncFrame
<1>4. g \in FrameT /\ g.type = "FOLLOW_UP"
  BY <1>1, <1>3, FollowUpOf
<1>5. f \in NonPeer /\ g \in NonPeer
  BY <1>3, <1>4 DEF NonPeer, PDelays
<1>6. <<f, g>> \in Seq(NonPeer) /\ <<f>> \in Seq(NonPeer)
  BY <1>5
<1> QED BY <1>1, <1>6 DEF SyncFrames

LEMMA SendSyncKeeps == ASSUME Typed, Typed', Tracked, Young, SendSync PROVE Tracked' /\ Young'
<1>1. PICK s \in SyncT : s = sync[MasterPort]
  BY DEF Typed, ServicesTyped
<1>2. PICK two \in BOOLEAN : two = config.twoStep[MasterPort[1]]
  BY PortTypes DEF Typed, ConfigTyped
<1>3. PICK R \in Seq(NonPeer) : R = SyncFrames(s, MasterPort, two)
  BY PortTypes, SyncsApart
<1>4. Issue(MasterPort, R)
  BY <1>1, <1>2, <1>3 DEF SendSync
<1>5. UNCHANGED <<config, now, clock, ingress, wire, pdelay>> /\ nic' = nic
  BY DEF SendSync
<1>6. Calmly(NonPeer)
  BY <1>4, <1>5, PortTypes, NonPeerFits, IssuesCalmly
<1> QED BY <1>5, <1>6, CalmKeeps

LEMMA SendDelayReqKeeps ==
  ASSUME Typed, Typed', Tracked, Young, SendDelayReq PROVE Tracked' /\ Young'
<1>1. delay \in DelayT
  BY DEF Typed, ServicesTyped
<1>2. PICK f : f = CreateDelayReqFrame(delay, SlavePort)
  OBVIOUS
<1>3. f \in FrameT /\ f.type = "DELAY_REQ"
  <2>1. delay.sequId \in Nat /\ "DELAY_REQ" \in FrameTypes
    BY <1>1 DEF DelayT, FrameTypes, Delays
  <2>2. PICK two \in BOOLEAN : two = FALSE
    OBVIOUS
  <2>3. f = Frame("DELAY_REQ", SlavePort, delay.sequId, two)
    BY <1>2, <2>2 DEF CreateDelayReqFrame
  <2> QED BY <2>1, <2>3, PortTypes, FrameTyped
<1>4. f \in NonPeer
  BY <1>3 DEF NonPeer, PDelays
<1>5. <<f>> \in Seq(NonPeer)
  BY <1>4
<1>6. Issue(SlavePort, <<f>>)
  BY <1>2 DEF SendDelayReq
<1>7. UNCHANGED <<config, now, clock, ingress, wire, pdelay>> /\ nic' = nic
  BY DEF SendDelayReq
<1>8. Calmly(NonPeer)
  BY <1>5, <1>6, <1>7, PortTypes, NonPeerFits, IssuesCalmly
<1> QED BY <1>7, <1>8, CalmKeeps

\* The NIC control asks for a Follow_Up, or learns a path delay.
LEMMA ControlKeeps ==
  ASSUME Typed, Typed', Tracked, Young, NEW n \in Nodes, Control(n) PROVE Tracked' /\ Young'
<1>1. PICK m : m = Head(control[n])
  OBVIOUS
<1>2. /\ control[n] # <<>> /\ control' = [control EXCEPT ![n] = Tail(@)]
      /\ UNCHANGED <<config, now, clock, ingress, wire, pdelay>>
  BY DEF Control
<1>3. m \in Messages(n)
  BY <1>1, <1>2, EmptiedControl DEF Typed
<1>4. CASE m.what = "PATH_DELAY"
  <2>1. /\ nic' = [nic EXCEPT ![n].peerMeanPathDelay[m.port] = m.delay]
        /\ egress' = egress
    BY <1>1, <1>4 DEF Control
  <2>2. PICK ctl \in NicT(n) : ctl = nic[n]
    BY DEF Typed, NicTyped
  <2>3. PICK r : r = [ctl.peerMeanPathDelay EXCEPT ![m.port] = m.delay]
    OBVIOUS
  <2>4. PICK tab : tab = [ctl EXCEPT !.peerMeanPathDelay = r]
    OBVIOUS
  <2>5. SamePeers(tab, ctl)
    BY <2>2, <2>4 DEF SamePeers, NicT
  <2>6. nic' = [nic EXCEPT ![n] = tab]
    BY <2>1, <2>2, <2>3, <2>4
  <2>7. \A k \in Nodes : nic'[k] = IF k = n THEN tab ELSE nic[k]
    BY <2>6 DEF Typed, NicTyped
  <2>8. \A k \in Nodes : SamePeers(nic'[k], nic[k])
    BY <2>2, <2>5, <2>7, SamePeersSelf
  <2>9. ASSUME NEW q \in Ports PROVE \E R \in Seq(NonPeer) : egress'[q] = egress[q] \o R
    <3>1. PICK Q \in Seq(FrameT) : Q = egress[q]
      BY DEF Typed, EgressTyping
    <3>2. Q \o <<>> = Q /\ <<>> \in Seq(NonPeer)
      OBVIOUS
    <3> QED BY <2>1, <3>1, <3>2
  <2>10. Calmly(NonPeer)
    BY <1>2, <2>8, <2>9, SameClock DEF Calmly
  <2> QED BY <1>2, <2>10, CalmKeeps
<1>5. CASE m.what # "PATH_DELAY"
  <2>1. m \in Requests(n)
    BY <1>3, <1>5 DEF Messages, Updates
  <2>2. m.what = "TRIG_SFU" /\ m.port \in Ports /\ m.frame \in FrameT
    BY <2>1 DEF Requests, PortsOf
  <2>3. PICK f : f = CreateFollowUpFrame(m.frame)
    OBVIOUS
  <2>4. Issue(m.port, <<f>>) /\ nic' = nic
    BY <1>1, <1>5, <2>2, <2>3 DEF Control
  <2>5. f \in FrameT /\ f.type = "FOLLOW_UP"
    BY <2>2, <2>3, FollowUpOf
  <2>6. f \in NonPeer
    BY <2>5 DEF NonPeer, PDelays
  <2>7. <<f>> \in Seq(NonPeer)
    BY <2>6
  <2>8. Calmly(NonPeer)
    BY <1>2, <2>2, <2>4, <2>7, NonPeerFits, IssuesCalmly
  <2> QED BY <1>2, <2>8, CalmKeeps
<1> QED BY <1>4, <1>5

\* Nothing is added or taken.
LEMMA StillCalm ==
  ASSUME Typed, UNCHANGED <<config, now, wire, egress, ingress>>, nic' = nic,
         \A n \in Nodes : Moves(clock[n], clock'[n])
  PROVE  Calmly(NonPeer)
<1>1. ASSUME NEW q \in Ports PROVE \E R \in Seq(NonPeer) : egress'[q] = egress[q] \o R
  <2>1. PICK Q \in Seq(FrameT) : Q = egress[q]
    BY DEF Typed, EgressTyping
  <2>2. Q \o <<>> = Q /\ <<>> \in Seq(NonPeer)
    OBVIOUS
  <2> QED BY <2>1, <2>2
<1> QED BY <1>1, SamePeersSelf DEF Calmly

LEMMA JumpTransparentKeeps ==
  ASSUME Typed, Typed', Tracked, Young, NEW n \in Nodes, JumpTransparent(n)
  PROVE  Tracked' /\ Young'
<1>1. PICK delta \in Jumps : Jump(n, delta)
  BY DEF JumpTransparent
<1>2. UNCHANGED <<config, now, nic, ingress, egress, wire>>
  BY DEF JumpTransparent
<1>3. Calmly(NonPeer)
  BY <1>1, <1>2, JumpMovesOn, StillCalm
<1> QED BY <1>1, <1>3, JumpCourses, CalmKeeps

\* The peer delay service begins a request.
LEMMA SendPDelayReqKeeps ==
  ASSUME Typed, Typed', Tracked, Young, NEW x \in Ports, SendPDelayReq(x)
  PROVE  Tracked' /\ Young'
<1>1. PICK s \in [Ports -> PDelayT] : s = pdelay /\ QueuesKnown(s)
  BY DEF Typed, ServicesTyped, Young
<1>2. PICK a \in PDelayT : a = s[x]
  BY <1>1
<1>3. PICK b : b = PDelayRequested(a)
  OBVIOUS
<1>4. PICK k \in Nat : k = a.sequId
  BY DEF PDelayT
<1>5. /\ b = [a EXCEPT !.requSequId = k, !.sequId = k + 1]
      /\ k + 1 \in Nat
  BY <1>3, <1>4 DEF PDelayRequested, PDelayT
<1>6. /\ b.requSequId = k /\ b.sequId = k + 1 /\ b.clean = a.clean
      /\ b.respSequID = a.respSequID /\ b \in PDelayT
  BY <1>5 DEF PDelayT
<1>7. PICK t \in [Ports -> PDelayT] : t = pdelay'
  BY DEF Typed, ServicesTyped
<1>8. pdelay' = [pdelay EXCEPT ![x] = PDelayRequested(@)]
  BY DEF SendPDelayReq
<1>9. \A p \in Ports : t[p] = IF p = x THEN b ELSE s[p]
  BY <1>1, <1>2, <1>3, <1>7, <1>8
<1>10. PICK f : f = CreatePDelayReqFrame(a, x)
  OBVIOUS
<1>11. /\ f \in FrameT /\ f.type = "PDELAY_REQ" /\ f.source = x /\ f.seq = k /\ f.clean
       /\ f.corr = 0
  <2>1. "PDELAY_REQ" \in FrameTypes
    BY DEF FrameTypes, PDelays
  <2>2. PICK two \in BOOLEAN : two = FALSE
    OBVIOUS
  <2>3. f = Frame("PDELAY_REQ", x, k, two)
    BY <1>4, <1>10, <2>2 DEF CreatePDelayReqFrame
  <2> QED BY <2>1, <2>3, FrameTyped
<1>12. Issue(x, <<f>>) /\ UNCHANGED <<config, now, clock, ingress, wire>> /\ nic' = nic
  BY <1>1, <1>2, <1>10 DEF SendPDelayReq
<1>13. <<f>> \in Seq({f}) /\ {f} \subseteq FrameT
  BY <1>11
<1>14. Calmly({f})
  BY <1>12, <1>13, IssuesCalmly
<1>15. \A p \in Ports : s[p].sequId <= t[p].sequId
  <2>1. ASSUME NEW p \in Ports PROVE s[p].sequId <= t[p].sequId
    <3>1. PICK c \in Nat : c = s[p].sequId
      BY DEF PDelayT
    <3>2. CASE p = x
      <4>1. s[p].sequId = k /\ t[p].sequId = k + 1
        BY <1>2, <1>4, <1>6, <1>9, <3>2
      <4> QED BY <4>1
    <3>3. CASE p # x
      <4>1. t[p].sequId = c
        BY <1>9, <3>1, <3>3
      <4> QED BY <3>1, <4>1
    <3> QED BY <3>2, <3>3
  <2> QED BY <2>1
<1>16. QueuesKnown(t)
  <2>1. /\ Seq(Known(s)) \subseteq Seq(Known(t))
        /\ Seq(KnownEntries(s)) \subseteq Seq(KnownEntries(t))
        /\ Seq(Aboard(Known(s))) \subseteq Seq(Aboard(Known(t)))
    BY <1>15, KnownGrows
  <2>2. \A p \in Ports : /\ egress[p] \in Seq(Known(s)) /\ ingress[p] \in Seq(Known(s))
                         /\ wire[p] \in Seq(Aboard(Known(s)))
                         /\ nic[p[1]].pdelayReqResp \in Seq(KnownEntries(s))
                         /\ nic[p[1]].pdelayRespFu \in Seq(KnownEntries(s))
    BY <1>1 DEF QueuesKnown
  <2>3. \A p \in Ports : /\ egress[p] \in Seq(Known(t)) /\ ingress[p] \in Seq(Known(t))
                         /\ wire[p] \in Seq(Aboard(Known(t)))
                         /\ nic[p[1]].pdelayReqResp \in Seq(KnownEntries(t))
                         /\ nic[p[1]].pdelayRespFu \in Seq(KnownEntries(t))
    BY <2>1, <2>2
  <2> QED BY <2>3 DEF QueuesKnown
<1>17. f \in Known(t)
  <2>1. \A p \in Ports : Asker(f) = p => p = x
    BY <1>11 DEF Asker
  <2>2. t[x].sequId = k + 1 /\ f.seq < k + 1
    BY <1>6, <1>9, <1>11
  <2> QED BY <1>11, <2>1, <2>2 DEF Known
<1>18. QueuesKnown(t)'
  <2>1. {f} \subseteq Known(t)
    BY <1>17
  <2> QED BY <1>14, <1>16, <2>1, CalmKnown
<1>19. QueuesKnown(pdelay)'
  <2>1. \A q \in Ports : /\ egress'[q] \in Seq(Known(t)) /\ ingress'[q] \in Seq(Known(t))
                         /\ wire'[q] \in Seq(Aboard(Known(t)))
                         /\ nic'[q[1]].pdelayReqResp \in Seq(KnownEntries(t))
                         /\ nic'[q[1]].pdelayRespFu \in Seq(KnownEntries(t))
    BY <1>18 DEF QueuesKnown
  <2> QED BY <1>7, <2>1 DEF QueuesKnown, Known, KnownEntries
<1>20. ASSUME NEW p \in Ports PROVE Numbered(pdelay'[p])
  <2>1. CASE p = x
    <3>1. pdelay'[p] = b /\ Numbered(a)
      BY <1>1, <1>2, <1>7, <1>9, <2>1 DEF Young
    <3>2. a.clean => a.respSequID < k + 1
      <4>1. PICK r \in Int : r = a.respSequID
        BY DEF PDelayT
      <4>2. r < k => r < k + 1
        OBVIOUS
      <4> QED BY <1>4, <3>1, <4>1, <4>2 DEF Numbered
    <3> QED BY <1>6, <3>1, <3>2 DEF Numbered
  <2>2. CASE p # x
    BY <1>1, <1>7, <1>9, <2>2 DEF Young
  <2> QED BY <2>1, <2>2
<1>21. ASSUME NEW p \in Ports PROVE \E h \in CourseT : Course(p, View(p)', h)
  <2>1. CASE p = x
    <3>1. PICK v, w : v = View(p) /\ w = View(p)'
      OBVIOUS
    <3>2. v \in ViewT /\ w \in ViewT
      BY <3>1, ViewTyped, NextViewTyped
    <3>3. KnownView(v, s)
      <4>1. PICK q \in Ports : q = Peer[p]
        BY PortTypes
      <4>2. /\ v.out = egress[p] /\ v.on = wire[p] /\ v.in = ingress[p]
            /\ v.peerOut = egress[q] /\ v.peerOn = wire[q] /\ v.peerIn = ingress[q]
            /\ v.asked = nic[p[1]].pdelayReqResp /\ v.held = nic[q[1]].pdelayRespFu
        BY <3>1, <4>1, ViewIs
      <4> QED BY <1>1, <4>2 DEF QueuesKnown, KnownView
    <3>4. v.service.clean => v.service.respSequID # k
      <4>1. v.service = a
        BY <1>1, <1>2, <2>1, <3>1, ViewIs
      <4>2. PICK r \in Int : r = a.respSequID
        BY DEF PDelayT
      <4>3. a.clean => r < k
        BY <1>1, <1>2, <1>4, <4>2 DEF Young, Numbered
      <4>4. r < k => r # k
        OBVIOUS
      <4> QED BY <4>1, <4>2, <4>3, <4>4
    <3>5. Unknown(p, v, k)
      BY <1>2, <1>4, <2>1, <3>3, <3>4, YetUnknown
    <3>6. /\ w.out = egress'[p] /\ w.on = wire[p] /\ w.in = ingress[p]
          /\ w.peerOut = egress'[Peer[p]] /\ w.peerOn = wire[Peer[p]] /\ w.peerIn = ingress[Peer[p]]
          /\ w.asked = nic[p[1]].pdelayReqResp /\ w.held = nic[Peer[p][1]].pdelayRespFu
          /\ w.service = b
      BY <1>7, <1>9, <1>12, <2>1, <3>1, NextViewIs
    <3>7. /\ v.out = egress[p] /\ v.on = wire[p] /\ v.in = ingress[p]
          /\ v.peerOut = egress[Peer[p]] /\ v.peerOn = wire[Peer[p]] /\ v.peerIn = ingress[Peer[p]]
          /\ v.asked = nic[p[1]].pdelayReqResp /\ v.held = nic[Peer[p][1]].pdelayRespFu
          /\ v.service = a
      BY <1>1, <1>2, <2>1, <3>1, ViewIs
    <3>8. egress \in [Ports -> Seq(FrameT)]
      BY DEF Typed, EgressTyping
    <3>9. \A q \in Ports : egress'[q] = IF q = x THEN egress[q] \o <<f>> ELSE egress[q]
      BY <1>12, <3>8 DEF Issue
    <3>10. egress'[p] = Append(egress[p], f)
      <4>1. PICK Q \in Seq(FrameT) : Q = egress[p]
        BY <3>8
      <4>2. Q \o <<f>> = Append(Q, f)
        BY <1>11
      <4> QED BY <2>1, <3>9, <4>1, <4>2
    <3>11. egress'[Peer[p]] = egress[Peer[p]]
      BY <2>1, <3>9, PeerApart
    <3>12. f \in RequestOf(p, k)
      BY <1>11, <2>1 DEF RequestOf
    <3>13. /\ w.out = Append(v.out, f) /\ w.on = v.on /\ w.in = v.in /\ w.peerOut = v.peerOut
           /\ w.peerOn = v.peerOn /\ w.peerIn = v.peerIn /\ w.asked = v.asked
           /\ w.held = v.held
      BY <3>6, <3>7, <3>10, <3>11
    <3>14. k = w.service.requSequId /\ (w.service.clean => w.service.respSequID # k)
      BY <1>6, <3>4, <3>6, <3>7
    <3>15. \E h \in CourseT : Course(p, w, h)
      BY <1>11, <3>2, <3>5, <3>12, <3>13, <3>14, CourseStarts
    <3> QED BY <3>1, <3>15
  <2>2. CASE p # x
    <3>1. f \notin Live(p, View(p))
      BY <1>11, <2>2, LiveIs DEF Asker
    <3>2. pdelay'[p] = pdelay[p] /\ clock'[p[1]] = clock[p[1]]
      BY <1>1, <1>7, <1>9, <1>12, <2>2
    <3>3. Undisturbed(p)
      BY <1>13, <1>14, <3>1, <3>2, CalmUndisturbed
    <3> QED BY <3>3, CourseStays
  <2> QED BY <2>1, <2>2
<1>22. Tracked'
  BY <1>21 DEF Tracked
<1> QED BY <1>19, <1>20, <1>22 DEF Young

LEMMA NearerAboard ==
  ASSUME NEW K, K \subseteq FrameT, NEW Q \in Seq(Aboard(K)), NEW R \in Seq(WireT), Nearer(R, Q)
  PROVE  R \in Seq(Aboard(K))
<1>1. PICK n \in Nat : n = Len(Q)
  OBVIOUS
<1>2. DOMAIN Q = 1 .. n
  BY <1>1
<1>3. DOMAIN R = 1 .. n /\ \A i \in 1 .. n : R[i] = [Q[i] EXCEPT !.left = @ - 1]
  BY <1>2 DEF Nearer
<1>4. ASSUME NEW i \in 1 .. n PROVE R[i] \in Aboard(K)
  <2>1. Q[i] \in Aboard(K) /\ R[i] \in WireT
    BY <1>2, <1>3
  <2>2. R[i].frame = Q[i].frame
    BY <1>3, <2>1 DEF Aboard, WireT
  <2> QED BY <2>1, <2>2 DEF Aboard
<1>5. R \in [1 .. n -> Aboard(K)]
  <2>1. R = [i \in 1 .. n |-> R[i]]
    BY <1>3, <1>1, <1>2 DEF Nearer
  <2> QED BY <1>4, <2>1
<1> QED BY <1>5

LEMMA ElapseKeeps == ASSUME Typed, Typed', Tracked, Young, Elapse PROVE Tracked' /\ Young'
<1>1. PICK s \in [Ports -> PDelayT] : s = pdelay /\ QueuesKnown(s)
  BY DEF Typed, ServicesTyped, Young
<1>2. /\ UNCHANGED <<config, clock, nic, ingress, egress, pdelay>> /\ now' = now + 1
      /\ wire' = [p \in Ports |->
                    [i \in DOMAIN wire[p] |-> [wire[p][i] EXCEPT !.left = @ - 1]]]
  BY DEF Elapse
<1>3. \A p \in Ports : Nearer(wire'[p], wire[p])
  BY <1>2 DEF Nearer
<1>4. Known(s) \subseteq FrameT
  BY DEF Known
<1>5. ASSUME NEW p \in Ports PROVE wire'[p] \in Seq(Aboard(Known(s)))
  <2>1. wire[p] \in Seq(Aboard(Known(s)))
    BY <1>1 DEF QueuesKnown
  <2>2. wire'[p] \in Seq(WireT)
    BY DEF Typed, WireTyping
  <2> QED BY <1>3, <1>4, <2>1, <2>2, NearerAboard
<1>6. QueuesKnown(s)'
  BY <1>1, <1>2, <1>5 DEF QueuesKnown
<1>7. ASSUME NEW p \in Ports PROVE GoesOn(p)
  <2>1. PICK v, w : v = View(p) /\ w = View(p)'
    OBVIOUS
  <2>2. v \in ViewT /\ w \in ViewT
    BY <2>1, ViewTyped, NextViewTyped
  <2>3. PICK h \in CourseT : Course(p, v, h)
    BY <2>1 DEF Tracked
  <2>4. PICK q \in Ports : q = Peer[p]
    BY PortTypes
  <2>5. /\ w.now = now + 1 /\ w.on = wire'[p] /\ w.peerOn = wire'[q]
        /\ w.twoStep = config.twoStep[q[1]] /\ w.clock = clock[p[1]] /\ w.peerClock = clock[q[1]]
        /\ w.service = pdelay[p] /\ w.asked = nic[p[1]].pdelayReqResp
        /\ w.held = nic[q[1]].pdelayRespFu /\ w.out = egress[p] /\ w.in = ingress[p]
        /\ w.peerOut = egress[q] /\ w.peerIn = ingress[q]
    <3>1. /\ w.now = now' /\ w.on = wire'[p] /\ w.peerOn = wire'[q]
          /\ w.twoStep = config'.twoStep[q[1]] /\ w.clock = clock'[p[1]]
          /\ w.peerClock = clock'[q[1]]
          /\ w.service = pdelay'[p] /\ w.asked = nic'[p[1]].pdelayReqResp
          /\ w.held = nic'[q[1]].pdelayRespFu /\ w.out = egress'[p] /\ w.in = ingress'[p]
          /\ w.peerOut = egress'[q] /\ w.peerIn = ingress'[q]
      BY <2>1, <2>4, NextViewIs
    <3> QED BY <1>2, <3>1
  <2>6. /\ v.now = now /\ v.on = wire[p] /\ v.peerOn = wire[q]
        /\ v.twoStep = config.twoStep[q[1]] /\ v.clock = clock[p[1]] /\ v.peerClock = clock[q[1]]
        /\ v.service = pdelay[p] /\ v.asked = nic[p[1]].pdelayReqResp
        /\ v.held = nic[q[1]].pdelayRespFu /\ v.out = egress[p] /\ v.in = ingress[p]
        /\ v.peerOut = egress[q] /\ v.peerIn = ingress[q]
    BY <2>1, <2>4, ViewIs
  <2>7. Nearer(w.on, v.on) /\ Nearer(w.peerOn, v.peerOn)
    BY <1>3, <2>5, <2>6
  <2>8. Course(p, w, h)
    BY <2>2, <2>3, <2>5, <2>6, <2>7, TimePasses
  <2> QED BY <1>2, <2>1, <2>8, SameService
<1> QED BY <1>1, <1>6, <1>7, StepKeeps

-----------------------------------------------------------------------------
(* A frame leaves the ingress delayer *)

\* What the handlers of the stack do to clocks and peer delay services.
LEMMA HandleMoves ==
  ASSUME NEW p, NEW f, HandlePtpFrame(p, f)
  PROVE  \/ clock' = clock /\ pdelay' = pdelay
         \/ f.type # "PDELAY_REQ" /\ \E delta : Jump(SlavePort[1], delta)
         \/ /\ f.type = "PDELAY_RESP" /\ PDelayExpected(pdelay[p], f, p) /\ f.twoStep
            /\ pdelay' = [pdelay EXCEPT ![p] = PDelayStored(@, f)] /\ clock' = clock
<1>1. CASE f.type = "SYNC" /\ HandleSync(f)
  <2>1. UNCHANGED <<clock, pdelay>> \/ \E delta : Jump(SlavePort[1], delta)
    BY <1>1, Zenon DEF HandleSync, Synchronize
  <2> QED BY <1>1, <2>1
<1>2. CASE f.type = "FOLLOW_UP" /\ HandleFollowUp(f)
  <2>1. UNCHANGED <<clock, pdelay>> \/ \E delta : Jump(SlavePort[1], delta)
    BY <1>2, Zenon DEF HandleFollowUp, Synchronize
  <2> QED BY <1>2, <2>1
<1>3. CASE f.type = "DELAY_RESP" /\ UNCHANGED <<clock, pdelay>>
  BY <1>3
<1>4. CASE f.type = "PDELAY_RESP" /\ HandlePDelayResp(p, f) /\ UNCHANGED clock
  <2>1. PDelayExpected(pdelay[p], f, p)
    BY <1>4 DEF HandlePDelayResp
  <2>2. CASE f.twoStep
    <3>1. pdelay' = [pdelay EXCEPT ![p] = PDelayStored(@, f)]
      BY <1>4, <2>2 DEF HandlePDelayResp
    <3> QED BY <1>4, <2>1, <2>2, <3>1
  <2>3. CASE ~f.twoStep
    <3>1. pdelay' = pdelay
      BY <1>4, <2>3 DEF HandlePDelayResp
    <3> QED BY <1>4, <3>1
  <2> QED BY <2>2, <2>3
<1>5. CASE f.type = "PDELAY_RESP_FU" /\ HandlePDelayRespFU(p, f) /\ UNCHANGED clock
  <2>1. pdelay' = pdelay
    BY <1>5 DEF HandlePDelayRespFU
  <2> QED BY <1>5, <2>1
<1>6. CASE UNCHANGED <<clock, pdelay>>
  BY <1>6
<1> QED BY <1>1, <1>2, <1>3, <1>4, <1>5, <1>6 DEF HandlePtpFrame

LEMMA DeliverMoves ==
  ASSUME NEW p, Deliver(p), NEW f, f = Head(ingress[p])
  PROVE  \/ clock' = clock /\ pdelay' = pdelay
         \/ f.type # "PDELAY_REQ" /\ \E delta : Jump(SlavePort[1], delta)
         \/ /\ f.type = "PDELAY_RESP" /\ PDelayExpected(pdelay[p], f, p) /\ f.twoStep
            /\ pdelay' = [pdelay EXCEPT ![p] = PDelayStored(@, f)] /\ clock' = clock
<1>1. \/ HandlePtpFrame(p, f)
      \/ UNCHANGED <<clock, pdelay, left, sync, delay, control, estimate, portEstimate,
                     measure, sample, used, trusted>>
  BY DEF Deliver
<1>2. CASE HandlePtpFrame(p, f)
  BY <1>2, HandleMoves
<1> QED BY <1>1, <1>2

\* The answers to a request.
LEMMA AnswersOf ==
  ASSUME NEW x \in Ports, NEW f \in FrameT, f.type = "PDELAY_REQ", NEW two \in BOOLEAN,
         NEW a, a = CreatePDelayRespFrame(f, x, two), NEW b, b = CreatePDelayRespFUFrame(f, x)
  PROVE  /\ a \in ResponseTo(f.source, f.seq) /\ a.clean = f.clean /\ a.epoch = f.epoch
         /\ a.receipt = 0 /\ a.twoStep = two /\ a.corr = IF two THEN 0 ELSE f.corr
         /\ b \in FollowUpTo(f.source, f.seq) /\ b.corr = f.corr
<1>1. /\ f.source \in Ports /\ f.seq \in Nat /\ f.corr \in Int /\ f.clean \in BOOLEAN
      /\ f.epoch \in Int
  BY DEF FrameT
<1>2. "PDELAY_RESP" \in FrameTypes /\ "PDELAY_RESP_FU" \in FrameTypes
  BY DEF FrameTypes, PDelays
<1>3. PICK g : g = Frame("PDELAY_RESP", x, f.seq, two)
  OBVIOUS
<1>4. /\ g \in FrameT /\ g.type = "PDELAY_RESP" /\ g.seq = f.seq /\ g.twoStep = two
      /\ g.receipt = 0
  <2>1. g \in FrameT /\ g.type = "PDELAY_RESP" /\ g.seq = f.seq /\ g.twoStep = two
    BY <1>1, <1>2, <1>3, FrameTyped
  <2>2. g.receipt = 0
    BY <1>3 DEF Frame
  <2> QED BY <2>1, <2>2
<1>5. PICK c \in Int : c = IF two THEN 0 ELSE f.corr
  BY <1>1
<1>6. a = [g EXCEPT !.requester = f.source, !.corr = c, !.clean = f.clean, !.epoch = f.epoch]
  BY <1>3, <1>5 DEF CreatePDelayRespFrame
<1>7. /\ a \in FrameT /\ a.type = "PDELAY_RESP" /\ a.requester = f.source /\ a.seq = f.seq
      /\ a.clean = f.clean /\ a.epoch = f.epoch /\ a.receipt = 0 /\ a.twoStep = two
      /\ a.corr = c
  BY <1>1, <1>4, <1>5, <1>6 DEF FrameT, PortOrNone
<1>8. PICK e \in BOOLEAN : e = TRUE
  OBVIOUS
<1>9. PICK h : h = Frame("PDELAY_RESP_FU", x, f.seq, e)
  OBVIOUS
<1>10. h \in FrameT /\ h.type = "PDELAY_RESP_FU" /\ h.seq = f.seq
  BY <1>1, <1>2, <1>9, FrameTyped
<1>11. b = [h EXCEPT !.requester = f.source, !.corr = f.corr]
  BY <1>8, <1>9 DEF CreatePDelayRespFUFrame
<1>12. /\ b \in FrameT /\ b.type = "PDELAY_RESP_FU" /\ b.requester = f.source
       /\ b.seq = f.seq /\ b.corr = f.corr
  BY <1>1, <1>10, <1>11 DEF FrameT, PortOrNone
<1> QED BY <1>5, <1>7, <1>12 DEF ResponseTo, FollowUpTo

\* Only a request has an answer of the peer delay mechanism.
LEMMA OtherAnswers ==
  ASSUME NEW x \in Ports, NEW f \in FrameT, f.type # "PDELAY_REQ"
  PROVE  Answer(x, f) \in Seq(NonPeer)
<1>1. CASE f.type = "DELAY_REQ" /\ x = MasterPort
  <2>1. PICK r : r = CreateDelayRespFrame(f, x)
    OBVIOUS
  <2>2. /\ f.source \in Ports /\ f.seq \in Nat /\ f.stamp.time \in Int /\ f.corr \in Int
        /\ f.clean \in BOOLEAN
    BY DEF FrameT, TimeT
  <2>3. PICK two \in BOOLEAN : two = FALSE
    OBVIOUS
  <2>4. PICK h : h = Frame("DELAY_RESP", x, f.seq, two)
    OBVIOUS
  <2>5. h \in FrameT /\ h.type = "DELAY_RESP"
    <3>1. "DELAY_RESP" \in FrameTypes
      BY DEF FrameTypes, Delays
    <3> QED BY <3>1, <2>2, <2>4, FrameTyped
  <2>6. r = [h EXCEPT !.receipt = f.stamp.time, !.requester = f.source, !.corr = f.corr,
                      !.clean = f.clean]
    BY <2>1, <2>3, <2>4 DEF CreateDelayRespFrame
  <2>7. r \in FrameT /\ r.type = "DELAY_RESP"
    BY <2>2, <2>5, <2>6 DEF FrameT, PortOrNone
  <2>8. r \in NonPeer
    BY <2>7 DEF NonPeer, PDelays
  <2>9. <<r>> \in Seq(NonPeer)
    BY <2>8
  <2> QED BY <1>1, <2>1, <2>9 DEF Answer
<1>2. CASE ~(f.type = "DELAY_REQ" /\ x = MasterPort)
  <2>1. Answer(x, f) = <<>>
    BY <1>2, Zenon DEF Answer
  <2> QED BY <2>1
<1> QED BY <1>1, <1>2

\* What Deliver does to the queues.
LEMMA DeliverQueues ==
  ASSUME Typed, NEW x \in Ports, Deliver(x), NEW f, f = Head(ingress[x])
  PROVE  /\ ingress[x] # <<>> /\ f \in InIngress(config.mechanism, x) /\ f \in FrameT
         /\ UNCHANGED <<config, now, wire>> /\ nic' = nic
         /\ \A q \in Ports : ingress'[q] = IF q = x THEN Tail(ingress[x]) ELSE ingress[q]
         /\ \A q \in Ports : egress[q] \in Seq(FrameT)
<1>1. /\ ingress[x] # <<>> /\ UNCHANGED <<config, now, wire>> /\ nic' = nic
      /\ ingress' = [ingress EXCEPT ![x] = Tail(@)]
  BY DEF Deliver
<1>2. f \in InIngress(config.mechanism, x) /\ f \in FrameT
  BY <1>1, FirstWaiting
<1>3. ingress \in [Ports -> Seq(FrameT)] /\ egress \in [Ports -> Seq(FrameT)]
  BY DEF Typed, IngressTyping, EgressTyping
<1>4. \A q \in Ports : ingress'[q] = IF q = x THEN Tail(ingress[x]) ELSE ingress[q]
  BY <1>1, <1>3
<1> QED BY <1>1, <1>2, <1>3, <1>4

\* A frame that is no request leaves only frames of other kinds.
LEMMA DeliverCalmly ==
  ASSUME Typed, NEW x \in Ports, Deliver(x), NEW f, f = Head(ingress[x]), f.type # "PDELAY_REQ",
         \A n \in Nodes : Moves(clock[n], clock'[n])
  PROVE  Calmly(NonPeer)
<1>1. PICK gates : gates = Dispatch(ClockType(x[1]), Gates(x[1]), f.type, GateOf(x[2]))
  OBVIOUS
<1>2. egress' = [q \in Ports |-> egress[q]
                   \o (IF q[1] = x[1] /\ GateOf(q[2]) \in gates THEN <<f>> ELSE <<>>)
                   \o (IF q = x /\ InternalPort \in gates THEN Answer(x, f) ELSE <<>>)]
  BY <1>1 DEF Deliver
<1>3. /\ ingress[x] # <<>> /\ f \in FrameT /\ UNCHANGED <<config, now, wire>> /\ nic' = nic
      /\ \A q \in Ports : ingress'[q] = IF q = x THEN Tail(ingress[x]) ELSE ingress[q]
      /\ \A q \in Ports : egress[q] \in Seq(FrameT)
  BY DeliverQueues
<1>4. ASSUME NEW q \in Ports PROVE \E R \in Seq(NonPeer) : egress'[q] = egress[q] \o R
  <2>1. PICK a, b :
          /\ a = IF q[1] = x[1] /\ GateOf(q[2]) \in gates THEN <<f>> ELSE <<>>
          /\ b = IF q = x /\ InternalPort \in gates THEN Answer(x, f) ELSE <<>>
    OBVIOUS
  <2>2. a \in Seq(NonPeer)
    <3>1. CASE q[1] = x[1] /\ GateOf(q[2]) \in gates
      <4>1. GateOf(q[2]) # InternalPort
        <5>1. q[2] \in Nat
          BY NetworkAssumption
        <5>2. GateOf(q[2]) = q[2] + 1
          BY <5>1 DEF GateOf, InternalPort
        <5> QED BY <5>1, <5>2 DEF InternalPort
      <4>2. f.type \notin PDelays
        BY <1>1, <3>1, <4>1 DEF Dispatch, PDelays
      <4>3. f \in NonPeer
        BY <1>3, <4>2 DEF NonPeer
      <4>4. <<f>> \in Seq(NonPeer)
        BY <4>3
      <4> QED BY <2>1, <3>1, <4>4
    <3>2. CASE ~(q[1] = x[1] /\ GateOf(q[2]) \in gates)
      BY <2>1, <3>2
    <3> QED BY <3>1, <3>2
  <2>3. b \in Seq(NonPeer)
    <3>1. CASE q = x /\ InternalPort \in gates
      <4>1. Answer(x, f) \in Seq(NonPeer)
        BY <1>3, OtherAnswers
      <4> QED BY <2>1, <3>1, <4>1
    <3>2. CASE ~(q = x /\ InternalPort \in gates)
      BY <2>1, <3>2
    <3> QED BY <3>1, <3>2
  <2>4. egress'[q] = egress[q] \o a \o b
    BY <1>2, <2>1
  <2>5. PICK Q \in Seq(FrameT) : Q = egress[q]
    BY <1>3
  <2>6. NonPeer \subseteq FrameT
    BY NonPeerFits
  <2>7. a \in Seq(FrameT) /\ b \in Seq(FrameT)
    BY <2>2, <2>3, <2>6, SeqOf
  <2>8. Q \o a \o b = Q \o (a \o b)
    BY <2>7
  <2>9. a \o b \in Seq(NonPeer)
    BY <2>2, <2>3
  <2> QED BY <2>4, <2>5, <2>8, <2>9
<1>5. \A q \in Ports : \/ ingress'[q] = ingress[q]
                       \/ ingress[q] # <<>> /\ ingress'[q] = Tail(ingress[q])
  BY <1>3
<1>6. \A n \in Nodes : SamePeers(nic'[n], nic[n])
  BY <1>3, SamePeersSelf
<1> QED BY <1>3, <1>4, <1>5, <1>6 DEF Calmly

\* The service keeps the times of a two-step response.
LEMMA StoredGoesOn ==
  ASSUME Typed, Typed', Tracked, Young, NEW x \in Ports, Deliver(x), NEW f, f = Head(ingress[x]),
         f.type = "PDELAY_RESP", PDelayExpected(pdelay[x], f, x), f.twoStep,
         pdelay' = [pdelay EXCEPT ![x] = PDelayStored(@, f)], clock' = clock,
         \A q \in Ports : egress'[q] = egress[q]
  PROVE  GoesOn(x)
<1>1. PICK v, w : v = View(x) /\ w = View(x)'
  OBVIOUS
<1>2. v \in ViewT /\ w \in ViewT
  BY <1>1, ViewTyped, NextViewTyped
<1>3. PICK h \in CourseT : Course(x, v, h)
  BY <1>1 DEF Tracked
<1>4. PICK y \in Ports : y = Peer[x] /\ y # x
  BY PeerApart
<1>5. PICK a \in PDelayT : a = pdelay[x]
  BY DEF Typed, ServicesTyped
<1>6. pdelay'[x] = PDelayStored(a, f)
  BY <1>5 DEF Typed, ServicesTyped
<1>7. /\ ingress[x] # <<>> /\ f \in FrameT /\ UNCHANGED <<config, now, wire>> /\ nic' = nic
      /\ \A q \in Ports : ingress'[q] = IF q = x THEN Tail(ingress[x]) ELSE ingress[q]
  BY DeliverQueues
<1>8. ingress'[x] = Tail(ingress[x]) /\ ingress'[y] = ingress[y]
  BY <1>4, <1>7
<1>9. egress'[x] = egress[x] /\ egress'[y] = egress[y]
  OBVIOUS
<1>10. /\ v.now = now /\ v.on = wire[x] /\ v.peerOn = wire[y]
       /\ v.twoStep = config.twoStep[y[1]] /\ v.clock = clock[x[1]] /\ v.peerClock = clock[y[1]]
       /\ v.service = a /\ v.asked = nic[x[1]].pdelayReqResp
       /\ v.held = nic[y[1]].pdelayRespFu /\ v.out = egress[x] /\ v.in = ingress[x]
       /\ v.peerOut = egress[y] /\ v.peerIn = ingress[y]
  BY <1>1, <1>4, <1>5, ViewIs
<1>11. /\ w.now = now /\ w.on = wire[x] /\ w.peerOn = wire[y]
       /\ w.twoStep = config.twoStep[y[1]] /\ w.clock = clock[x[1]] /\ w.peerClock = clock[y[1]]
       /\ w.service = PDelayStored(a, f) /\ w.asked = nic[x[1]].pdelayReqResp
       /\ w.held = nic[y[1]].pdelayRespFu /\ w.out = egress[x] /\ w.in = Tail(ingress[x])
       /\ w.peerOut = egress[y] /\ w.peerIn = ingress[y]
  <2>1. /\ w.now = now' /\ w.on = wire'[x] /\ w.peerOn = wire'[y]
        /\ w.twoStep = config'.twoStep[y[1]] /\ w.clock = clock'[x[1]]
        /\ w.peerClock = clock'[y[1]] /\ w.service = pdelay'[x]
        /\ w.asked = nic'[x[1]].pdelayReqResp /\ w.held = nic'[y[1]].pdelayRespFu
        /\ w.out = egress'[x] /\ w.in = ingress'[x]
        /\ w.peerOut = egress'[y] /\ w.peerIn = ingress'[y]
    BY <1>1, <1>4, NextViewIs
  <2> QED BY <1>6, <1>7, <1>8, <1>9, <2>1
<1>12. PICK k \in Nat : k = a.requSequId
  BY DEF PDelayT
<1>13. f.seq = k /\ f.requester = x
  BY <1>5, <1>12 DEF PDelayExpected
<1>14. f \in ResponseTo(x, k)
  BY <1>7, <1>13 DEF ResponseTo
<1>15. Course(x, w, h)
  BY <1>2, <1>3, <1>7, <1>10, <1>11, <1>12, <1>14, ResponseStored
<1>16. PICK n \in Nat : n = a.sequId
  BY DEF PDelayT
<1>17. /\ PDelayStored(a, f).sequId = n /\ PDelayStored(a, f).requSequId = k
       /\ PDelayStored(a, f).respSequID = f.seq
  BY <1>12, <1>16 DEF PDelayStored, PDelayT
<1>18. f.seq < n
  <2>1. PICK s : s = pdelay
    OBVIOUS
  <2>2. ingress[x] \in Seq(Known(s))
    BY <2>1 DEF Young, QueuesKnown
  <2>3. f \in Known(s)
    BY <1>7, <2>2, FirstKnown
  <2>4. Asker(f) = x /\ f.type \in PDelays
    BY <1>13 DEF Asker, PDelays
  <2> QED BY <1>5, <1>16, <2>1, <2>3, <2>4 DEF Known
<1> QED BY <1>1, <1>5, <1>6, <1>12, <1>15, <1>16, <1>17, <1>18 DEF GoesOn

\* A frame of the peer delay mechanism goes to the stack only.
LEMMA DeliverHere ==
  ASSUME Typed, NEW x \in Ports, Deliver(x), NEW f, f = Head(ingress[x]), f.type \in PDelays
  PROVE  \A q \in Ports : /\ q # x => egress'[q] = egress[q]
                          /\ q = x => egress'[q] = egress[q] \o Answer(x, f)
<1>1. PICK gates : gates = Dispatch(ClockType(x[1]), Gates(x[1]), f.type, GateOf(x[2]))
  OBVIOUS
<1>2. gates = {InternalPort}
  BY <1>1 DEF Dispatch, PDelays
<1>3. egress' = [q \in Ports |-> egress[q]
                   \o (IF q[1] = x[1] /\ GateOf(q[2]) \in gates THEN <<f>> ELSE <<>>)
                   \o (IF q = x /\ InternalPort \in gates THEN Answer(x, f) ELSE <<>>)]
  BY <1>1 DEF Deliver
<1>4. f \in FrameT /\ f \in InIngress(config.mechanism, x)
      /\ \A q \in Ports : egress[q] \in Seq(FrameT)
  BY DeliverQueues
<1>5. ASSUME NEW q \in Ports
      PROVE  /\ q # x => egress'[q] = egress[q]
             /\ q = x => egress'[q] = egress[q] \o Answer(x, f)
  <2>1. GateOf(q[2]) \notin gates
    <3>1. q[2] \in Nat
      BY NetworkAssumption
    <3>2. GateOf(q[2]) = q[2] + 1
      BY <3>1 DEF GateOf, InternalPort
    <3> QED BY <1>2, <3>1, <3>2 DEF InternalPort
  <2>2. egress'[q] = egress[q] \o <<>>
                       \o (IF q = x /\ InternalPort \in gates THEN Answer(x, f) ELSE <<>>)
    BY <1>3, <2>1
  <2>3. PICK Q \in Seq(FrameT) : Q = egress[q]
    BY <1>4
  <2>4. Q \o <<>> = Q
    OBVIOUS
  <2>5. CASE q = x
    BY <1>2, <2>2, <2>3, <2>4, <2>5
  <2>6. CASE q # x
    BY <2>2, <2>3, <2>4, <2>6
  <2> QED BY <2>5, <2>6
<1> QED BY <1>5

LEMMA OtherDeliverKeeps ==
  ASSUME Typed, Typed', Tracked, Young, NEW x \in Ports, Deliver(x),
         NEW f, f = Head(ingress[x]), f.type # "PDELAY_REQ"
  PROVE  Tracked' /\ Young'
<1>1. \/ clock' = clock /\ pdelay' = pdelay
      \/ \E delta : Jump(SlavePort[1], delta)
      \/ /\ f.type = "PDELAY_RESP" /\ PDelayExpected(pdelay[x], f, x) /\ f.twoStep
         /\ pdelay' = [pdelay EXCEPT ![x] = PDelayStored(@, f)] /\ clock' = clock
  BY DeliverMoves
<1>2. CASE clock' = clock /\ pdelay' = pdelay
  <2>1. Calmly(NonPeer)
    BY <1>2, SameClock, DeliverCalmly
  <2> QED BY <1>2, <2>1, CalmKeeps
<1>3. CASE \E delta : Jump(SlavePort[1], delta)
  <2>1. PICK delta : Jump(SlavePort[1], delta)
    BY <1>3
  <2>2. Calmly(NonPeer)
    BY <2>1, PortTypes, JumpMovesOn, DeliverCalmly
  <2> QED BY <2>1, <2>2, PortTypes, JumpCourses, CalmKeeps
<1>4. CASE /\ f.type = "PDELAY_RESP" /\ PDelayExpected(pdelay[x], f, x) /\ f.twoStep
           /\ pdelay' = [pdelay EXCEPT ![x] = PDelayStored(@, f)] /\ clock' = clock
  <2>1. Calmly(NonPeer)
    BY <1>4, SameClock, DeliverCalmly
  <2>2. f.type \in PDelays
    BY <1>4 DEF PDelays
  <2>3. Answer(x, f) = <<>>
    BY <1>4 DEF Answer
  <2>4. ASSUME NEW q \in Ports PROVE egress'[q] = egress[q]
    <3>1. PICK Q \in Seq(FrameT) : Q = egress[q]
      BY DEF Typed, EgressTyping
    <3>2. Q \o <<>> = Q
      OBVIOUS
    <3> QED BY <2>2, <2>3, <3>1, <3>2, DeliverHere
  <2>5. GoesOn(x)
    BY <1>4, <2>4, StoredGoesOn
  <2>6. \A p \in Ports : p # x => pdelay'[p] = pdelay[p] /\ clock'[p[1]] = clock[p[1]]
    BY <1>4 DEF Typed, ServicesTyped
  <2> QED BY <2>1, <2>5, <2>6, CalmKeeps
<1> QED BY <1>1, <1>2, <1>3, <1>4

\* The peer answers the request that p waits for.
LEMMA RequestAnsweredOn ==
  ASSUME Typed, Typed', Tracked, Young, NEW x \in Ports, Deliver(x), NEW f, f = Head(ingress[x]),
         f.type = "PDELAY_REQ", NEW p, p = Peer[x], f \in Live(p, View(p)),
         UNCHANGED <<clock, pdelay>>
  PROVE  GoesOn(p)
<1>1. p \in Ports /\ Peer[p] = x /\ p # x
  BY PeerApart
<1>2. PICK v, w : v = View(p) /\ w = View(p)'
  OBVIOUS
<1>3. v \in ViewT /\ w \in ViewT
  BY <1>1, <1>2, ViewTyped, NextViewTyped
<1>4. PICK h \in CourseT : Course(p, v, h)
  BY <1>1, <1>2 DEF Tracked
<1>5. /\ ingress[x] # <<>> /\ f \in FrameT /\ UNCHANGED <<config, now, wire>> /\ nic' = nic
      /\ \A q \in Ports : ingress'[q] = IF q = x THEN Tail(ingress[x]) ELSE ingress[q]
      /\ \A q \in Ports : egress[q] \in Seq(FrameT)
  BY DeliverQueues
<1>6. PICK two \in BOOLEAN : two = config.twoStep[x[1]]
  BY PortTypes DEF Typed, ConfigTyped
<1>7. PICK a, b : a = CreatePDelayRespFrame(f, x, two) /\ b = CreatePDelayRespFUFrame(f, x)
  OBVIOUS
<1>8. /\ a \in ResponseTo(f.source, f.seq) /\ a.clean = f.clean /\ a.epoch = f.epoch
      /\ a.receipt = 0 /\ a.twoStep = two /\ a.corr = IF two THEN 0 ELSE f.corr
      /\ b \in FollowUpTo(f.source, f.seq) /\ b.corr = f.corr
  BY <1>5, <1>7, AnswersOf
<1>9. /\ v.now = now /\ v.on = wire[p] /\ v.peerOn = wire[x]
      /\ v.twoStep = two /\ v.clock = clock[p[1]] /\ v.peerClock = clock[x[1]]
      /\ v.service = pdelay[p] /\ v.asked = nic[p[1]].pdelayReqResp
      /\ v.held = nic[x[1]].pdelayRespFu /\ v.out = egress[p] /\ v.in = ingress[p]
      /\ v.peerOut = egress[x] /\ v.peerIn = ingress[x]
  BY <1>1, <1>2, <1>6, ViewIs
<1>10. f.type \in PDelays
  BY DEF PDelays
<1>11. egress'[p] = egress[p] /\ egress'[x] = egress[x] \o Answer(x, f)
  BY <1>1, <1>10, DeliverHere
<1>12. ingress'[p] = ingress[p] /\ ingress'[x] = Tail(ingress[x])
  BY <1>1, <1>5
<1>13. /\ w.now = now /\ w.on = wire[p] /\ w.peerOn = wire[x]
       /\ w.twoStep = two /\ w.clock = clock[p[1]] /\ w.peerClock = clock[x[1]]
       /\ w.service = pdelay[p] /\ w.asked = nic[p[1]].pdelayReqResp
       /\ w.held = nic[x[1]].pdelayRespFu /\ w.out = egress[p] /\ w.in = ingress[p]
       /\ w.peerOut = egress[x] \o Answer(x, f) /\ w.peerIn = Tail(ingress[x])
  <2>1. /\ w.now = now' /\ w.on = wire'[p] /\ w.peerOn = wire'[x]
        /\ w.twoStep = config'.twoStep[x[1]] /\ w.clock = clock'[p[1]]
        /\ w.peerClock = clock'[x[1]] /\ w.service = pdelay'[p]
        /\ w.asked = nic'[p[1]].pdelayReqResp /\ w.held = nic'[x[1]].pdelayRespFu
        /\ w.out = egress'[p] /\ w.in = ingress'[p]
        /\ w.peerOut = egress'[x] /\ w.peerIn = ingress'[x]
    BY <1>1, <1>2, NextViewIs
  <2> QED BY <1>5, <1>6, <1>11, <1>12, <2>1
<1>14. PICK k : k = v.service.requSequId
  OBVIOUS
<1>15. f.source = p /\ f.seq = k
  <2>1. Asker(f) = p /\ f.seq = k
    BY <1>2, <1>5, <1>14, LiveIs
  <2> QED BY <2>1 DEF Asker
<1>16. f \in RequestOf(p, k)
  BY <1>5, <1>15 DEF RequestOf
<1>17. a \in ResponseTo(p, k) /\ b \in FollowUpTo(p, k)
  BY <1>8, <1>15
<1>18. w.peerOut = IF v.twoStep THEN Append(Append(v.peerOut, a), b) ELSE Append(v.peerOut, a)
  <2>1. PICK Q \in Seq(FrameT) : Q = egress[x]
    BY <1>5
  <2>2. a \in FrameT /\ b \in FrameT
    BY <1>17 DEF ResponseTo, FollowUpTo
  <2>3. Q \o <<a, b>> = Append(Append(Q, a), b) /\ Q \o <<a>> = Append(Q, a)
    BY <2>2
  <2>4. Answer(x, f) = PDelayAnswer(f, x, two)
    BY <1>6 DEF Answer
  <2>5. CASE two
    <3>1. Answer(x, f) = <<a, b>>
      <4>1. two = TRUE
        BY <2>5
      <4>2. a = CreatePDelayRespFrame(f, x, TRUE)
        BY <1>7, <4>1
      <4> QED BY <1>7, <2>4, <4>1, <4>2 DEF PDelayAnswer
    <3> QED BY <1>9, <1>13, <2>1, <2>3, <2>5, <3>1
  <2>6. CASE ~two
    <3>1. Answer(x, f) = <<a>>
      <4>1. two = FALSE
        BY <2>6
      <4>2. a = CreatePDelayRespFrame(f, x, FALSE)
        BY <1>7, <4>1
      <4> QED BY <2>4, <4>1, <4>2 DEF PDelayAnswer
    <3> QED BY <1>9, <1>13, <2>1, <2>3, <2>6, <3>1
  <2> QED BY <2>5, <2>6
<1>19. /\ v.peerIn # <<>> /\ Head(v.peerIn) = f /\ w.peerIn = Tail(v.peerIn)
       /\ w.on = v.on /\ w.out = v.out /\ w.peerOn = v.peerOn /\ w.in = v.in
       /\ w.held = v.held /\ w.asked = v.asked /\ w.peerClock = v.peerClock
       /\ w.service = v.service /\ w.twoStep = v.twoStep /\ w.clock = v.clock /\ w.now = v.now
  BY <1>5, <1>9, <1>13
<1>20. \E g \in CourseT : Course(p, w, g)
  BY <1>1, <1>3, <1>4, <1>8, <1>9, <1>14, <1>16, <1>17, <1>18, <1>19, RequestAnswered
<1> QED BY <1>1, <1>2, <1>20, SameService

LEMMA RequestDeliverKeeps ==
  ASSUME Typed, Typed', Tracked, Young, NEW x \in Ports, Deliver(x),
         NEW f, f = Head(ingress[x]), f.type = "PDELAY_REQ"
  PROVE  Tracked' /\ Young'
<1>1. clock' = clock /\ pdelay' = pdelay
  BY DeliverMoves
<1>2. /\ ingress[x] # <<>> /\ f \in FrameT /\ f \in InIngress(config.mechanism, x)
      /\ UNCHANGED <<config, now, wire>> /\ nic' = nic
      /\ \A q \in Ports : ingress'[q] = IF q = x THEN Tail(ingress[x]) ELSE ingress[q]
      /\ \A q \in Ports : egress[q] \in Seq(FrameT)
  BY DeliverQueues
<1>3. PICK p \in Ports : p = Peer[x] /\ p # x
  BY PeerApart
<1>4. f.source = p /\ f.type \in PDelays
  <2>1. f.type \in PDelays
    BY DEF PDelays
  <2>2. f \in OnWire(config.mechanism, Peer[x])
    BY <1>2 DEF InIngress
  <2> QED BY <1>3, <2>1, <2>2, PeersOfOthers
<1>5. PICK two \in BOOLEAN : two = config.twoStep[x[1]]
  BY PortTypes DEF Typed, ConfigTyped
<1>6. PICK a, b : a = CreatePDelayRespFrame(f, x, two) /\ b = CreatePDelayRespFUFrame(f, x)
  OBVIOUS
<1>7. a \in ResponseTo(p, f.seq) /\ b \in FollowUpTo(p, f.seq)
  BY <1>2, <1>4, <1>6, AnswersOf
<1>8. /\ a \in FrameT /\ a.type = "PDELAY_RESP" /\ Asker(a) = p /\ a.seq = f.seq
      /\ b \in FrameT /\ b.type = "PDELAY_RESP_FU" /\ Asker(b) = p /\ b.seq = f.seq
  BY <1>7 DEF ResponseTo, FollowUpTo, Asker
<1>9. a.type \in PDelays /\ b.type \in PDelays
  BY <1>8 DEF PDelays
<1>10. PICK F : F = {a, b}
  OBVIOUS
<1>11. F \subseteq FrameT
  BY <1>8, <1>10
<1>12. Answer(x, f) \in Seq(F)
  <2>1. Answer(x, f) = PDelayAnswer(f, x, two)
    BY <1>5 DEF Answer
  <2>2. <<a, b>> \in Seq(F) /\ <<a>> \in Seq(F)
    BY <1>10
  <2>3. CASE two
    <3>1. two = TRUE /\ a = CreatePDelayRespFrame(f, x, TRUE)
      BY <1>6, <2>3
    <3> QED BY <1>6, <2>1, <2>2, <3>1 DEF PDelayAnswer
  <2>4. CASE ~two
    <3>1. two = FALSE
      BY <2>4
    <3>2. a = CreatePDelayRespFrame(f, x, FALSE)
      BY <1>6, <3>1
    <3> QED BY <2>1, <2>2, <3>1, <3>2 DEF PDelayAnswer
  <2> QED BY <2>3, <2>4
<1>13. ASSUME NEW q \in Ports PROVE \E R \in Seq(F) : egress'[q] = egress[q] \o R
  <2>1. CASE q = x
    BY <1>4, <1>12, <2>1, DeliverHere
  <2>2. CASE q # x
    <3>1. PICK Q \in Seq(FrameT) : Q = egress[q]
      BY <1>2
    <3>2. Q \o <<>> = Q /\ <<>> \in Seq(F)
      OBVIOUS
    <3>3. egress'[q] = egress[q]
      BY <1>4, <2>2, DeliverHere
    <3> QED BY <3>1, <3>2, <3>3
  <2> QED BY <2>1, <2>2
<1>14. Calmly(F)
  <2>1. \A q \in Ports : \/ ingress'[q] = ingress[q]
                         \/ ingress[q] # <<>> /\ ingress'[q] = Tail(ingress[q])
    BY <1>2
  <2>2. \A n \in Nodes : SamePeers(nic'[n], nic[n]) /\ Moves(clock[n], clock'[n])
    BY <1>1, <1>2, SamePeersSelf, SameClock
  <2> QED BY <1>2, <1>13, <2>1, <2>2 DEF Calmly
<1>15. PICK s \in [Ports -> PDelayT] : s = pdelay /\ QueuesKnown(s)
  BY DEF Typed, ServicesTyped, Young
<1>16. F \subseteq Known(s)
  <2>1. ingress[x] \in Seq(Known(s))
    BY <1>15 DEF QueuesKnown
  <2>2. f \in Known(s)
    BY <1>2, <2>1, FirstKnown
  <2>3. Asker(f) = p
    BY <1>4 DEF Asker
  <2>4. f.seq < s[p].sequId
    BY <1>4, <2>2, <2>3 DEF Known
  <2> QED BY <1>8, <1>10, <2>4 DEF Known
<1>17. QueuesKnown(s)'
  BY <1>14, <1>15, <1>16, CalmKnown
<1>18. ASSUME NEW q \in Ports PROVE Undisturbed(q) \/ GoesOn(q)
  <2>1. CASE q = p /\ f \in Live(p, View(p))
    BY <1>1, <1>3, <2>1, RequestAnsweredOn
  <2>2. CASE ~(q = p /\ f \in Live(p, View(p)))
    <3>1. PICK v : v = View(q)
      OBVIOUS
    <3>2. a \notin Live(q, v) /\ b \notin Live(q, v)
      <4>1. CASE q = p
        <5>1. Asker(f) = p
          BY <1>4 DEF Asker
        <5>2. f.seq # v.service.requSequId
          BY <1>2, <1>4, <2>2, <3>1, <4>1, <5>1, LiveIs
        <5> QED BY <1>8, <5>2, LiveIs
      <4>2. CASE q # p
        BY <1>8, <4>2, LiveIs
      <4> QED BY <4>1, <4>2
    <3>3. clock'[q[1]] = clock[q[1]] /\ pdelay'[q] = pdelay[q]
      BY <1>1
    <3>4. \A g \in F : g \notin Live(q, View(q))
      BY <1>10, <3>1, <3>2
    <3> QED BY <1>11, <1>14, <3>3, <3>4, CalmUndisturbed
  <2> QED BY <2>1, <2>2
<1> QED BY <1>15, <1>17, <1>18, StepKeeps

LEMMA DeliverKeeps ==
  ASSUME Typed, Typed', Tracked, Young, NEW x \in Ports, Deliver(x)
  PROVE  Tracked' /\ Young'
<1>1. PICK f : f = Head(ingress[x])
  OBVIOUS
<1> QED BY <1>1, OtherDeliverKeeps, RequestDeliverKeeps

-----------------------------------------------------------------------------
(* Every request of every port stays on its course *)

LEMMA CoursesInit == Init => Tracked /\ Young
<1>1. SUFFICES ASSUME Init PROVE Tracked /\ Young
  OBVIOUS
<1>2. Typed
  BY <1>1, TypedInit
<1>3. PICK s \in [Ports -> PDelayT] : s = pdelay
  BY <1>2 DEF Typed, ServicesTyped
<1>4. ASSUME NEW p \in Ports
      PROVE  /\ egress[p] = <<>> /\ ingress[p] = <<>> /\ wire[p] = <<>>
             /\ nic[p[1]].pdelayReqResp = <<>> /\ nic[p[1]].pdelayRespFu = <<>>
             /\ s[p].sequId = 0 /\ s[p].requSequId = 0 /\ ~s[p].clean
  <2>1. egress[p] = <<>> /\ ingress[p] = <<>> /\ wire[p] = <<>>
    BY <1>1 DEF Init
  <2>2. nic[p[1]] = NicCtrl([q \in PortsOf(p[1]) |-> Asymmetry[q]])
    BY <1>1, PortTypes DEF Init
  <2>3. nic[p[1]].pdelayReqResp = <<>> /\ nic[p[1]].pdelayRespFu = <<>>
    BY <2>2 DEF NicCtrl
  <2>4. PICK g : s[p] = AppPDelay(g)
    BY <1>1, <1>3 DEF Init
  <2>5. s[p].sequId = 0 /\ s[p].requSequId = 0 /\ ~s[p].clean
    BY <2>4 DEF AppPDelay
  <2> QED BY <2>1, <2>3, <2>5
<1>5. QueuesKnown(s)
  <2>1. \A T : <<>> \in Seq(T)
    OBVIOUS
  <2> QED BY <1>4, <2>1 DEF QueuesKnown
<1>6. \A p \in Ports : Numbered(s[p])
  BY <1>4 DEF Numbered
<1>7. ASSUME NEW p \in Ports PROVE \E h \in CourseT : Course(p, View(p), h)
  <2>1. PICK v \in ViewT : v = View(p)
    BY <1>2, ViewTyped
  <2>2. PICK q \in Ports : q = Peer[p]
    BY PortTypes
  <2>3. /\ v.out = <<>> /\ v.on = <<>> /\ v.in = <<>> /\ v.peerOut = <<>> /\ v.peerOn = <<>>
        /\ v.peerIn = <<>> /\ v.asked = <<>> /\ v.held = <<>> /\ v.service = s[p]
    <3>1. /\ v.out = egress[p] /\ v.on = wire[p] /\ v.in = ingress[p]
          /\ v.peerOut = egress[q] /\ v.peerOn = wire[q] /\ v.peerIn = ingress[q]
          /\ v.asked = nic[p[1]].pdelayReqResp /\ v.held = nic[q[1]].pdelayRespFu
          /\ v.service = pdelay[p]
      BY <2>1, <2>2, ViewIs
    <3> QED BY <1>3, <1>4, <3>1
  <2>4. \A S : None(<<>>, S)
    BY DEF None
  <2>5. Unknown(p, v, v.service.requSequId)
    BY <1>4, <2>3, <2>4 DEF Unknown
  <2> QED BY <2>1, <2>5, CourseEnds
<1> QED BY <1>3, <1>5, <1>6, <1>7 DEF Tracked, Young

\* The course of a port in a step that changes nothing.
LEMMA CoursesStutter ==
  ASSUME Tracked, Young, UNCHANGED vars PROVE Tracked' /\ Young'
<1>1. UNCHANGED <<config, now, clock, nic, ingress, egress, wire, pdelay>>
  BY DEF vars
<1>2. Tracked'
  BY <1>1 DEF Tracked, View
<1>3. Young'
  BY <1>1 DEF Young, QueuesKnown, Known, KnownEntries
<1> QED BY <1>2, <1>3

LEMMA CoursesNext ==
  ASSUME Typed, Tracked, Young, [Next]_vars PROVE Typed' /\ Tracked' /\ Young'
<1>1. Typed'
  BY TypedNext
<1>2. CASE UNCHANGED vars
  BY <1>1, <1>2, CoursesStutter
<1>3. CASE SendSync
  BY <1>1, <1>3, SendSyncKeeps
<1>4. CASE SendDelayReq
  BY <1>1, <1>4, SendDelayReqKeeps
<1>5. CASE \E p \in Requesters : SendPDelayReq(p)
  BY <1>1, <1>5, NetworkAssumption, SendPDelayReqKeeps
<1>6. CASE \E p \in Ports : Transmit(p)
  BY <1>1, <1>6, TransmitKeeps
<1>7. CASE \E p \in Ports : Receive(p) \/ Lose(p)
  BY <1>1, <1>7, ReceiveKeeps
<1>8. CASE \E p \in Ports : Deliver(p)
  BY <1>1, <1>8, DeliverKeeps
<1>9. CASE \E n \in Nodes : Control(n)
  BY <1>1, <1>9, ControlKeeps
<1>10. CASE \E n \in Nodes : JumpTransparent(n)
  BY <1>1, <1>10, JumpTransparentKeeps
<1>11. CASE Elapse
  BY <1>1, <1>11, ElapseKeeps
<1> QED BY <1>2, <1>3, <1>4, <1>5, <1>6, <1>7, <1>8, <1>9, <1>10, <1>11 DEF Next

\* For a chain of any length: every port can account for the request that it waits for,
\* and every queue holds only messages of requests that have been made.
THEOREM RequestsOnCourse == Spec => [](Typed /\ Tracked /\ Young)
<1>1. Init => Typed /\ Tracked /\ Young
  BY TypedInit, CoursesInit
<1>2. Typed /\ Tracked /\ Young /\ [Next]_vars => (Typed /\ Tracked /\ Young)'
  BY CoursesNext
<1> QED BY <1>1, <1>2, PTL DEF Spec

-----------------------------------------------------------------------------
(* What is measured *)

\* The measurement of x says r, and whether it is clean.
Measures(x, r, c) == SetPeerDelay(x, r, c) /\ (c => r = BothWays(x))

LEMMA ResponseMeasures ==
  ASSUME Typed, Tracked, NEW x \in Ports, NEW f \in FrameT, ingress[x] # <<>>, f = Head(ingress[x]),
         f.type = "PDELAY_RESP", HandlePDelayResp(x, f)
  PROVE  \/ UNCHANGED <<portEstimate, control, measure, trusted>>
         \/ \E r \in Int, c \in BOOLEAN : Measures(x, r, c)
<1>1. CASE f.twoStep
  BY <1>1 DEF HandlePDelayResp
<1>2. CASE ~f.twoStep
  <2>1. /\ f.reqEgress \in Int /\ f.stamp.time \in Int /\ f.receipt \in Int /\ f.corr \in Int
        /\ f.clean \in BOOLEAN
    BY DEF FrameT, TimeT
  <2>2. PICK r \in Int : r = PeerRoundTrip(f.reqEgress, f.stamp.time, f.receipt, 0, f.corr, 0)
    <3>1. PICK z \in Int : z = 0
      OBVIOUS
    <3> QED BY <2>1, <3>1, PeerRoundTripTyped
  <2>3. PICK c \in BOOLEAN : c = f.clean
    BY <2>1
  <2>4. SetPeerDelay(x, r, c) /\ PDelayExpected(pdelay[x], f, x)
    BY <1>2, <2>2, <2>3 DEF HandlePDelayResp
  <2>5. ASSUME c PROVE r = BothWays(x)
    <3>1. PICK v \in ViewT : v = View(x)
      BY ViewTyped
    <3>2. PICK h \in CourseT : Course(x, v, h)
      BY <3>1 DEF Tracked
    <3>3. v.in = ingress[x] /\ v.service = pdelay[x]
      BY <3>1, ViewIs
    <3>4. f \in ResponseTo(x, v.service.requSequId)
      BY <2>4, <3>3 DEF PDelayExpected, ResponseTo
    <3>5. f.clean
      BY <2>3, <2>5
    <3> QED BY <1>2, <2>2, <3>2, <3>3, <3>4, <3>5, OneStepTrue
  <2> QED BY <2>4, <2>5 DEF Measures
<1> QED BY <1>1, <1>2

LEMMA FollowUpMeasures ==
  ASSUME Typed, Tracked, NEW x \in Ports, NEW f \in FrameT, ingress[x] # <<>>, f = Head(ingress[x]),
         f.type = "PDELAY_RESP_FU", HandlePDelayRespFU(x, f)
  PROVE  \E r \in Int, c \in BOOLEAN : Measures(x, r, c)
<1>1. PICK s \in PDelayT : s = pdelay[x]
  BY DEF Typed, ServicesTyped
<1>2. /\ s.reqEgress \in Int /\ s.respIngress \in Int /\ s.requestReceipt \in Int
      /\ s.respCorr \in Int /\ s.clean \in BOOLEAN /\ f.origin \in Int /\ f.corr \in Int
  BY DEF PDelayT, FrameT
<1>3. PICK r \in Int : r = PeerRoundTrip(s.reqEgress, s.respIngress, s.requestReceipt,
                                         f.origin, s.respCorr, f.corr)
  BY <1>2, PeerRoundTripTyped
<1>4. PICK c \in BOOLEAN : c = s.clean
  BY <1>2
<1>5. /\ SetPeerDelay(x, r, c) /\ PDelayExpected(s, f, x) /\ f.seq = s.respSequID
  BY <1>1, <1>3, <1>4 DEF HandlePDelayRespFU
<1>6. ASSUME c PROVE r = BothWays(x)
  <2>1. PICK v \in ViewT : v = View(x)
    BY ViewTyped
  <2>2. PICK h \in CourseT : Course(x, v, h)
    BY <2>1 DEF Tracked
  <2>3. v.in = ingress[x] /\ v.service = s
    BY <1>1, <2>1, ViewIs
  <2>4. f \in FollowUpTo(x, s.requSequId) /\ s.respSequID = s.requSequId
    BY <1>5 DEF PDelayExpected, FollowUpTo
  <2>5. s.clean
    BY <1>4, <1>6
  <2> QED BY <1>3, <2>2, <2>3, <2>4, <2>5, TwoStepTrue
<1> QED BY <1>5, <1>6 DEF Measures

\* A frame that is delivered ends a measurement, or changes no peer delay.
LEMMA DeliverMeasures ==
  ASSUME Typed, Tracked, NEW x \in Ports, Deliver(x)
  PROVE  \/ UNCHANGED <<portEstimate, control, trusted>> /\ (E2E \/ measure' = measure)
         \/ \E r \in Int, c \in BOOLEAN : Measures(x, r, c)
<1>1. PICK f : f = Head(ingress[x])
  OBVIOUS
<1>2. ingress[x] # <<>> /\ f \in InIngress(config.mechanism, x) /\ f \in FrameT
  BY <1>1, DeliverQueues
<1>3. \/ HandlePtpFrame(x, f)
      \/ UNCHANGED <<clock, pdelay, left, sync, delay, control, estimate, portEstimate,
                     measure, sample, used, trusted>>
  BY <1>1 DEF Deliver
<1>4. CASE UNCHANGED <<control, portEstimate, measure, trusted>>
  BY <1>4
<1>5. CASE f.type = "DELAY_RESP" /\ UNCHANGED <<control, portEstimate, trusted>>
  <2>1. Genuine(config.mechanism, f)
    BY <1>2 DEF InIngress, OnWire
  <2>2. E2E
    BY <1>5, <2>1 DEF Genuine, Delays, E2E
  <2> QED BY <1>5, <2>2
<1>6. CASE f.type = "PDELAY_RESP" /\ HandlePDelayResp(x, f)
  BY <1>1, <1>2, <1>6, ResponseMeasures
<1>7. CASE f.type = "PDELAY_RESP_FU" /\ HandlePDelayRespFU(x, f)
  BY <1>1, <1>2, <1>7, FollowUpMeasures
<1>8. CASE HandlePtpFrame(x, f)
  BY <1>4, <1>5, <1>6, <1>7, <1>8 DEF HandlePtpFrame
<1> QED BY <1>3, <1>4, <1>8

\* Other steps measure nothing.
LEMMA OthersMeasureNothing ==
  ASSUME [Next]_vars
  PROVE  \/ \E x \in Ports : Deliver(x)
         \/ UNCHANGED <<portEstimate, measure, trusted>>
<1>1. CASE UNCHANGED vars
  BY <1>1 DEF vars
<1>2. CASE SendSync \/ SendDelayReq \/ Elapse
  BY <1>2 DEF SendSync, SendDelayReq, Elapse
<1>3. CASE \E p \in Requesters : SendPDelayReq(p)
  BY <1>3 DEF SendPDelayReq
<1>4. CASE \E p \in Ports : Transmit(p) \/ Receive(p) \/ Lose(p)
  BY <1>4 DEF Transmit, Receive, Lose
<1>5. CASE \E n \in Nodes : Control(n) \/ JumpTransparent(n)
  BY <1>5 DEF Control, JumpTransparent
<1> QED BY <1>1, <1>2, <1>3, <1>4, <1>5 DEF Next

LEMMA ConfigStays == [Next]_vars => config' = config
<1>1. SUFFICES ASSUME [Next]_vars PROVE config' = config
  OBVIOUS
<1>2. CASE UNCHANGED vars
  BY <1>2 DEF vars
<1>3. CASE SendSync \/ SendDelayReq \/ Elapse
  BY <1>3 DEF SendSync, SendDelayReq, Elapse
<1>4. CASE \E p \in Requesters : SendPDelayReq(p)
  BY <1>4 DEF SendPDelayReq
<1>5. CASE \E p \in Ports : Transmit(p) \/ Receive(p) \/ Lose(p) \/ Deliver(p)
  BY <1>5 DEF Transmit, Receive, Lose, Deliver
<1>6. CASE \E n \in Nodes : Control(n) \/ JumpTransparent(n)
  BY <1>6 DEF Control, JumpTransparent
<1> QED BY <1>1, <1>2, <1>3, <1>4, <1>5, <1>6 DEF Next

-----------------------------------------------------------------------------
(* The delay of a link *)

\* The mean delay of a link is half of what both ways take.
LEMMA MeanIsHalf ==
  ASSUME NEW x \in Ports
  PROVE  /\ MeanDelay[x] \in Nat /\ BothWays(x) \in Int
         /\ MeanDelay[x] = BothWays(x) \div 2
<1>1. Peer[x] \in Ports /\ LinkDelay \in [Ports -> Nat] /\ MeanDelay \in [Ports -> Nat]
  BY NetworkAssumption
<1>2. MeanDelay[x] = (LinkDelay[x] + LinkDelay[Peer[x]]) \div 2
  BY MeanAssumption
<1>3. LinkDelay[x] \in Nat /\ LinkDelay[Peer[x]] \in Nat
  BY <1>1
<1>4. LinkDelay[x] + LinkDelay[Peer[x]] \in Int
  BY <1>3
<1> QED BY <1>1, <1>2, <1>4 DEF BothWays

\* A measurement that is clean says the truth.
LEMMA MeasuresTruly ==
  ASSUME NEW x \in Ports, NEW r \in Int, NEW c \in BOOLEAN, Measures(x, r, c)
  PROVE  /\ measure'.clean = c
         /\ c => measure'.error = 0
<1>1. PICK d \in Int : d = r \div 2
  OBVIOUS
<1>2. measure' = Judged(d - MeanDelay[x], c)
  BY <1>1 DEF Measures, SetPeerDelay
<1>3. measure'.clean = c /\ measure'.error = d - MeanDelay[x]
  BY <1>2 DEF Judged
<1>4. ASSUME c PROVE d - MeanDelay[x] = 0
  <2>1. d = MeanDelay[x] /\ MeanDelay[x] \in Int
    BY <1>1, <1>4, MeanIsHalf DEF Measures
  <2> QED BY <2>1
<1> QED BY <1>3, <1>4

\* What is measured stays true.
PeerDelayIsTrue == ~E2E => PathDelayIsTrue

LEMMA PeerDelayNext ==
  ASSUME Typed, Tracked, PeerDelayIsTrue, [Next]_vars PROVE PeerDelayIsTrue'
<1>1. E2E' <=> E2E
  BY ConfigStays DEF E2E
<1>2. CASE measure' = measure
  BY <1>1, <1>2 DEF PeerDelayIsTrue, PathDelayIsTrue
<1>3. CASE E2E
  BY <1>1, <1>3 DEF PeerDelayIsTrue
<1>4. CASE \E x \in Ports : Deliver(x)
  <2>1. PICK x \in Ports : Deliver(x)
    BY <1>4
  <2>2. ASSUME \E r \in Int, c \in BOOLEAN : Measures(x, r, c) PROVE PathDelayIsTrue'
    <3>1. PICK r \in Int, c \in BOOLEAN : Measures(x, r, c)
      BY <2>2
    <3>2. measure'.clean = c /\ (c => measure'.error = 0)
      BY <3>1, MeasuresTruly
    <3> QED BY <3>2 DEF PathDelayIsTrue
  <2>3. measure' = measure \/ E2E \/ \E r \in Int, c \in BOOLEAN : Measures(x, r, c)
    BY <2>1, DeliverMeasures
  <2> QED BY <1>2, <1>3, <2>2, <2>3 DEF PeerDelayIsTrue
<1> QED BY <1>2, <1>4, OthersMeasureNothing

\* For a chain of any length, with peer delays: a path delay that is measured is the true
\* one, whatever jumps, is lost or waits.
THEOREM PeerDelayAlwaysTrue == Spec => [](~E2E => PathDelayIsTrue)
<1>1. Init => PeerDelayIsTrue
  BY DEF Init, PeerDelayIsTrue, PathDelayIsTrue, Judged
<1>2. Typed /\ Tracked /\ PeerDelayIsTrue /\ [Next]_vars => PeerDelayIsTrue'
  BY PeerDelayNext
<1>3. PeerDelayIsTrue => (~E2E => PathDelayIsTrue)
  BY DEF PeerDelayIsTrue
<1> QED BY <1>1, <1>2, <1>3, RequestsOnCourse, PTL DEF Spec

-----------------------------------------------------------------------------
(* Frames that may leave *)

\* A Sync or a request was time stamped no later than now.
TakenBefore(f, t, c) ==
  f.type \in {"SYNC", "DELAY_REQ"} =>
    /\ f.stamp.epoch <= c.epoch
    /\ f.stamp.epoch = c.epoch => f.stamp.time <= t + c.offset

\* A frame fits the way in which its clock works.
Apt(f, two) ==
  /\ f.type \in {"SYNC", "PDELAY_RESP"} => f.twoStep = two
  /\ f.type \in {"FOLLOW_UP", "PDELAY_RESP_FU"} => two

\* The frames whose stamp is no later than what a clock c shows at the time t.
CameBefore(t, c) == {f \in FrameT : TakenBefore(f, t, c)}

\* What may wait to leave by p: own frames of the right kind, others after they came.
MayLeave(p, two, t, c) ==
  {f \in FrameT : /\ f.source = p => Apt(f, two)
                  /\ f.source # p => TakenBefore(f, t, c)}

\* A handler whose condition holds does not fail.
Done(out) ==
  \E c, o : /\ c
            /\ out = Expect(c, o)
            /\ \/ \E g, tab : o = Out(g, tab)
               \/ \E g, tab, r : o = [Out(g, tab) EXCEPT !.requ = r]

LEMMA WellDone == ASSUME NEW out, Done(out) PROVE ~out.failed
<1>1. PICK c, o : /\ c
                  /\ out = Expect(c, o)
                  /\ \/ \E g, tab : o = Out(g, tab)
                     \/ \E g, tab, r : o = [Out(g, tab) EXCEPT !.requ = r]
  BY DEF Done
<1>2. PICK g, tab, r : o = [frame |-> g, nic |-> tab, requ |-> r, failed |-> FALSE]
  BY <1>1 DEF Out
<1>3. out = [o EXCEPT !.failed = FALSE]
  <2>1. o.failed = FALSE
    BY <1>2
  <2> QED BY <1>1, <2>1 DEF Expect
<1> QED BY <1>2, <1>3

LEMMA OwnGoesWell ==
  ASSUME NEW p \in Ports, NEW m, NEW two \in BOOLEAN, NEW ctl, NEW clk,
         NEW f \in InEgress(m, p), f.source = p, Apt(f, two)
  PROVE  ~HandleEgress(MacOf(m, two, p), ctl, f, clk).failed
<1>1. PICK mac : mac = MacOf(m, two, p)
  OBVIOUS
<1>2. mac.id = p /\ mac.mechanism = m /\ mac.twoStep = two
  BY <1>1 DEF MacOf
<1>3. PICK out : out = HandleEgress(mac, ctl, f, clk)
  OBVIOUS
<1>4. out = HandleEgressOwnPtp(mac, ctl, f, clk)
  BY <1>2, <1>3 DEF HandleEgress
<1>5. f.type \in FrameTypes /\ (f.type \in Delays => m = "E2E") /\ (f.type \in PDelays => m = "P2P")
  BY DEF InEgress, OnWire, Genuine, FrameT
<1>6. CASE f.type = "SYNC"
  <2>1. out = HandleEgressOwnSync(mac, ctl, f, clk)
    BY <1>4, <1>6 DEF HandleEgressOwnPtp
  <2>2. mac.twoStep = f.twoStep
    BY <1>2, <1>6 DEF Apt
  <2>3. Done(out)
    BY <2>1, <2>2, Zenon DEF HandleEgressOwnSync, Done
  <2> QED BY <1>1, <1>3, <2>3, WellDone
<1>7. CASE f.type = "FOLLOW_UP"
  <2>1. out = HandleEgressOwnFollowUp(mac, ctl, f, clk)
    BY <1>4, <1>7 DEF HandleEgressOwnPtp
  <2>2. mac.twoStep
    BY <1>2, <1>7 DEF Apt
  <2>3. Done(out)
    BY <2>1, <2>2, Zenon DEF HandleEgressOwnFollowUp, Done
  <2> QED BY <1>1, <1>3, <2>3, WellDone
<1>8. CASE f.type = "DELAY_REQ"
  <2>1. out = HandleEgressOwnDelayReq(mac, ctl, f, clk)
    BY <1>4, <1>8 DEF HandleEgressOwnPtp
  <2>2. mac.mechanism = "E2E"
    BY <1>2, <1>5, <1>8 DEF Delays
  <2>3. Done(out)
    BY <2>1, <2>2, Zenon DEF HandleEgressOwnDelayReq, Done
  <2> QED BY <1>1, <1>3, <2>3, WellDone
<1>9. CASE f.type = "DELAY_RESP"
  <2>1. out = HandleEgressOwnDelayResp(mac, ctl, f, clk)
    BY <1>4, <1>9 DEF HandleEgressOwnPtp
  <2>2. mac.mechanism = "E2E"
    BY <1>2, <1>5, <1>9 DEF Delays
  <2>3. Done(out)
    BY <2>1, <2>2, Zenon DEF HandleEgressOwnDelayResp, Done
  <2> QED BY <1>1, <1>3, <2>3, WellDone
<1>10. CASE f.type = "PDELAY_REQ"
  <2>1. out = HandleEgressOwnPDelayReq(mac, ctl, f, clk)
    BY <1>4, <1>10 DEF HandleEgressOwnPtp
  <2>2. mac.mechanism = "P2P"
    BY <1>2, <1>5, <1>10 DEF PDelays
  <2>3. Done(out)
    BY <2>1, <2>2, Zenon DEF HandleEgressOwnPDelayReq, Done
  <2> QED BY <1>1, <1>3, <2>3, WellDone
<1>11. CASE f.type = "PDELAY_RESP"
  <2>1. out = HandleEgressOwnPDelayResp(mac, ctl, f, clk)
    BY <1>4, <1>11 DEF HandleEgressOwnPtp
  <2>2. mac.twoStep = f.twoStep
    BY <1>2, <1>11 DEF Apt
  <2>3. Done(out)
    BY <2>1, <2>2, Zenon DEF HandleEgressOwnPDelayResp, Done
  <2> QED BY <1>1, <1>3, <2>3, WellDone
<1>12. CASE f.type = "PDELAY_RESP_FU"
  <2>1. out = HandleEgressOwnPDelayRespFU(mac, ctl, f, clk)
    BY <1>4, <1>12 DEF HandleEgressOwnPtp
  <2>2. mac.twoStep
    BY <1>2, <1>12 DEF Apt
  <2>3. Done(out)
    BY <2>1, <2>2, Zenon DEF HandleEgressOwnPDelayRespFU, Done
  <2> QED BY <1>1, <1>3, <2>3, WellDone
<1> QED BY <1>5, <1>6, <1>7, <1>8, <1>9, <1>10, <1>11, <1>12 DEF FrameTypes, Delays, PDelays

\* The frames of other clocks leave ports of transparent clocks only.
LEMMA ForeignOnTransparent ==
  ASSUME NEW p \in Ports, NEW m, NEW f \in InEgress(m, p), f.source # p
  PROVE  ClockType(p[1]) = "TRANSPARENT" /\ f.type \notin PDelays
<1>1. Genuine(m, f) /\ LeavesBy(f, p) /\ f.type \in FrameTypes
  BY DEF InEgress, OnWire, FrameT
<1>2. f.type \notin PDelays
  BY <1>1 DEF LeavesBy
<1>3. p # MasterPort /\ p # SlavePort
  <2>1. MasterPort \in Down /\ SlavePort \notin Down
    BY NetworkAssumption
  <2> QED BY <1>1, <1>2, <2>1 DEF LeavesBy, Genuine, FrameTypes, Delays
<1>4. p[1] # MasterPort[1] /\ p[1] # SlavePort[1]
  <2>1. p \in PortsOf(p[1])
    BY DEF PortsOf
  <2> QED BY <1>3, <2>1, NetworkAssumption
<1> QED BY <1>2, <1>4 DEF ClockType

\* How long a frame was in the clock is no negative time.
LEMMA StaysNoLess ==
  ASSUME NEW mac, NEW n, NEW ctl \in NicT(n), NEW f \in FrameT, f.rx \in PortsOf(n),
         NEW t \in Nat, NEW c \in [offset : Int, epoch : Nat], TakenBefore(f, t, c),
         f.type \in {"SYNC", "DELAY_REQ"},
         mac.mechanism = "P2P" => ctl.peerMeanPathDelay[f.rx] >= 0,
         NEW clk, clk = [time |-> t + c.offset, epoch |-> c.epoch]
  PROVE  NotNegative(mac, ctl, f, f.rx, clk)
<1>1. PICK s \in Int : s = f.stamp.time
  BY DEF FrameT, TimeT
<1>2. PICK d \in Int : d = ctl.peerMeanPathDelay[f.rx]
  BY DEF NicT
<1>3. PICK a \in Int, b \in Int :
        /\ a = IF f.stamp.epoch = clk.epoch THEN clk.time - f.stamp.time ELSE 0
        /\ b = IF mac.mechanism = "P2P" THEN ctl.peerMeanPathDelay[f.rx] ELSE 0
  <2>1. clk.time \in Int
    OBVIOUS
  <2> QED BY <1>1, <1>2, <2>1
<1>4. a >= 0
  <2>1. CASE f.stamp.epoch = c.epoch
    <3>1. s <= t + c.offset /\ t + c.offset \in Int
      BY <1>1, <2>1 DEF TakenBefore
    <3>2. a = t + c.offset - s
      BY <1>1, <1>3, <2>1
    <3> QED BY <3>1, <3>2
  <2>2. CASE f.stamp.epoch # c.epoch
    BY <1>3, <2>2
  <2> QED BY <2>1, <2>2
<1>5. b >= 0
  BY <1>2, <1>3
<1>6. a + b >= 0
  BY <1>4, <1>5
<1>7. CalcResidenceTime(mac, ctl, f, f.rx, clk) = a + b
  BY <1>3 DEF CalcResidenceTime
<1> QED BY <1>6, <1>7 DEF NotNegative

LEMMA ForeignGoesWell ==
  ASSUME NEW p \in Ports, NEW m, NEW two \in BOOLEAN, NEW ctl \in NicT(p[1]),
         NEW f \in InEgress(m, p), f.source # p,
         NEW t \in Nat, NEW c \in [offset : Int, epoch : Nat], TakenBefore(f, t, c),
         f.type = "SYNC" /\ m = "P2P" => ctl.peerMeanPathDelay[f.rx] >= 0,
         NEW clk, clk = [time |-> t + c.offset, epoch |-> c.epoch]
  PROVE  ~HandleEgress(MacOf(m, two, p), ctl, f, clk).failed
<1>1. PICK mac : mac = MacOf(m, two, p)
  OBVIOUS
<1>2. /\ mac.id = p /\ mac.mechanism = m /\ mac.twoStep = two
      /\ mac.clockType = ClockType(p[1])
  BY <1>1 DEF MacOf
<1>3. PICK out : out = HandleEgress(mac, ctl, f, clk)
  OBVIOUS
<1>4. out = HandleEgressForeignPtp(mac, ctl, f, clk)
  BY <1>2, <1>3 DEF HandleEgress
<1>5. f.type \in FrameTypes \ PDelays /\ (f.type \in Delays => m = "E2E")
  BY ForeignOnTransparent DEF InEgress, OnWire, Genuine, FrameT
<1>6. ~Ordinary(mac)
  BY <1>2, ForeignOnTransparent DEF Ordinary
<1>7. f.type \in Delays => MayForward(mac)
  BY <1>2, <1>5, <1>6 DEF MayForward
<1>8. f.type \in {"SYNC", "DELAY_REQ"} => NotNegative(mac, ctl, f, f.rx, clk)
  <2>1. HAVE f.type \in {"SYNC", "DELAY_REQ"}
  <2>2. f \in FrameT /\ f.rx \in PortsOf(p[1])
    BY <2>1 DEF InEgress, OnWire
  <2>3. mac.mechanism = "P2P" => ctl.peerMeanPathDelay[f.rx] >= 0
    BY <1>2, <1>5, <2>1 DEF Delays
  <2> QED BY <2>1, <2>2, <2>3, StaysNoLess
<1>9. CASE f.type = "SYNC"
  <2>1. out = HandleEgressForeignSync(mac, ctl, f, clk)
    BY <1>4, <1>9 DEF HandleEgressForeignPtp
  <2>2. NotNegative(mac, ctl, f, f.rx, clk)
    BY <1>8, <1>9
  <2>3. Done(out)
    BY <1>6, <2>1, <2>2, Zenon DEF HandleEgressForeignSync, Done
  <2> QED BY <1>1, <1>3, <2>3, WellDone
<1>10. CASE f.type = "FOLLOW_UP"
  <2>1. out = HandleEgressForeignFollowUp(mac, ctl, f, clk)
    BY <1>4, <1>10 DEF HandleEgressForeignPtp
  <2>2. Done(out)
    BY <1>6, <2>1, Zenon DEF HandleEgressForeignFollowUp, Done
  <2> QED BY <1>1, <1>3, <2>2, WellDone
<1>11. CASE f.type = "DELAY_REQ"
  <2>1. out = HandleEgressForeignDelayReq(mac, ctl, f, clk)
    BY <1>4, <1>11 DEF HandleEgressForeignPtp
  <2>2. MayForward(mac) /\ NotNegative(mac, ctl, f, f.rx, clk)
    BY <1>7, <1>8, <1>11 DEF Delays
  <2>3. Done(out)
    BY <2>1, <2>2, Zenon DEF HandleEgressForeignDelayReq, Done
  <2> QED BY <1>1, <1>3, <2>3, WellDone
<1>12. CASE f.type = "DELAY_RESP"
  <2>1. out = HandleEgressForeignDelayResp(mac, ctl, f, clk)
    BY <1>4, <1>12 DEF HandleEgressForeignPtp
  <2>2. MayForward(mac)
    BY <1>7, <1>12 DEF Delays
  <2>3. Done(out)
    BY <2>1, <2>2, Zenon DEF HandleEgressForeignDelayResp, Done
  <2> QED BY <1>1, <1>3, <2>3, WellDone
<1> QED BY <1>5, <1>9, <1>10, <1>11, <1>12 DEF FrameTypes, Delays, PDelays

-----------------------------------------------------------------------------
(* The peer delays that may be trusted *)

TrueUpdates(p) ==
  {m \in Messages(p[1]) : m.what = "PATH_DELAY" /\ m.port = p => m.delay = MeanDelay[p]}

\* What data set and NIC control say of a link is nothing yet, or the truth.
TrustedAt(p, e, r, C) ==
  e \in {0, MeanDelay[p]} /\ r \in {0, MeanDelay[p]} /\ C \in Seq(TrueUpdates(p))

\* A link whose measurements were all clean is known truly, or not yet.
TrustsTheTruth ==
  \A p \in Ports : trusted[p] =>
    TrustedAt(p, portEstimate[p], nic[p[1]].peerMeanPathDelay[p], control[p[1]])

\* The step may ask for a Follow_Up on behalf of some port.
Asking ==
  \A n \in Nodes : \/ control'[n] = control[n]
                   \/ \E m \in Messages(n) : m.what # "PATH_DELAY"
                                             /\ control'[n] = Append(control[n], m)

LEMMA TrustStays ==
  ASSUME Typed, TrustsTheTruth, Asking, UNCHANGED <<portEstimate, trusted>>,
         \A p \in Ports : nic'[p[1]].peerMeanPathDelay[p] = nic[p[1]].peerMeanPathDelay[p]
  PROVE  TrustsTheTruth'
<1>1. ASSUME NEW p \in Ports, trusted[p]
      PROVE  TrustedAt(p, portEstimate'[p], nic'[p[1]].peerMeanPathDelay[p], control'[p[1]])
  <2>1. TrustedAt(p, portEstimate[p], nic[p[1]].peerMeanPathDelay[p], control[p[1]])
    BY <1>1 DEF TrustsTheTruth
  <2>2. PICK n \in Nodes : n = p[1]
    BY PortTypes
  <2>3. PICK T, C : T = TrueUpdates(p) /\ C = control[n] /\ C \in Seq(T)
    BY <2>1, <2>2 DEF TrustedAt
  <2>4. ASSUME NEW m \in Messages(n), m.what # "PATH_DELAY" PROVE Append(C, m) \in Seq(T)
    <3>1. m \in T
      BY <2>2, <2>3, <2>4 DEF TrueUpdates
    <3> QED BY <2>3, <3>1
  <2>5. control'[n] \in Seq(T)
    BY <2>3, <2>4 DEF Asking
  <2> QED BY <2>1, <2>2, <2>3, <2>5 DEF TrustedAt
<1> QED BY <1>1 DEF TrustsTheTruth

LEMMA TrustStarts == Init => TrustsTheTruth
<1>1. SUFFICES ASSUME Init, NEW p \in Ports
      PROVE TrustedAt(p, portEstimate[p], nic[p[1]].peerMeanPathDelay[p], control[p[1]])
  BY DEF TrustsTheTruth
<1>2. portEstimate[p] = 0 /\ control[p[1]] = <<>>
  BY <1>1, PortTypes DEF Init
<1>3. PICK a : a = [q \in PortsOf(p[1]) |-> Asymmetry[q]]
  OBVIOUS
<1>4. nic[p[1]] = NicCtrl(a)
  BY <1>1, <1>3, PortTypes DEF Init
<1>5. nic[p[1]].peerMeanPathDelay[p] = 0
  BY <1>3, <1>4, PortTypes DEF NicCtrl
<1>6. \A T : <<>> \in Seq(T)
  OBVIOUS
<1> QED BY <1>2, <1>5, <1>6 DEF TrustedAt

LEMMA MeasureTrusts ==
  ASSUME Typed, TrustsTheTruth, nic' = nic, NEW x \in Ports, NEW r \in Int, NEW c \in BOOLEAN,
         Measures(x, r, c)
  PROVE  TrustsTheTruth'
<1>1. PICK d \in Int : d = r \div 2
  OBVIOUS
<1>2. PICK m : m = [what |-> "PATH_DELAY", port |-> x, delay |-> d]
  OBVIOUS
<1>3. /\ portEstimate' = [portEstimate EXCEPT ![x] = d]
      /\ control' = [control EXCEPT ![x[1]] = Append(@, m)]
      /\ trusted' = [trusted EXCEPT ![x] = @ /\ c]
  BY <1>1, <1>2 DEF Measures, SetPeerDelay
<1>4. /\ portEstimate \in [Ports -> Int] /\ trusted \in [Ports -> BOOLEAN]
      /\ control = [n \in Nodes |-> control[n]]
  BY DEF Typed, ResultsTyped, ControlTyped
<1>5. m \in Messages(x[1])
  BY <1>2, PortTypes DEF Messages, Updates
<1>6. ASSUME NEW p \in Ports, trusted'[p]
      PROVE  TrustedAt(p, portEstimate'[p], nic'[p[1]].peerMeanPathDelay[p], control'[p[1]])
  <2>1. trusted[p] /\ (p = x => c)
    <3>1. CASE p = x
      <4>1. trusted'[p] = (trusted[p] /\ c)
        BY <1>3, <1>4, <3>1
      <4> QED BY <4>1, <1>6
    <3>2. CASE p # x
      BY <1>3, <1>4, <1>6, <3>2
    <3> QED BY <3>1, <3>2
  <2>2. TrustedAt(p, portEstimate[p], nic[p[1]].peerMeanPathDelay[p], control[p[1]])
    BY <2>1 DEF TrustsTheTruth
  <2>3. p = x => d = MeanDelay[x]
    BY <1>1, <2>1, MeanIsHalf DEF Measures
  <2>4. portEstimate'[p] \in {0, MeanDelay[p]}
    BY <1>3, <1>4, <2>2, <2>3 DEF TrustedAt
  <2>5. PICK n \in Nodes, k \in Nodes : n = p[1] /\ k = x[1]
    BY PortTypes
  <2>6. PICK T, C : T = TrueUpdates(p) /\ C = control[n] /\ C \in Seq(T)
    BY <2>2, <2>5 DEF TrustedAt
  <2>7. CASE n = k
    <3>1. m \in T
      BY <1>2, <1>5, <2>3, <2>5, <2>6, <2>7 DEF TrueUpdates
    <3>2. Append(C, m) \in Seq(T)
      BY <2>6, <3>1
    <3>3. control'[n] = Append(C, m)
      BY <1>3, <1>4, <2>5, <2>6, <2>7
    <3> QED BY <2>2, <2>4, <2>5, <2>6, <3>2, <3>3 DEF TrustedAt
  <2>8. CASE n # k
    <3>1. control'[n] = C
      BY <1>3, <1>4, <2>5, <2>6, <2>8
    <3> QED BY <2>2, <2>4, <2>5, <2>6, <3>1 DEF TrustedAt
  <2> QED BY <2>7, <2>8
<1> QED BY <1>6 DEF TrustsTheTruth

LEMMA ControlTrusts ==
  ASSUME Typed, TrustsTheTruth, NEW n \in Nodes, Control(n) PROVE TrustsTheTruth'
<1>1. PICK m : m = Head(control[n])
  OBVIOUS
<1>2. /\ control[n] # <<>> /\ control' = [control EXCEPT ![n] = Tail(@)]
      /\ UNCHANGED <<portEstimate, trusted>>
  BY DEF Control
<1>3. control = [k \in Nodes |-> control[k]]
  BY DEF Typed, ControlTyped
<1>4. control'[n] = Tail(control[n]) /\ \A k \in Nodes : k # n => control'[k] = control[k]
  BY <1>2, <1>3
<1>5. m \in Messages(n)
  BY <1>1, <1>2, EmptiedControl DEF Typed
<1>6. ASSUME NEW p \in Ports, trusted[p], NEW r,
             r = nic[p[1]].peerMeanPathDelay[p] \/ r = MeanDelay[p],
             r = nic'[p[1]].peerMeanPathDelay[p]
      PROVE  TrustedAt(p, portEstimate'[p], nic'[p[1]].peerMeanPathDelay[p], control'[p[1]])
  <2>1. TrustedAt(p, portEstimate[p], nic[p[1]].peerMeanPathDelay[p], control[p[1]])
    BY <1>6 DEF TrustsTheTruth
  <2>2. PICK k \in Nodes : k = p[1]
    BY PortTypes
  <2>3. PICK T, C : T = TrueUpdates(p) /\ C = control[k] /\ C \in Seq(T)
    BY <2>1, <2>2 DEF TrustedAt
  <2>4. control'[k] \in Seq(T)
    <3>1. C # <<>> => Tail(C) \in Seq(T)
      BY <2>3
    <3> QED BY <1>2, <1>4, <2>3, <3>1
  <2> QED BY <1>2, <1>6, <2>1, <2>2, <2>3, <2>4 DEF TrustedAt
<1>7. CASE m.what = "PATH_DELAY"
  <2>1. nic' = [nic EXCEPT ![n].peerMeanPathDelay[m.port] = m.delay]
    BY <1>1, <1>7 DEF Control
  <2>2. PICK ctl \in NicT(n) : ctl = nic[n]
    BY DEF Typed, NicTyped
  <2>3. PICK r : r = [ctl.peerMeanPathDelay EXCEPT ![m.port] = m.delay]
    OBVIOUS
  <2>4. PICK tab : tab = [ctl EXCEPT !.peerMeanPathDelay = r]
    OBVIOUS
  <2>5. tab.peerMeanPathDelay = r /\ ctl.peerMeanPathDelay \in [PortsOf(n) -> Int]
    BY <2>2, <2>4 DEF NicT
  <2>6. nic' = [nic EXCEPT ![n] = tab]
    BY <2>1, <2>2, <2>3, <2>4
  <2>7. nic'[n] = tab /\ \A k \in Nodes : k # n => nic'[k] = nic[k]
    BY <2>6 DEF Typed, NicTyped
  <2>8. ASSUME NEW p \in Ports, trusted[p]
        PROVE  TrustedAt(p, portEstimate'[p], nic'[p[1]].peerMeanPathDelay[p], control'[p[1]])
    <3>1. CASE p[1] # n
      BY <1>6, <2>7, <2>8, <3>1, PortTypes
    <3>2. CASE p[1] = n /\ p # m.port
      <4>1. p \in PortsOf(n)
        BY <3>2, PortTypes
      <4>2. r[p] = ctl.peerMeanPathDelay[p]
        BY <2>3, <2>5, <3>2, <4>1
      <4> QED BY <1>6, <2>2, <2>5, <2>7, <2>8, <3>2, <4>2
    <3>3. CASE p[1] = n /\ p = m.port
      <4>1. p \in PortsOf(n)
        BY <3>3, PortTypes
      <4>2. r[p] = m.delay
        BY <2>3, <2>5, <3>3, <4>1
      <4>3. control[n] \in Seq(TrueUpdates(p))
        BY <2>8, <3>3 DEF TrustsTheTruth, TrustedAt
      <4>4. m \in TrueUpdates(p)
        BY <1>1, <1>2, <4>3
      <4>5. m.delay = MeanDelay[p]
        BY <1>7, <3>3, <4>4 DEF TrueUpdates
      <4> QED BY <1>6, <2>5, <2>7, <2>8, <3>3, <4>2, <4>5
    <3> QED BY <3>1, <3>2, <3>3
  <2> QED BY <1>2, <2>8 DEF TrustsTheTruth
<1>8. CASE m.what # "PATH_DELAY"
  <2>1. nic' = nic
    BY <1>1, <1>8 DEF Control
  <2>2. ASSUME NEW p \in Ports, trusted[p]
        PROVE  TrustedAt(p, portEstimate'[p], nic'[p[1]].peerMeanPathDelay[p], control'[p[1]])
    BY <1>6, <2>1, <2>2
  <2> QED BY <1>2, <2>2 DEF TrustsTheTruth
<1> QED BY <1>7, <1>8

LEMMA TransmitTrusts ==
  ASSUME Typed, Typed', TrustsTheTruth, NEW x \in Ports, Transmit(x) PROVE TrustsTheTruth'
<1>1. PICK f : f = Head(egress[x])
  OBVIOUS
<1>2. PICK out : out = HandleEgress(Mac(x), nic[x[1]], f, Reading(x[1]))
  OBVIOUS
<1>3. PICK m : m = [what |-> out.requ, port |-> x, frame |-> out.frame]
  OBVIOUS
<1>4. /\ egress[x] # <<>>
      /\ nic' = [nic EXCEPT ![x[1]] = out.nic]
      /\ control' = IF out.requ = "NONE" THEN control
                    ELSE [control EXCEPT ![x[1]] = Append(@, m)]
      /\ UNCHANGED <<portEstimate, trusted>>
  BY <1>1, <1>2, <1>3, Zenon DEF Transmit
<1>5. /\ SameTables(out.nic, nic[x[1]])
      /\ out.requ # "NONE" => out.requ = "TRIG_SFU"
  BY <1>1, <1>2, <1>4, FirstOut DEF Outcome
<1>6. PICK n \in Nodes : n = x[1]
  BY PortTypes
<1>7. control = [k \in Nodes |-> control[k]] /\ nic = [k \in Nodes |-> nic[k]]
  BY DEF Typed, ControlTyped, NicTyped
<1>8. nic'[n] = out.nic /\ \A k \in Nodes : k # n => nic'[k] = nic[k]
  BY <1>4, <1>6, <1>7
<1>9. ASSUME NEW p \in Ports
      PROVE  nic'[p[1]].peerMeanPathDelay[p] = nic[p[1]].peerMeanPathDelay[p]
  BY <1>5, <1>6, <1>8, PortTypes DEF SameTables
<1>10. Asking
  <2>1. CASE out.requ = "NONE"
    BY <1>4, <2>1 DEF Asking
  <2>2. CASE out.requ # "NONE"
    <3>1. control'[n] = Append(control[n], m) /\ \A k \in Nodes : k # n => control'[k] = control[k]
      BY <1>4, <1>6, <1>7, <2>2
    <3>2. control[n] \in Seq(Messages(n)) /\ control'[n] \in Seq(Messages(n))
      BY DEF Typed, ControlTyped
    <3>3. PICK C, D, M : /\ C = control[n] /\ D = control'[n] /\ M = Messages(n)
                         /\ C \in Seq(M) /\ D \in Seq(M) /\ D = Append(C, m)
      BY <3>1, <3>2
    <3>4. Len(D) = Len(C) + 1 /\ D[Len(C) + 1] = m /\ Len(C) \in Nat
      BY <3>3
    <3>5. m \in M
      BY <3>3, <3>4
    <3>6. m.what # "PATH_DELAY"
      BY <1>3, <1>5, <2>2
    <3> QED BY <3>1, <3>3, <3>5, <3>6 DEF Asking
  <2> QED BY <2>1, <2>2
<1> QED BY <1>4, <1>9, <1>10, TrustStays

LEMMA ReceiveTrusts ==
  ASSUME Typed, TrustsTheTruth, NEW x \in Ports, Receive(x) PROVE TrustsTheTruth'
<1>1. PICK f : f = [Head(wire[Peer[x]]).frame EXCEPT !.epoch = clock[x[1]].epoch]
  OBVIOUS
<1>2. PICK out : out = HandleIngress(Mac(x), nic[x[1]], f, Reading(x[1]))
  OBVIOUS
<1>3. /\ Arrives(x) /\ (nic' = nic \/ nic' = [nic EXCEPT ![x[1]] = out.nic])
      /\ UNCHANGED <<control, portEstimate, trusted>>
  BY <1>1, <1>2 DEF Receive
<1>4. SameTables(out.nic, nic[x[1]])
  BY <1>1, <1>2, <1>3, FirstIn DEF Enters
<1>5. PICK n \in Nodes : n = x[1]
  BY PortTypes
<1>6. nic = [k \in Nodes |-> nic[k]]
  BY DEF Typed, NicTyped
<1>7. \/ nic' = nic
      \/ nic'[n] = out.nic /\ \A k \in Nodes : k # n => nic'[k] = nic[k]
  BY <1>3, <1>5, <1>6
<1>8. ASSUME NEW p \in Ports
      PROVE  nic'[p[1]].peerMeanPathDelay[p] = nic[p[1]].peerMeanPathDelay[p]
  BY <1>4, <1>5, <1>7, PortTypes DEF SameTables
<1>9. Asking
  BY <1>3 DEF Asking
<1> QED BY <1>3, <1>8, <1>9, TrustStays

\* What leaves NIC control, data sets and messages alone.
LEMMA RestTrusts ==
  ASSUME Typed, TrustsTheTruth, UNCHANGED <<nic, control, portEstimate, trusted>>
  PROVE  TrustsTheTruth'
<1>1. Asking
  BY DEF Asking
<1> QED BY <1>1, TrustStays

LEMMA TrustNext ==
  ASSUME Typed, Typed', Tracked, TrustsTheTruth, [Next]_vars PROVE TrustsTheTruth'
<1>1. CASE UNCHANGED vars
  BY <1>1, RestTrusts DEF vars
<1>2. CASE SendSync \/ SendDelayReq \/ Elapse
  BY <1>2, RestTrusts DEF SendSync, SendDelayReq, Elapse
<1>3. CASE \E p \in Requesters : SendPDelayReq(p)
  BY <1>3, RestTrusts DEF SendPDelayReq
<1>4. CASE \E n \in Nodes : JumpTransparent(n)
  BY <1>4, RestTrusts DEF JumpTransparent
<1>5. CASE \E p \in Ports : Lose(p)
  BY <1>5, RestTrusts DEF Lose
<1>6. CASE \E p \in Ports : Transmit(p)
  BY <1>6, TransmitTrusts
<1>7. CASE \E p \in Ports : Receive(p)
  BY <1>7, ReceiveTrusts
<1>8. CASE \E n \in Nodes : Control(n)
  BY <1>8, ControlTrusts
<1>9. CASE \E p \in Ports : Deliver(p)
  <2>1. PICK x \in Ports : Deliver(x)
    BY <1>9
  <2>2. nic' = nic
    BY <2>1 DEF Deliver
  <2>3. CASE UNCHANGED <<portEstimate, control, trusted>>
    BY <2>2, <2>3, RestTrusts
  <2>4. CASE \E r \in Int, c \in BOOLEAN : Measures(x, r, c)
    BY <2>2, <2>4, MeasureTrusts
  <2> QED BY <2>1, <2>3, <2>4, DeliverMeasures
<1> QED BY <1>1, <1>2, <1>3, <1>4, <1>5, <1>6, <1>7, <1>8, <1>9 DEF Next

\* For a chain of any length: as long as every measurement of a link was clean, data set
\* and NIC control of its port hold no delay yet, or the true one.
THEOREM TrustedDelaysAreTrue == Spec => []TrustsTheTruth
<1>1. Init => TrustsTheTruth
  BY TrustStarts
<1>2. Typed /\ Typed' /\ Tracked /\ TrustsTheTruth /\ [Next]_vars => TrustsTheTruth'
  BY TrustNext
<1> QED BY <1>1, <1>2, RequestsOnCourse, PTL DEF Spec

-----------------------------------------------------------------------------
(* Frames in time *)

\* No Sync and no request that a node holds comes from the future, and what a port has
\* made itself fits its clock.
Timely ==
  \A p \in Ports : /\ ingress[p] \in Seq(CameBefore(now, clock[p[1]]))
                   /\ egress[p] \in Seq(MayLeave(p, config.twoStep[p[1]], now, clock[p[1]]))

LEMMA LaterIsWider ==
  ASSUME NEW t \in Nat, NEW t2 \in Nat, t <= t2, NEW c \in [offset : Int, epoch : Nat],
         NEW d \in [offset : Int, epoch : Nat], Moves(c, d)
  PROVE  /\ CameBefore(t, c) \subseteq CameBefore(t2, d)
         /\ \A p, two : MayLeave(p, two, t, c) \subseteq MayLeave(p, two, t2, d)
<1>1. ASSUME NEW f \in FrameT, TakenBefore(f, t, c) PROVE TakenBefore(f, t2, d)
  <2>1. PICK s \in Int, e \in Int : s = f.stamp.time /\ e = f.stamp.epoch
    BY DEF FrameT, TimeT
  <2>2. PICK o \in Int, k \in Nat : o = c.offset /\ k = c.epoch
    OBVIOUS
  <2>3. CASE f.type \notin {"SYNC", "DELAY_REQ"}
    BY <2>3 DEF TakenBefore
  <2>4. CASE f.type \in {"SYNC", "DELAY_REQ"}
    <3>1. e <= k /\ (e = k => s <= t + o)
      BY <1>1, <2>1, <2>2, <2>4 DEF TakenBefore
    <3>2. CASE d = c
      <4>1. e = k => s <= t2 + o
        BY <3>1
      <4> QED BY <2>1, <2>2, <3>1, <3>2, <4>1 DEF TakenBefore
    <3>3. CASE d.epoch = c.epoch + 1
      <4>1. d.epoch = k + 1
        BY <2>2, <3>3
      <4>2. e <= k + 1 /\ e # k + 1
        BY <3>1
      <4> QED BY <2>1, <4>1, <4>2 DEF TakenBefore
    <3> QED BY <3>2, <3>3 DEF Moves
  <2> QED BY <2>3, <2>4
<1> QED BY <1>1 DEF CameBefore, MayLeave

\* A queue loses its first element, or gets elements of S.
Turns(Q2, Q, S) ==
  \/ Q2 = Q
  \/ Q # <<>> /\ Q2 = Tail(Q)
  \/ \E R \in Seq(S) : Q2 = Q \o R

LEMMA TurnsIn ==
  ASSUME NEW S, NEW T, S \subseteq T, NEW Q \in Seq(S), NEW Q2, Turns(Q2, Q, T)
  PROVE  Q2 \in Seq(T)
<1>1. Q \in Seq(T)
  BY SeqOf
<1>2. Q # <<>> => Tail(Q) \in Seq(T)
  BY <1>1
<1>3. \A R \in Seq(T) : Q \o R \in Seq(T)
  BY <1>1
<1> QED BY <1>1, <1>2, <1>3 DEF Turns

LEMMA TimelyKeeps ==
  ASSUME Typed, Typed', Timely, config' = config, now <= now',
         \A n \in Nodes : Moves(clock[n], clock'[n]),
         \A p \in Ports :
           /\ Turns(ingress'[p], ingress[p], CameBefore(now', clock'[p[1]]))
           /\ Turns(egress'[p], egress[p],
                    MayLeave(p, config.twoStep[p[1]], now', clock'[p[1]]))
  PROVE  Timely'
<1>1. ASSUME NEW p \in Ports
      PROVE  /\ ingress'[p] \in Seq(CameBefore(now', clock'[p[1]]))
             /\ egress'[p] \in Seq(MayLeave(p, config.twoStep[p[1]], now', clock'[p[1]]))
  <2>1. PICK n \in Nodes : n = p[1]
    BY PortTypes
  <2>2. PICK t \in Nat, u \in Nat, c \in [offset : Int, epoch : Nat],
             d \in [offset : Int, epoch : Nat] :
          t = now /\ u = now' /\ c = clock[n] /\ d = clock'[n]
    BY DEF Typed, ClocksTyped
  <2>3. PICK two : two = config.twoStep[n]
    OBVIOUS
  <2>4. t <= u /\ Moves(c, d)
    BY <2>2
  <2>5. /\ CameBefore(t, c) \subseteq CameBefore(u, d)
        /\ MayLeave(p, two, t, c) \subseteq MayLeave(p, two, u, d)
    BY <2>4, LaterIsWider, Zenon
  <2>6. ingress[p] \in Seq(CameBefore(t, c)) /\ egress[p] \in Seq(MayLeave(p, two, t, c))
    BY <2>1, <2>2, <2>3 DEF Timely
  <2>7. /\ Turns(ingress'[p], ingress[p], CameBefore(u, d))
        /\ Turns(egress'[p], egress[p], MayLeave(p, two, u, d))
    BY <2>1, <2>2, <2>3
  <2>8. ingress'[p] \in Seq(CameBefore(u, d)) /\ egress'[p] \in Seq(MayLeave(p, two, u, d))
    BY <2>5, <2>6, <2>7, TurnsIn
  <2> QED BY <2>1, <2>2, <2>3, <2>8
<1> QED BY <1>1 DEF Timely

LEMMA TurnsSelf == \A Q, S : Turns(Q, Q, S)
BY DEF Turns

LEMMA TurnsTail == \A Q, S : Q # <<>> => Turns(Tail(Q), Q, S)
BY DEF Turns

\* Steps that add own frames to the queue of one port.
LEMMA IssuesTimely ==
  ASSUME Typed, Typed', Timely, NEW x \in Ports,
         NEW R \in Seq(MayLeave(x, config.twoStep[x[1]], now, clock[x[1]])), Issue(x, R),
         UNCHANGED <<config, now, clock, ingress>>
  PROVE  Timely'
<1>1. egress \in [Ports -> Seq(FrameT)] /\ now \in Nat
  BY DEF Typed, EgressTyping, ClocksTyped
<1>2. egress'[x] = egress[x] \o R /\ \A q \in Ports : q # x => egress'[q] = egress[q]
  BY <1>1 DEF Issue
<1>3. Turns(egress'[x], egress[x], MayLeave(x, config.twoStep[x[1]], now, clock[x[1]]))
  BY <1>2 DEF Turns
<1>4. ASSUME NEW p \in Ports
      PROVE  /\ Turns(ingress'[p], ingress[p], CameBefore(now', clock'[p[1]]))
             /\ Turns(egress'[p], egress[p],
                      MayLeave(p, config.twoStep[p[1]], now', clock'[p[1]]))
  <2>1. ingress'[p] = ingress[p] /\ now' = now /\ clock' = clock
    OBVIOUS
  <2>2. CASE p = x
    BY <1>3, <2>1, <2>2, TurnsSelf
  <2>3. CASE p # x
    BY <1>2, <2>1, <2>3, TurnsSelf
  <2> QED BY <2>2, <2>3
<1>5. now <= now'
  BY <1>1
<1> QED BY <1>4, <1>5, SameClock, TimelyKeeps

LEMMA SyncsApt ==
  ASSUME NEW s \in SyncT, NEW x \in Ports, NEW two \in BOOLEAN, NEW t, NEW c
  PROVE  SyncFrames(s, x, two) \in Seq(MayLeave(x, two, t, c))
<1>1. PICK f, g, S : /\ f = CreateSyncFrame(s, x, two) /\ g = CreateFollowUpFrame(f)
                     /\ S = MayLeave(x, two, t, c)
  OBVIOUS
<1>2. s.sequId \in Nat /\ "SYNC" \in FrameTypes
  BY DEF SyncT, FrameTypes
<1>3. f \in FrameT /\ f.type = "SYNC" /\ f.source = x /\ f.twoStep = two
  BY <1>1, <1>2, FrameTyped DEF CreateSyncFrame
<1>4. g \in FrameT /\ g.type = "FOLLOW_UP" /\ g.source = x
  BY <1>1, <1>3, FollowUpOf
<1>5. f \in S /\ (two => g \in S)
  BY <1>1, <1>3, <1>4 DEF MayLeave, Apt
<1>6. <<f>> \in Seq(S) /\ (two => <<f, g>> \in Seq(S))
  BY <1>5
<1> QED BY <1>1, <1>6 DEF SyncFrames

LEMMA SendSyncTimely == ASSUME Typed, Typed', Timely, SendSync PROVE Timely'
<1>1. PICK s \in SyncT : s = sync[MasterPort]
  BY DEF Typed, ServicesTyped
<1>2. PICK two \in BOOLEAN : two = config.twoStep[MasterPort[1]]
  BY PortTypes DEF Typed, ConfigTyped
<1>3. PICK R : R = SyncFrames(s, MasterPort, two)
  OBVIOUS
<1>4. R \in Seq(MayLeave(MasterPort, two, now, clock[MasterPort[1]]))
  BY <1>3, PortTypes, SyncsApt
<1>5. Issue(MasterPort, R) /\ UNCHANGED <<config, now, clock, ingress>>
  BY <1>1, <1>2, <1>3 DEF SendSync
<1> QED BY <1>2, <1>4, <1>5, PortTypes, IssuesTimely

LEMMA RequestApt ==
  ASSUME NEW x \in Ports, NEW type \in {"DELAY_REQ", "PDELAY_REQ"}, NEW k \in Nat,
         NEW b \in BOOLEAN, NEW f, f = Frame(type, x, k, b), NEW two, NEW t, NEW c
  PROVE  <<f>> \in Seq(MayLeave(x, two, t, c))
<1>1. type \in FrameTypes
  BY DEF FrameTypes, Delays, PDelays
<1>2. f \in FrameT /\ f.type = type /\ f.source = x
  BY <1>1, FrameTyped
<1>3. f \in MayLeave(x, two, t, c)
  BY <1>2 DEF MayLeave, Apt
<1> QED BY <1>3

LEMMA SendDelayReqTimely == ASSUME Typed, Typed', Timely, SendDelayReq PROVE Timely'
<1>1. PICK k \in Nat : k = delay.sequId
  BY DEF Typed, ServicesTyped, DelayT
<1>2. PICK b \in BOOLEAN : b = FALSE
  OBVIOUS
<1>3. PICK f, R : f = Frame("DELAY_REQ", SlavePort, k, b) /\ R = <<f>>
  OBVIOUS
<1>4. R \in Seq(MayLeave(SlavePort, config.twoStep[SlavePort[1]], now, clock[SlavePort[1]]))
  BY <1>3, PortTypes, RequestApt
<1>5. Issue(SlavePort, R) /\ UNCHANGED <<config, now, clock, ingress>>
  BY <1>1, <1>2, <1>3 DEF SendDelayReq, CreateDelayReqFrame
<1> QED BY <1>4, <1>5, PortTypes, IssuesTimely

LEMMA SendPDelayReqTimely ==
  ASSUME Typed, Typed', Timely, NEW x \in Ports, SendPDelayReq(x) PROVE Timely'
<1>1. PICK k \in Nat : k = pdelay[x].sequId
  BY DEF Typed, ServicesTyped, PDelayT
<1>2. PICK b \in BOOLEAN : b = FALSE
  OBVIOUS
<1>3. PICK f, R : f = Frame("PDELAY_REQ", x, k, b) /\ R = <<f>>
  OBVIOUS
<1>4. R \in Seq(MayLeave(x, config.twoStep[x[1]], now, clock[x[1]]))
  BY <1>3, RequestApt
<1>5. Issue(x, R) /\ UNCHANGED <<config, now, clock, ingress>>
  BY <1>1, <1>2, <1>3 DEF SendPDelayReq, CreatePDelayReqFrame
<1> QED BY <1>4, <1>5, IssuesTimely

\* Steps that leave the queues of a node alone, or take a frame from them.
LEMMA TakesTimely ==
  ASSUME Typed, Typed', Timely, config' = config, now <= now',
         \A n \in Nodes : Moves(clock[n], clock'[n]),
         \A p \in Ports :
           /\ ingress'[p] = ingress[p] \/ (ingress[p] # <<>> /\ ingress'[p] = Tail(ingress[p]))
           /\ egress'[p] = egress[p] \/ (egress[p] # <<>> /\ egress'[p] = Tail(egress[p]))
  PROVE  Timely'
<1>1. ASSUME NEW p \in Ports
      PROVE  /\ Turns(ingress'[p], ingress[p], CameBefore(now', clock'[p[1]]))
             /\ Turns(egress'[p], egress[p],
                      MayLeave(p, config.twoStep[p[1]], now', clock'[p[1]]))
  BY TurnsSelf, TurnsTail
<1> QED BY <1>1, TimelyKeeps

LEMMA NowStays == ASSUME Typed, now' = now PROVE now <= now'
<1>1. now \in Nat
  BY DEF Typed, ClocksTyped
<1> QED BY <1>1

LEMMA TransmitTimely ==
  ASSUME Typed, Typed', Timely, NEW x \in Ports, Transmit(x) PROVE Timely'
<1>1. egress \in [Ports -> Seq(FrameT)]
  BY DEF Typed, EgressTyping
<1>2. /\ egress[x] # <<>> /\ egress' = [egress EXCEPT ![x] = Tail(@)]
      /\ UNCHANGED <<config, now, clock, ingress>>
  BY DEF Transmit
<1>3. egress'[x] = Tail(egress[x]) /\ \A q \in Ports : q # x => egress'[q] = egress[q]
  BY <1>1, <1>2
<1> QED BY <1>2, <1>3, NowStays, SameClock, TakesTimely

LEMMA LoseTimely == ASSUME Typed, Typed', Timely, NEW x, Lose(x) PROVE Timely'
<1>1. UNCHANGED <<config, now, clock, ingress, egress>>
  BY DEF Lose
<1> QED BY <1>1, NowStays, SameClock, TakesTimely

LEMMA JumpTransparentTimely ==
  ASSUME Typed, Typed', Timely, NEW n \in Nodes, JumpTransparent(n) PROVE Timely'
<1>1. UNCHANGED <<config, now, ingress, egress>> /\ \E delta : Jump(n, delta)
  BY DEF JumpTransparent
<1>2. \A m \in Nodes : Moves(clock[m], clock'[m])
  BY <1>1, JumpMovesOn
<1> QED BY <1>1, <1>2, NowStays, TakesTimely

LEMMA ElapseTimely == ASSUME Typed, Typed', Timely, Elapse PROVE Timely'
<1>1. now' = now + 1 /\ UNCHANGED <<config, clock, ingress, egress>>
  BY DEF Elapse
<1>2. now <= now'
  <2>1. now \in Nat
    BY DEF Typed, ClocksTyped
  <2> QED BY <1>1, <2>1
<1> QED BY <1>1, <1>2, SameClock, TakesTimely

\* A frame that comes in has been stamped now.
LEMMA ComesStamped ==
  ASSUME NEW x \in Ports, NEW m, NEW two \in BOOLEAN, NEW ctl \in NicT(x[1]),
         NEW f \in OnWire(m, Peer[x]), NEW clk \in TimeT, f.type \in {"SYNC", "DELAY_REQ"},
         NEW out, out = HandleIngress(MacOf(m, two, x), ctl, f, clk)
  PROVE  out.frame.stamp = clk
<1>1. CASE f.type = "SYNC"
  BY <1>1, IngressTyped DEF Taken
<1>2. CASE f.type = "DELAY_REQ"
  <2>1. PICK mac : mac = MacOf(m, two, x) /\ mac.id = x
    BY DEF MacOf
  <2>2. f \in FrameT
    BY DEF OnWire
  <2>3. PICK g : g = [f EXCEPT !.rx = x]
    OBVIOUS
  <2>4. PICK h : h = TimestampOnIngress(g, clk)
    OBVIOUS
  <2>5. Arrived(g, f, x)
    BY <2>2, <2>3, Names
  <2>6. h.stamp = clk
    BY <2>4, <2>5, Stamps
  <2>7. g.type = "DELAY_REQ"
    BY <1>2, <2>5 DEF Arrived
  <2>8. out = Out(h, ctl)
    BY <2>1, <2>3, <2>4, <2>7 DEF HandleIngress
  <2> QED BY <2>6, <2>8 DEF Out
<1> QED BY <1>1, <1>2

LEMMA ReceiveTimely ==
  ASSUME Typed, Typed', Timely, NEW x \in Ports, Receive(x) PROVE Timely'
<1>1. PICK f : f = [Head(wire[Peer[x]]).frame EXCEPT !.epoch = clock[x[1]].epoch]
  OBVIOUS
<1>2. PICK out : out = HandleIngress(Mac(x), nic[x[1]], f, Reading(x[1]))
  OBVIOUS
<1>3. /\ Arrives(x)
      /\ ingress' = ingress \/ ingress' = [ingress EXCEPT ![x] = Append(@, out.frame)]
      /\ UNCHANGED <<config, now, clock, egress>>
  BY <1>1, <1>2 DEF Receive
<1>4. f \in OnWire(config.mechanism, Peer[x]) /\ Arrived(out.frame, f, x)
  BY <1>1, <1>2, <1>3, FirstIn DEF Enters
<1>5. PICK n \in Nodes : n = x[1]
  BY PortTypes
<1>6. PICK two \in BOOLEAN, clk \in TimeT, ctl \in NicT(x[1]) :
        two = config.twoStep[x[1]] /\ clk = Reading(n) /\ ctl = nic[x[1]]
  BY MacIs, ReadingTyped
<1>7. out = HandleIngress(MacOf(config.mechanism, two, x), ctl, f, clk)
  BY <1>2, <1>5, <1>6, MacIs
<1>8. f.type \in {"SYNC", "DELAY_REQ"} => out.frame.stamp = clk
  BY <1>4, <1>6, <1>7, ComesStamped
<1>9. PICK t \in Nat, c \in [offset : Int, epoch : Nat] : t = now /\ c = clock[n]
  BY DEF Typed, ClocksTyped
<1>10. PICK g \in FrameT : g = out.frame /\ g.type = f.type
  BY <1>4 DEF Arrived
<1>11. TakenBefore(g, t, c)
  <2>1. SUFFICES ASSUME g.type \in {"SYNC", "DELAY_REQ"}
        PROVE g.stamp.epoch <= c.epoch /\ (g.stamp.epoch = c.epoch => g.stamp.time <= t + c.offset)
    BY DEF TakenBefore
  <2>2. PICK o \in Int, e \in Nat : o = c.offset /\ e = c.epoch
    OBVIOUS
  <2>3. clk.time = t + o /\ clk.epoch = e
    BY <1>6, <1>9, <2>2 DEF Reading
  <2>4. g.stamp = clk
    BY <1>8, <1>10, <2>1
  <2>5. t + o <= t + o /\ e <= e
    OBVIOUS
  <2> QED BY <2>2, <2>3, <2>4, <2>5
<1>12. PICK S : S = CameBefore(t, c) /\ g \in S
  BY <1>11 DEF CameBefore
<1>13. ingress \in [Ports -> Seq(FrameT)]
  BY DEF Typed, IngressTyping
<1>14. Turns(ingress'[x], ingress[x], S)
  <2>1. CASE ingress' = ingress
    BY <2>1, TurnsSelf
  <2>2. CASE ingress' = [ingress EXCEPT ![x] = Append(@, out.frame)]
    <3>1. PICK Q \in Seq(FrameT) : Q = ingress[x]
      BY <1>13
    <3>2. ingress'[x] = Append(Q, g)
      BY <1>10, <1>13, <2>2, <3>1
    <3>3. Append(Q, g) = Q \o <<g>>
      BY <1>10, <3>1
    <3>4. <<g>> \in Seq(S)
      BY <1>12
    <3> QED BY <3>1, <3>2, <3>3, <3>4 DEF Turns
  <2> QED BY <1>3, <2>1, <2>2
<1>15. \A q \in Ports : q # x => ingress'[q] = ingress[q]
  BY <1>3, <1>13
<1>16. ASSUME NEW p \in Ports
       PROVE  /\ Turns(ingress'[p], ingress[p], CameBefore(now', clock'[p[1]]))
              /\ Turns(egress'[p], egress[p],
                       MayLeave(p, config.twoStep[p[1]], now', clock'[p[1]]))
  <2>1. CASE p = x
    BY <1>3, <1>5, <1>9, <1>12, <1>14, <2>1, TurnsSelf
  <2>2. CASE p # x
    BY <1>3, <1>15, <2>2, TurnsSelf
  <2> QED BY <2>1, <2>2
<1> QED BY <1>3, <1>16, NowStays, SameClock, TimelyKeeps

LEMMA ControlTimely ==
  ASSUME Typed, Typed', Timely, NEW n \in Nodes, Control(n) PROVE Timely'
<1>1. PICK m : m = Head(control[n])
  OBVIOUS
<1>2. /\ control[n] # <<>> /\ control' = [control EXCEPT ![n] = Tail(@)]
      /\ UNCHANGED <<config, now, clock, ingress>>
  BY DEF Control
<1>3. m \in Messages(n)
  BY <1>1, <1>2, EmptiedControl DEF Typed
<1>4. CASE m.what = "PATH_DELAY"
  <2>1. egress' = egress
    BY <1>1, <1>4 DEF Control
  <2> QED BY <1>2, <2>1, NowStays, SameClock, TakesTimely
<1>5. CASE m.what # "PATH_DELAY"
  <2>1. m \in Requests(n)
    BY <1>3, <1>5 DEF Messages, Updates
  <2>2. PICK x \in Ports : x = m.port /\ x # MasterPort
    BY <2>1 DEF Requests, PortsOf
  <2>3. m.what = "TRIG_SFU" /\ m.frame \in FrameT /\ m.frame.source = MasterPort
    BY <2>1 DEF Requests
  <2>4. PICK f : f = CreateFollowUpFrame(m.frame)
    OBVIOUS
  <2>5. f \in FrameT /\ f.type = "FOLLOW_UP" /\ f.source = MasterPort
    BY <2>3, <2>4, FollowUpOf
  <2>6. PICK R : R = <<f>>
    OBVIOUS
  <2>7. f \in MayLeave(x, config.twoStep[x[1]], now, clock[x[1]])
    BY <2>2, <2>5 DEF MayLeave, TakenBefore
  <2>8. R \in Seq(MayLeave(x, config.twoStep[x[1]], now, clock[x[1]]))
    BY <2>6, <2>7
  <2>9. Issue(x, R)
    BY <1>1, <1>5, <2>2, <2>3, <2>4, <2>6 DEF Control
  <2> QED BY <1>2, <2>8, <2>9, IssuesTimely
<1> QED BY <1>4, <1>5

\* The answers of the stack fit its clock.
LEMMA AnswerApt ==
  ASSUME NEW x \in Ports, NEW f \in FrameT, NEW two \in BOOLEAN, two = config.twoStep[x[1]],
         NEW t, NEW c
  PROVE  Answer(x, f) \in Seq(MayLeave(x, two, t, c))
<1>1. PICK S : S = MayLeave(x, two, t, c)
  OBVIOUS
<1>2. /\ f.source \in Ports /\ f.seq \in Nat /\ f.stamp.time \in Int /\ f.corr \in Int
      /\ f.clean \in BOOLEAN /\ f.epoch \in Int
  BY DEF FrameT, TimeT
<1>3. CASE f.type = "DELAY_REQ" /\ x = MasterPort
  <2>1. PICK r : r = CreateDelayRespFrame(f, x)
    OBVIOUS
  <2>2. PICK e \in BOOLEAN : e = FALSE
    OBVIOUS
  <2>3. PICK h : h = Frame("DELAY_RESP", x, f.seq, e)
    OBVIOUS
  <2>4. h \in FrameT /\ h.type = "DELAY_RESP" /\ h.source = x
    <3>1. "DELAY_RESP" \in FrameTypes
      BY DEF FrameTypes, Delays
    <3> QED BY <3>1, <1>2, <2>3, FrameTyped
  <2>5. r = [h EXCEPT !.receipt = f.stamp.time, !.requester = f.source, !.corr = f.corr,
                      !.clean = f.clean]
    BY <2>1, <2>2, <2>3 DEF CreateDelayRespFrame
  <2>6. r \in FrameT /\ r.type = "DELAY_RESP" /\ r.source = x
    BY <1>2, <2>4, <2>5 DEF FrameT, PortOrNone
  <2>7. r \in S
    BY <1>1, <2>6 DEF MayLeave, Apt
  <2>8. <<r>> \in Seq(S)
    BY <2>7
  <2> QED BY <1>1, <1>3, <2>1, <2>8 DEF Answer
<1>4. CASE f.type = "PDELAY_REQ"
  <2>1. ASSUME NEW b \in BOOLEAN, NEW r, r = CreatePDelayRespFrame(f, x, b)
        PROVE  r.source = x
    <3>1. PICK h : h = Frame("PDELAY_RESP", x, f.seq, b)
      OBVIOUS
    <3>2. h \in FrameT /\ h.source = x
      <4>1. "PDELAY_RESP" \in FrameTypes
        BY DEF FrameTypes, PDelays
      <4> QED BY <4>1, <3>1, <1>2, FrameTyped
    <3>3. PICK k : k = IF b THEN 0 ELSE f.corr
      OBVIOUS
    <3>4. r = [h EXCEPT !.requester = f.source, !.corr = k, !.clean = f.clean,
                        !.epoch = f.epoch]
      BY <2>1, <3>1, <3>3 DEF CreatePDelayRespFrame
    <3> QED BY <3>2, <3>4 DEF FrameT
  <2>2. ASSUME NEW r, r = CreatePDelayRespFUFrame(f, x) PROVE r.source = x
    <3>1. PICK b \in BOOLEAN : b = TRUE
      OBVIOUS
    <3>2. PICK h : h = Frame("PDELAY_RESP_FU", x, f.seq, b)
      OBVIOUS
    <3>3. h \in FrameT /\ h.source = x
      <4>1. "PDELAY_RESP_FU" \in FrameTypes
        BY DEF FrameTypes, PDelays
      <4> QED BY <4>1, <3>2, <1>2, FrameTyped
    <3>4. r = [h EXCEPT !.requester = f.source, !.corr = f.corr]
      BY <2>2, <3>1, <3>2 DEF CreatePDelayRespFUFrame
    <3> QED BY <3>3, <3>4 DEF FrameT
  <2>3. PICK a, b : a = CreatePDelayRespFrame(f, x, two) /\ b = CreatePDelayRespFUFrame(f, x)
    OBVIOUS
  <2>4. /\ a \in ResponseTo(f.source, f.seq) /\ a.twoStep = two
        /\ b \in FollowUpTo(f.source, f.seq)
    BY <1>4, <2>3, AnswersOf
  <2>5. a.source = x /\ b.source = x
    BY <2>1, <2>2, <2>3
  <2>6. a \in S /\ (two => b \in S)
    BY <1>1, <2>4, <2>5 DEF MayLeave, Apt, ResponseTo, FollowUpTo
  <2>7. <<a>> \in Seq(S) /\ (two => <<a, b>> \in Seq(S))
    BY <2>6
  <2>8. Answer(x, f) = PDelayAnswer(f, x, two)
    BY <1>4 DEF Answer
  <2>9. CASE two
    <3>1. PDelayAnswer(f, x, two) = <<a, b>>
      <4>1. two = TRUE
        BY <2>9
      <4> QED BY <2>3, <2>9, <4>1 DEF PDelayAnswer
    <3> QED BY <1>1, <2>7, <2>8, <2>9, <3>1
  <2>10. CASE ~two
    <3>1. PDelayAnswer(f, x, two) = <<a>>
      <4>1. two = FALSE
        BY <2>10
      <4> QED BY <2>3, <2>10, <4>1 DEF PDelayAnswer
    <3> QED BY <1>1, <2>7, <2>8, <3>1
  <2> QED BY <2>9, <2>10
<1>5. CASE ~(f.type = "DELAY_REQ" /\ x = MasterPort) /\ f.type # "PDELAY_REQ"
  <2>1. Answer(x, f) = <<>>
    BY <1>5, Zenon DEF Answer
  <2>2. \A T : <<>> \in Seq(T)
    OBVIOUS
  <2> QED BY <2>1, <2>2
<1> QED BY <1>3, <1>4, <1>5

\* What is sent on belongs to no link.
LEMMA OnwardIsPlain ==
  ASSUME NEW x \in Ports, NEW q \in Ports, NEW f, NEW n,
         GateOf(q[2]) \in Dispatch(ClockType(n), Gates(n), f.type, GateOf(x[2]))
  PROVE  f.type \notin PDelays
<1>1. q[2] \in Nat
  BY NetworkAssumption
<1>2. GateOf(q[2]) # InternalPort
  BY <1>1 DEF GateOf, InternalPort
<1> QED BY <1>2 DEF Dispatch, PDelays

LEMMA DeliverTimely ==
  ASSUME Typed, Typed', Timely, NEW x \in Ports, Deliver(x) PROVE Timely'
<1>1. PICK f : f = Head(ingress[x])
  OBVIOUS
<1>2. /\ ingress[x] # <<>> /\ ingress' = [ingress EXCEPT ![x] = Tail(@)]
      /\ UNCHANGED <<config, now>>
  BY DEF Deliver
<1>3. f \in InIngress(config.mechanism, x) /\ f \in FrameT
  BY <1>1, <1>2, FirstWaiting
<1>4. PICK gates : gates = Dispatch(ClockType(x[1]), Gates(x[1]), f.type, GateOf(x[2]))
  OBVIOUS
<1>5. egress' = [q \in Ports |-> egress[q]
                   \o (IF q[1] = x[1] /\ GateOf(q[2]) \in gates THEN <<f>> ELSE <<>>)
                   \o (IF q = x /\ InternalPort \in gates THEN Answer(x, f) ELSE <<>>)]
  BY <1>1, <1>4 DEF Deliver
<1>6. \A n \in Nodes : Moves(clock[n], clock'[n])
  <2>1. clock' = clock \/ \E delta : Jump(SlavePort[1], delta)
    BY <1>1, DeliverMoves
  <2> QED BY <2>1, SameClock, JumpMovesOn, PortTypes
<1>7. ingress \in [Ports -> Seq(FrameT)]
  BY DEF Typed, IngressTyping
<1>8. ASSUME NEW p \in Ports
      PROVE  Turns(ingress'[p], ingress[p], CameBefore(now', clock'[p[1]]))
  BY <1>2, <1>7, TurnsSelf, TurnsTail
<1>9. ASSUME NEW q \in Ports
      PROVE  Turns(egress'[q], egress[q],
                   MayLeave(q, config.twoStep[q[1]], now', clock'[q[1]]))
  <2>1. PICK n \in Nodes : n = q[1]
    BY PortTypes
  <2>2. PICK t \in Nat, u \in Nat, c \in [offset : Int, epoch : Nat],
             d \in [offset : Int, epoch : Nat] :
          t = now /\ u = now' /\ c = clock[n] /\ d = clock'[n]
    BY DEF Typed, ClocksTyped
  <2>3. PICK two \in BOOLEAN : two = config.twoStep[n]
    BY DEF Typed, ConfigTyped
  <2>4. PICK S : S = MayLeave(q, two, u, d)
    OBVIOUS
  <2>5. PICK a, b :
          /\ a = IF q[1] = x[1] /\ GateOf(q[2]) \in gates THEN <<f>> ELSE <<>>
          /\ b = IF q = x /\ InternalPort \in gates THEN Answer(x, f) ELSE <<>>
    OBVIOUS
  <2>6. a \in Seq(S)
    <3>1. CASE q[1] = x[1] /\ GateOf(q[2]) \in gates
      <4>1. q # x /\ ClockType(x[1]) = "TRANSPARENT" /\ f \in InEgress(config.mechanism, q)
        BY <1>3, <1>4, <3>1, SentOnward
      <4>2. f \in CameBefore(t, c)
        <5>1. ingress[x] \in Seq(CameBefore(t, c))
          BY <2>1, <2>2, <3>1 DEF Timely
        <5> QED BY <5>1, <1>1, <1>2
      <4>3. t <= u /\ Moves(c, d)
        BY <1>2, <1>6, <2>2, NowStays
      <4>4. TakenBefore(f, u, d)
        BY <4>2, <4>3, LaterIsWider, Zenon DEF CameBefore
      <4>5. f.source # q
        <5>1. ClockType(q[1]) = "TRANSPARENT"
          BY <3>1, <4>1
        <5>2. q[1] # MasterPort[1] /\ q[1] # SlavePort[1]
          BY <5>1 DEF ClockType
        <5>3. f.type \notin PDelays
          BY <1>4, <3>1, OnwardIsPlain
        <5> QED BY <1>3, <5>2, <5>3 DEF InIngress, OnWire, Genuine, FrameT, FrameTypes, Delays
      <4>6. f \in S
        BY <1>3, <2>4, <4>4, <4>5 DEF MayLeave
      <4> QED BY <4>6, <2>5, <3>1
    <3>2. CASE ~(q[1] = x[1] /\ GateOf(q[2]) \in gates)
      <4>1. a = <<>> /\ \A T : <<>> \in Seq(T)
        BY <2>5, <3>2
      <4> QED BY <4>1
    <3> QED BY <3>1, <3>2
  <2>7. b \in Seq(S)
    <3>1. CASE q = x /\ InternalPort \in gates
      <4>1. Answer(x, f) \in Seq(MayLeave(x, two, u, d))
        BY <1>3, <2>1, <2>3, <3>1, AnswerApt
      <4> QED BY <4>1, <2>4, <2>5, <3>1
    <3>2. CASE ~(q = x /\ InternalPort \in gates)
      <4>1. b = <<>> /\ \A T : <<>> \in Seq(T)
        BY <2>5, <3>2
      <4> QED BY <4>1
    <3> QED BY <3>1, <3>2
  <2>8. PICK Q \in Seq(FrameT) : Q = egress[q]
    BY DEF Typed, EgressTyping
  <2>9. egress'[q] = Q \o a \o b
    BY <1>5, <2>5, <2>8
  <2>10. PICK R : R = a \o b
    OBVIOUS
  <2>11. R \in Seq(S)
    BY <2>6, <2>7, <2>10
  <2>12. Q \o a \o b = Q \o R
    <3>1. a \in Seq(FrameT) /\ b \in Seq(FrameT)
      <4>1. S \subseteq FrameT
        BY <2>4 DEF MayLeave
      <4> QED BY <4>1, <2>6, <2>7, SeqOf
    <3>2. Q \o a \o b = Q \o (a \o b)
      BY <3>1
    <3> QED BY <2>10, <3>2
  <2> QED BY <2>1, <2>2, <2>3, <2>4, <2>8, <2>9, <2>11, <2>12 DEF Turns
<1> QED BY <1>2, <1>6, <1>8, <1>9, NowStays, TimelyKeeps

LEMMA TimelyStarts == Init => Timely
<1>1. SUFFICES ASSUME Init, NEW p \in Ports
      PROVE  /\ ingress[p] \in Seq(CameBefore(now, clock[p[1]]))
             /\ egress[p] \in Seq(MayLeave(p, config.twoStep[p[1]], now, clock[p[1]]))
  BY DEF Timely
<1>2. ingress[p] = <<>> /\ egress[p] = <<>>
  BY <1>1 DEF Init
<1>3. \A T : <<>> \in Seq(T)
  OBVIOUS
<1> QED BY <1>2, <1>3

LEMMA TimelyNext ==
  ASSUME Typed, Typed', Timely, [Next]_vars PROVE Timely'
<1>1. CASE UNCHANGED vars
  BY <1>1 DEF vars, Timely
<1>2. CASE SendSync
  BY <1>2, SendSyncTimely
<1>3. CASE SendDelayReq
  BY <1>3, SendDelayReqTimely
<1>4. CASE \E p \in Requesters : SendPDelayReq(p)
  BY <1>4, NetworkAssumption, SendPDelayReqTimely
<1>5. CASE \E p \in Ports : Transmit(p)
  BY <1>5, TransmitTimely
<1>6. CASE \E p \in Ports : Receive(p)
  BY <1>6, ReceiveTimely
<1>7. CASE \E p \in Ports : Lose(p)
  BY <1>7, LoseTimely
<1>8. CASE \E p \in Ports : Deliver(p)
  BY <1>8, DeliverTimely
<1>9. CASE \E n \in Nodes : Control(n)
  BY <1>9, ControlTimely
<1>10. CASE \E n \in Nodes : JumpTransparent(n)
  BY <1>10, JumpTransparentTimely
<1>11. CASE Elapse
  BY <1>11, ElapseTimely
<1> QED BY <1>1, <1>2, <1>3, <1>4, <1>5, <1>6, <1>7, <1>8, <1>9, <1>10, <1>11 DEF Next

-----------------------------------------------------------------------------
(* No MAC fails *)

\* Only a frame that leaves can make a MAC fail, and what is not trusted stays so.
LEMMA OthersDoNotFail ==
  ASSUME [Next]_vars, ~(\E p \in Ports : Transmit(p))
  PROVE  failed' = failed
<1>1. CASE UNCHANGED vars
  BY <1>1 DEF vars
<1>2. CASE SendSync \/ SendDelayReq \/ Elapse
  BY <1>2 DEF SendSync, SendDelayReq, Elapse
<1>3. CASE \E p \in Requesters : SendPDelayReq(p)
  BY <1>3 DEF SendPDelayReq
<1>4. CASE \E p \in Ports : Receive(p) \/ Lose(p) \/ Deliver(p)
  BY <1>4 DEF Receive, Lose, Deliver
<1>5. CASE \E n \in Nodes : Control(n) \/ JumpTransparent(n)
  BY <1>5 DEF Control, JumpTransparent
<1> QED BY <1>1, <1>2, <1>3, <1>4, <1>5 DEF Next

LEMMA DistrustStays ==
  ASSUME Typed, Tracked, [Next]_vars, NEW p \in Ports, ~trusted[p] PROVE ~trusted'[p]
<1>1. CASE trusted' = trusted
  BY <1>1
<1>2. CASE \E x \in Ports : Deliver(x)
  <2>1. PICK x \in Ports : Deliver(x)
    BY <1>2
  <2>2. ASSUME NEW r, NEW c \in BOOLEAN, Measures(x, r, c) PROVE ~trusted'[p]
    <3>1. trusted' = [trusted EXCEPT ![x] = @ /\ c] /\ trusted \in [Ports -> BOOLEAN]
      BY <2>2 DEF Measures, SetPeerDelay, Typed, ResultsTyped
    <3>2. CASE p = x
      <4>1. trusted'[p] = (trusted[p] /\ c)
        BY <3>1, <3>2
      <4> QED BY <4>1
    <3>3. CASE p # x
      BY <3>1, <3>3
    <3> QED BY <3>2, <3>3
  <2> QED BY <1>1, <2>1, <2>2, DeliverMeasures
<1> QED BY <1>1, <1>2, OthersMeasureNothing

\* A frame that leaves while all peer delays are trusted makes no MAC fail.
LEMMA LeavesWell ==
  ASSUME Typed, Timely, TrustsTheTruth, NEW x \in Ports, Transmit(x),
         \A p \in Ports : trusted[p]
  PROVE  ~failed'
<1>1. PICK f : f = Head(egress[x])
  OBVIOUS
<1>2. egress[x] # <<>> /\ failed' = HandleEgress(Mac(x), nic[x[1]], f, Reading(x[1])).failed
  BY <1>1 DEF Transmit
<1>3. PICK n \in Nodes : n = x[1]
  BY PortTypes
<1>4. PICK m : m = config.mechanism
  OBVIOUS
<1>5. PICK two \in BOOLEAN, ctl \in NicT(x[1]) :
        /\ m = config.mechanism /\ two = config.twoStep[n] /\ ctl = nic[x[1]]
        /\ Mac(x) = MacOf(m, two, x)
  BY <1>3, <1>4, MacIs
<1>6. PICK t \in Nat, c \in [offset : Int, epoch : Nat] : t = now /\ c = clock[n]
  BY DEF Typed, ClocksTyped
<1>7. PICK clk : clk = [time |-> t + c.offset, epoch |-> c.epoch] /\ clk = Reading(x[1])
  BY <1>3, <1>6 DEF Reading
<1>8. f \in InEgress(m, x)
  <2>1. egress[x] \in Seq(InEgress(m, x))
    BY <1>5 DEF Typed, EgressTyping
  <2> QED BY <1>1, <1>2, <2>1
<1>9. f \in MayLeave(x, two, t, c)
  <2>1. egress[x] \in Seq(MayLeave(x, two, t, c))
    BY <1>3, <1>5, <1>6 DEF Timely
  <2> QED BY <1>1, <1>2, <2>1
<1>10. failed' = HandleEgress(MacOf(m, two, x), ctl, f, clk).failed
  BY <1>2, <1>5, <1>7
<1>11. CASE f.source = x
  <2>1. Apt(f, two)
    BY <1>9, <1>11 DEF MayLeave
  <2> QED BY <1>8, <1>10, <1>11, <2>1, OwnGoesWell
<1>12. CASE f.source # x
  <2>1. TakenBefore(f, t, c)
    BY <1>9, <1>12 DEF MayLeave
  <2>2. ASSUME f.type = "SYNC" PROVE ctl.peerMeanPathDelay[f.rx] >= 0
    <3>1. PICK q \in Ports : q = f.rx /\ q[1] = x[1]
      BY <1>8, <1>12, <2>2 DEF InEgress, PortsOf
    <3>2. ctl.peerMeanPathDelay[q] \in {0, MeanDelay[q]}
      BY <1>5, <3>1 DEF TrustsTheTruth, TrustedAt
    <3>3. MeanDelay[q] \in Nat
      BY NetworkAssumption
    <3>4. PICK d \in Nat : d = ctl.peerMeanPathDelay[q]
      BY <3>2, <3>3
    <3>5. d >= 0
      OBVIOUS
    <3> QED BY <3>1, <3>4, <3>5
  <2>3. f.type = "SYNC" /\ m = "P2P" => ctl.peerMeanPathDelay[f.rx] >= 0
    BY <2>2
  <2> QED BY <1>7, <1>8, <1>10, <1>12, <2>1, <2>3, ForeignGoesWell
<1> QED BY <1>11, <1>12

LEMMA NeverFailsNext ==
  ASSUME Typed, Tracked, Timely, TrustsTheTruth, NeverFails, [Next]_vars PROVE NeverFails'
<1>1. SUFFICES ASSUME failed' PROVE \E p \in Ports : ~trusted'[p]
  BY DEF NeverFails
<1>2. CASE \E p \in Ports : ~trusted[p]
  BY <1>2, DistrustStays
<1>3. CASE \A p \in Ports : trusted[p]
  <2>1. ~failed
    BY <1>3 DEF NeverFails
  <2>2. ~\E p \in Ports : Transmit(p)
    BY <1>1, <1>3, LeavesWell
  <2> QED BY <1>1, <2>1, <2>2, OthersDoNotFail
<1> QED BY <1>2, <1>3

\* For a chain of any length: no MAC stops the simulation, unless a peer delay was measured
\* across a jump or with times that were never stored.
THEOREM NeverFailsAtAll == Spec => []NeverFails
<1>1. Init => Timely /\ NeverFails
  BY TimelyStarts DEF Init, NeverFails
<1>2. Typed /\ Typed' /\ Timely /\ [Next]_vars => Timely'
  BY TimelyNext
<1>3. Typed /\ Tracked /\ Timely /\ TrustsTheTruth /\ NeverFails /\ [Next]_vars => NeverFails'
  BY NeverFailsNext
<1> QED BY <1>1, <1>2, <1>3, RequestsOnCourse, TrustedDelaysAreTrue, PTL DEF Spec

=============================================================================
