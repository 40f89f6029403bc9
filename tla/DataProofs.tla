---------------------------- MODULE DataProofs -----------------------------
(***************************************************************************)
(* Facts about numbers and sequences that the proofs of several components *)
(* rest on: the least and the greatest of some numbers, what a fold goes   *)
(* through, two sequences end to end, what the loop that cuts a list into  *)
(* frames makes of it, and what a list of lists holds when it is           *)
(* flattened.                                                              *)
(***************************************************************************)
EXTENDS Hidraw, SequencesExt, SequenceTheorems, WellFoundedInduction, TLAPS

\* Some numbers have a least one.  It stands in for induction: a statement that
\* fails for some number fails for a first one.
LEMMA LeastNat ==
  ASSUME NEW T \in SUBSET Nat, T # {}
  PROVE  \E x \in T : \A y \in T : x <= y
<1> DEFINE R == OpToRel(<, Nat)
<1>1. PICK x \in T : \A y \in T : ~(<<y, x>> \in R)
  <2>1. IsWellFoundedOn(R, Nat)
    BY NatLessThanWellFounded
  <2> HIDE DEF R
  <2>2. QED
    BY <2>1, WFMin
<1>2. \A a, b \in Nat : a < b => <<a, b>> \in R
  BY DEF OpToRel
<1> HIDE DEF R
<1>3. ASSUME NEW y \in T PROVE x <= y
  <2>1. x \in Nat /\ y \in Nat /\ ~(y < x)
    BY <1>1, <1>2
  <2>2. QED
    BY <2>1
<1>4. QED
  BY <1>3

\* Some numbers up to n have a greatest, which Max returns.
LEMMA MaxOfNats ==
  ASSUME NEW n \in Nat, NEW S \in SUBSET (0..n), S # {}
  PROVE  Max(S) \in S /\ \A y \in S : y <= Max(S)
<1> DEFINE T == {n - x : x \in S}
<1>1. T \in SUBSET Nat /\ T # {}
  <2>1. \A x \in S : n - x \in Nat
    OBVIOUS
  <2>2. QED
    BY <2>1
<1>2. PICK m \in T : \A y \in T : m <= y
  <2> HIDE DEF T
  <2>1. QED
    BY <1>1, LeastNat
<1>3. PICK x \in S : m = n - x
  BY <1>2
<1>4. ASSUME NEW y \in S PROVE x >= y
  <2>1. n - y \in T
    OBVIOUS
  <2>2. n - x <= n - y
    BY <1>2, <1>3, <2>1
  <2>3. QED
    BY <2>2
<1>5. QED
  BY <1>4 DEF Max

LEMMA MaxIs ==
  ASSUME NEW S \in SUBSET Int, NEW x \in S, \A y \in S : y <= x
  PROVE  Max(S) = x
<1> DEFINE R(z) == z \in S /\ \A y \in S : z >= y
<1>1. R(x)
  OBVIOUS
<1>2. R(CHOOSE z : R(z))
  BY <1>1
<1>3. \A z : R(z) => z = x
  <2>1. \A z \in S : R(z) => z >= x /\ z <= x /\ z \in Int /\ x \in Int
    OBVIOUS
  <2>2. \A z, w \in Int : z >= w /\ z <= w => z = w
    OBVIOUS
  <2>3. QED
    BY <2>1, <2>2
<1>4. Max(S) = CHOOSE z : R(z)
  BY DEF Max
<1>5. QED
  BY <1>2, <1>3, <1>4

\* The function that a fold of e over the numbers up to n goes through exists.
Folding(X, base, n, e, g) ==
  /\ g \in [SUBSET (1..n) -> X]
  /\ \A S \in SUBSET (1..n) :
       g[S] = IF S = {} THEN base ELSE e[<<g[S \ {Max(S)}], Max(S)>>]

LEMMA FoldExists ==
  ASSUME NEW X, NEW base \in X, NEW n \in Nat, NEW e \in [X \X (1..n) -> X]
  PROVE  \E g : Folding(X, base, n, e, g)
<1> DEFINE E(g, m) == \A S \in SUBSET (1..m) :
                        g[S] = IF S = {} THEN base ELSE e[<<g[S \ {Max(S)}], Max(S)>>]
           Q(m) == \E g \in [SUBSET (1..m) -> X] : E(g, m)
           T == {m \in 0..n : ~Q(m)}
<1>1. SUFFICES ASSUME T # {} PROVE FALSE
  BY n \in 0..n DEF Folding
<1>2. PICK m \in T : \A y \in T : m <= y
  <2>1. T \in SUBSET Nat
    OBVIOUS
  <2> HIDE DEF T
  <2>2. QED
    BY <1>1, <2>1, LeastNat
<1>3. Q(0)
  <2>1. \A S \in SUBSET (1..0) : S = {}
    OBVIOUS
  <2> DEFINE g == [S \in SUBSET (1..0) |-> base]
  <2>2. g \in [SUBSET (1..0) -> X] /\ \A S \in SUBSET (1..0) : g[S] = base
    OBVIOUS
  <2> HIDE DEF g
  <2>3. E(g, 0)
    BY <2>1, <2>2
  <2>4. QED
    BY <2>2, <2>3
<1>4. m \in 1..n /\ m - 1 \in 0..n /\ Q(m - 1)
  <2>1. m # 0
    BY <1>2, <1>3
  <2> HIDE DEF Q
  <2>2. m \in 1..n /\ m - 1 \in 0..n /\ ~(m <= m - 1)
    BY <1>2, <2>1
  <2>3. QED
    BY <1>2, <2>2
<1>5. PICK g \in [SUBSET (1..(m - 1)) -> X] : E(g, m - 1)
  BY <1>4
<1> DEFINE h == [S \in SUBSET (1..m) |-> IF m \in S THEN e[<<g[S \ {m}], m>>] ELSE g[S]]
<1>6. \A S \in SUBSET (1..m) : /\ S \ {m} \in SUBSET (1..(m - 1))
                               /\ m \notin S => S \in SUBSET (1..(m - 1))
  BY <1>4
<1>7. h \in [SUBSET (1..m) -> X]
  BY <1>4, <1>6
<1>8. \A S \in SUBSET (1..m) : h[S] = IF m \in S THEN e[<<g[S \ {m}], m>>] ELSE g[S]
  OBVIOUS
<1> HIDE DEF h
<1>9. ASSUME NEW S \in SUBSET (1..m)
      PROVE  h[S] = IF S = {} THEN base ELSE e[<<h[S \ {Max(S)}], Max(S)>>]
  <2>1. CASE m \in S
    <3>1. Max(S) = m
      BY <1>4, <2>1, MaxIs
    <3>2. S \ {m} \in SUBSET (1..m) /\ m \notin S \ {m}
      BY <1>4
    <3>3. h[S \ {m}] = g[S \ {m}]
      BY <1>8, <3>2
    <3>4. QED
      BY <1>8, <2>1, <3>1, <3>3
  <2>2. CASE m \notin S /\ S # {}
    <3>1. S \in SUBSET (1..(m - 1)) /\ h[S] = g[S]
      BY <1>6, <1>8, <2>2
    <3>2. S \ {Max(S)} \in SUBSET (1..m) /\ m \notin S \ {Max(S)}
      BY <2>2
    <3>3. h[S \ {Max(S)}] = g[S \ {Max(S)}]
      BY <1>8, <3>2
    <3>4. g[S] = e[<<g[S \ {Max(S)}], Max(S)>>]
      BY <1>5, <2>2, <3>1
    <3>5. QED
      BY <2>2, <3>1, <3>3, <3>4
  <2>3. CASE S = {}
    <3>1. S \in SUBSET (1..(m - 1)) /\ h[S] = g[S]
      BY <1>6, <1>8, <2>3
    <3>2. QED
      BY <1>5, <2>3, <3>1
  <2>4. QED
    BY <2>1, <2>2, <2>3
<1>10. Q(m)
  BY <1>7, <1>9
<1>11. QED
  BY <1>2, <1>10

\* And the prefixes of what is folded run through it one by one.
LEMMA FirstOnes ==
  ASSUME NEW i \in Nat \ {0}
  PROVE  1..i # {} /\ Max(1..i) = i /\ (1..i) \ {i} = 1..(i - 1)
<1>1. i \in 1..i /\ 1..i # {} /\ 1..i \in SUBSET Int /\ \A y \in 1..i : y <= i
  <2>1. i \in 1..i
    OBVIOUS
  <2>2. \A y \in 1..i : y \in Int /\ y <= i
    OBVIOUS
  <2>3. QED
    BY <2>1, <2>2
<1>2. Max(1..i) = i
  BY <1>1, MaxIs
<1>3. (1..i) \ {i} = 1..(i - 1)
  OBVIOUS
<1>4. QED
  BY <1>1, <1>2, <1>3

\* Division by a frame's size.
LEMMA DivFacts ==
  ASSUME NEW a \in Nat, NEW n \in Nat \ {0}
  PROVE  a \div n \in Nat /\ n * (a \div n) <= a /\ a < n * (a \div n) + n
  OBVIOUS

\* Two sequences end to end.
LEMMA Joined ==
  ASSUME NEW S, NEW s \in Seq(S), NEW t \in Seq(S)
  PROVE  /\ s \o t \in Seq(S) /\ Len(s \o t) = Len(s) + Len(t)
         /\ \A i \in 1..Len(s) : (s \o t)[i] = s[i]
         /\ \A i \in 1..Len(t) : (s \o t)[Len(s) + i] = t[i]
<1>1. /\ s \o t \in Seq(S)
      /\ Len(s \o t) = Len(s) + Len(t)
      /\ \A i \in 1 .. Len(s) + Len(t) : (s \o t)[i] = IF i <= Len(s) THEN s[i] ELSE t[i - Len(s)]
  BY ConcatProperties
<1> DEFINE u == s \o t
<1> HIDE DEF u
<1>2. \A i \in 1 .. Len(s) + Len(t) : u[i] = IF i <= Len(s) THEN s[i] ELSE t[i - Len(s)]
  BY <1>1 DEF u
<1>3. Len(s) \in Nat /\ Len(t) \in Nat
  OBVIOUS
<1>4. \A i \in 1..Len(s) : u[i] = s[i]
  BY <1>2, <1>3
<1>5. ASSUME NEW i \in 1..Len(t) PROVE u[Len(s) + i] = t[i]
  BY <1>2, <1>3, Len(s) + i - Len(s) = i, ~(Len(s) + i <= Len(s)), Len(s) + i \in 1 .. Len(s) + Len(t)
<1>6. QED
  BY <1>1, <1>4, <1>5 DEF u

\* The frames of a list hold its entries, all of them and no other (the loops of
\* kbd/device.go:88-95 and elc/device.go:175-209).
LEMMA ChunksCover ==
  ASSUME NEW S, NEW s \in Seq(S), NEW n \in Nat \ {0}
  PROVE  /\ Chunks(s, n) \in Seq(Seq(S))
         /\ UNION {ToSet(Chunks(s, n)[i]) : i \in DOMAIN Chunks(s, n)} = ToSet(s)
<1> DEFINE L == Len(s)
           K == (L + n - 1) \div n
           top(i) == IF i * n < L THEN i * n ELSE L
           chunk(i) == SubSeq(s, (i - 1) * n + 1, top(i))
<1>1. L \in Nat /\ K \in Nat /\ n * K <= L + n - 1 /\ L + n - 1 < n * K + n
  BY DivFacts
<1>2. ASSUME NEW i \in 1..K
      PROVE  /\ (i - 1) * n \in Nat /\ i * n = (i - 1) * n + n /\ top(i) \in Nat /\ top(i) <= L
             /\ chunk(i) \in Seq(S)
             /\ \A j \in 1..(top(i) - (i - 1) * n) : chunk(i)[j] = s[(i - 1) * n + j]
             /\ Len(chunk(i)) = IF (i - 1) * n + 1 <= top(i) THEN top(i) - (i - 1) * n ELSE 0
  <2>1. (i - 1) * n \in Nat /\ i * n = (i - 1) * n + n
    BY <1>1
  <2>2. top(i) \in Nat /\ top(i) <= L
    BY <1>1, <2>1
  <2> DEFINE m == (i - 1) * n + 1
             t == top(i)
  <2>3. m \in Int /\ t \in Int /\ \A j \in m..t : s[j] \in S
    BY <1>1, <2>1, <2>2
  <2>4. t - m + 1 = t - (i - 1) * n /\ \A j \in 1..(t - m + 1) : m + j - 1 = (i - 1) * n + j
    BY <2>1, <2>2
  <2> HIDE DEF m, t
  <2>5. /\ SubSeq(s, m, t) \in Seq(S)
        /\ Len(SubSeq(s, m, t)) = IF m <= t THEN t - m + 1 ELSE 0
        /\ \A j \in 1..(t - m + 1) : SubSeq(s, m, t)[j] = s[m + j - 1]
    BY <2>3, SubSeqProperties
  <2>6. chunk(i) = SubSeq(s, m, t)
    BY DEF m, t
  <2> HIDE DEF chunk, top
  <2>7. \A j \in 1..(top(i) - (i - 1) * n) : chunk(i)[j] = s[(i - 1) * n + j]
    BY <2>4, <2>5, <2>6 DEF t
  <2>8. QED
    BY <2>1, <2>2, <2>4, <2>5, <2>6, <2>7 DEF m, t
<1>3. Chunks(s, n) = [i \in 1..K |-> chunk(i)]
  BY DEF Chunks
<1> HIDE DEF chunk, top, K
<1>4. Chunks(s, n) \in Seq(Seq(S)) /\ DOMAIN Chunks(s, n) = 1..K
  BY <1>1, <1>2, <1>3
<1>5. ASSUME NEW i \in 1..K PROVE ToSet(chunk(i)) \subseteq ToSet(s)
  <2>1. ASSUME NEW j \in DOMAIN chunk(i) PROVE chunk(i)[j] \in ToSet(s)
    <3>1. j \in 1..Len(chunk(i))
      <4>1. \A c \in Seq(S) : DOMAIN c = 1..Len(c)
        OBVIOUS
      <4>2. chunk(i) \in Seq(S)
        BY <1>2
      <4>3. QED
        BY <2>1, <4>1, <4>2
    <3> DEFINE b == (i - 1) * n
    <3>2. b \in Nat /\ top(i) \in Nat /\ top(i) <= L /\ Len(chunk(i)) = IF b + 1 <= top(i) THEN top(i) - b ELSE 0
      BY <1>2
    <3>3. \A k \in 1..(top(i) - b) : chunk(i)[k] = s[b + k]
      BY <1>2
    <3> HIDE DEF b
    <3>4. j \in 1..(top(i) - b) /\ b + j \in 1..L
      BY <1>1, <3>1, <3>2
    <3>5. chunk(i)[j] = s[b + j]
      BY <3>3, <3>4
    <3>6. QED
      BY <3>4, <3>5 DEF ToSet
  <2>2. QED
    BY <2>1 DEF ToSet
<1>6. ASSUME NEW j \in 1..L PROVE \E i \in 1..K : s[j] \in ToSet(chunk(i))
  <2> DEFINE q == (j - 1) \div n
             r == j - q * n
  <2>1. q \in Nat /\ q * n <= j - 1 /\ j - 1 < q * n + n
    BY DivFacts
  <2>2. q + 1 \in 1..K
    <3>1. SUFFICES ASSUME K <= q PROVE FALSE
      BY <1>1, <2>1
    <3>2. n * K <= n * q
      BY <1>1, <2>1, <3>1
    <3>3. QED
      BY <1>1, <2>1, <3>2
  <2>3. r \in 1..n /\ q * n + r = j /\ q * n + r <= L
    BY <2>1
  <2>4. r \in 1..(top(q + 1) - q * n)
    BY <1>1, <1>2, <2>1, <2>2, <2>3 DEF top
  <2>5. chunk(q + 1)[r] = s[j] /\ r \in DOMAIN chunk(q + 1)
    <3> DEFINE i == q + 1
               b == (i - 1) * n
    <3>1. b = q * n /\ b \in Nat
      BY <2>1
    <3>2. /\ top(i) \in Nat /\ chunk(i) \in Seq(S)
          /\ Len(chunk(i)) = IF b + 1 <= top(i) THEN top(i) - b ELSE 0
          /\ \A k \in 1..(top(i) - b) : chunk(i)[k] = s[b + k]
      BY <1>2, <2>2
    <3>3. r \in 1..(top(i) - b) /\ b + r = j
      BY <2>3, <2>4, <3>1
    <3> HIDE DEF i, b
    <3>4. chunk(i)[r] = s[j] /\ r \in DOMAIN chunk(i)
      BY <3>1, <3>2, <3>3
    <3>5. QED
      BY <3>4 DEF i
  <2>6. QED
    BY <2>2, <2>5 DEF ToSet
<1>7. DOMAIN s = 1..L
  OBVIOUS
<1>8. UNION {ToSet(chunk(i)) : i \in 1..K} = ToSet(s)
  <2>1. \A x \in ToSet(s) : \E i \in 1..K : x \in ToSet(chunk(i))
    BY <1>6, <1>7 DEF ToSet
  <2>2. QED
    BY <1>5, <2>1
<1>9. UNION {ToSet(Chunks(s, n)[i]) : i \in 1..K} = UNION {ToSet(chunk(i)) : i \in 1..K}
  BY <1>3
<1>10. QED
  BY <1>4, <1>8, <1>9
\* The function that FlattenSeq builds exists: one that does for the first lists
\* can be carried on by one more.
Carried(ss, n, g) == g = [i \in 1..n |-> IF i = 1 THEN ss[i] ELSE g[i - 1] \o ss[i]]

LEMMA CarriedExists ==
  ASSUME NEW ss, NEW n \in Nat
  PROVE  \E g : Carried(ss, n, g)
<1> DEFINE Q(m) == \E g : Carried(ss, m, g)
           T == {m \in Nat : ~Q(m)}
<1>1. SUFFICES ASSUME T # {} PROVE FALSE
  OBVIOUS
<1>2. PICK m \in T : \A y \in T : m <= y
  BY <1>1, LeastNat
<1>3. Q(0)
  <2>1. Carried(ss, 0, [i \in 1..0 |-> ss[i]])
    BY DEF Carried
  <2>2. QED
    BY <2>1
<1>4. m - 1 \in Nat /\ Q(m - 1)
  BY <1>2, <1>3
<1>5. PICK g : Carried(ss, m - 1, g)
  BY <1>4
<1> DEFINE h == [i \in 1..m |-> IF i = m THEN (IF i = 1 THEN ss[i] ELSE g[i - 1] \o ss[i]) ELSE g[i]]
<1>6. \A i \in 1..m : h[i] = IF i = 1 THEN ss[i] ELSE h[i - 1] \o ss[i]
  <2>1. ASSUME NEW i \in 1..m, i # m PROVE h[i] = IF i = 1 THEN ss[i] ELSE h[i - 1] \o ss[i]
    <3>1. i \in 1..(m - 1) /\ (i # 1 => i - 1 \in 1..m /\ i - 1 # m)
      BY <1>4, <2>1
    <3>2. g[i] = IF i = 1 THEN ss[i] ELSE g[i - 1] \o ss[i]
      BY <1>5, <3>1 DEF Carried
    <3>3. QED
      BY <2>1, <3>1, <3>2
  <2>2. ASSUME m \in 1..m PROVE h[m] = IF m = 1 THEN ss[m] ELSE h[m - 1] \o ss[m]
    <3>1. m # 1 => m - 1 \in 1..m /\ m - 1 # m
      BY <1>4, <2>2
    <3>2. QED
      BY <2>2, <3>1
  <2>3. QED
    BY <2>1, <2>2
<1>7. h = [i \in 1..m |-> h[i]]
  OBVIOUS
<1> HIDE DEF h
<1>8. Carried(ss, m, h)
  BY <1>6, <1>7 DEF Carried
<1>9. QED
  BY <1>2, <1>8

\* Where the lists lie in the flattened one: list k from its offset o[k] on, the
\* next behind it, and nothing between.
Laid(ss, m, f, o) ==
  /\ o \in [1..(m + 1) -> Nat] /\ o[1] = 0 /\ (\A k \in 1..m : o[k + 1] = o[k] + Len(ss[k]))
  /\ Len(f) = o[m + 1]
  /\ \A k \in 1..m : \A j \in 1..Len(ss[k]) : o[k] + j \in 1..Len(f) /\ f[o[k] + j] = ss[k][j]
  /\ \A p \in 1..Len(f) : \E k \in 1..m : \E j \in 1..Len(ss[k]) : p = o[k] + j
\* One more list is laid behind the others.
LEMMA LaidMore ==
  ASSUME NEW S, NEW ss, NEW m \in Nat, NEW f \in Seq(S), NEW o, Laid(ss, m, f, o), NEW t \in Seq(S), t = ss[m + 1]
  PROVE  \E q : Laid(ss, m + 1, f \o t, q)
<1> DEFINE L == Len(f)
           K == Len(t)
           g == f \o t
           q == [k \in 1..(m + 2) |-> IF k <= m + 1 THEN o[k] ELSE L + K]
<1>1. /\ g \in Seq(S) /\ Len(g) = L + K
      /\ \A i \in 1..L : g[i] = f[i]
      /\ \A i \in 1..K : g[L + i] = t[i]
  BY Joined
<1>2. L \in Nat /\ K \in Nat /\ K = Len(ss[m + 1])
  OBVIOUS
<1>3. /\ o \in [1..(m + 1) -> Nat] /\ o[1] = 0 /\ (\A k \in 1..m : o[k + 1] = o[k] + Len(ss[k]))
      /\ L = o[m + 1]
      /\ \A k \in 1..m : \A j \in 1..Len(ss[k]) : o[k] + j \in 1..L /\ f[o[k] + j] = ss[k][j]
      /\ \A p \in 1..L : \E k \in 1..m : \E j \in 1..Len(ss[k]) : p = o[k] + j
  BY DEF Laid
<1> HIDE DEF L, K, g
<1>4. /\ q \in [1..(m + 2) -> Nat] /\ q[1] = 0 /\ q[m + 2] = L + K /\ q[m + 1] = L
      /\ \A k \in 1..(m + 1) : q[k] = o[k]
  BY <1>2, <1>3
<1> HIDE DEF q
<1>5. ASSUME NEW k \in 1..(m + 1) PROVE q[k + 1] = q[k] + Len(ss[k])
  <2>1. CASE k = m + 1
    <3>1. k + 1 = m + 2
      BY <2>1
    <3>2. QED
      BY <1>2, <1>4, <2>1, <3>1
  <2>2. CASE k # m + 1
    <3>1. k \in 1..m /\ k + 1 \in 1..(m + 1)
      BY <2>2
    <3>2. QED
      BY <1>3, <1>4, <3>1
  <2>3. QED
    BY <2>1, <2>2
<1>6. ASSUME NEW k \in 1..(m + 1), NEW j \in 1..Len(ss[k])
      PROVE  q[k] + j \in 1..Len(g) /\ g[q[k] + j] = ss[k][j]
  <2>1. CASE k = m + 1
    <3>1. j \in 1..K /\ q[k] = L /\ ss[k] = t
      BY <1>2, <1>4, <2>1
    <3>2. L + j \in 1..(L + K)
      BY <1>2, <3>1
    <3>3. QED
      BY <1>1, <3>1, <3>2
  <2>2. CASE k # m + 1
    <3>1. k \in 1..m /\ q[k] = o[k]
      BY <1>4, <2>2
    <3>2. o[k] + j \in 1..L /\ f[o[k] + j] = ss[k][j]
      BY <1>3, <3>1
    <3>3. 1..L \subseteq 1..(L + K)
      BY <1>2
    <3>4. QED
      BY <1>1, <3>1, <3>2, <3>3
  <2>3. QED
    BY <2>1, <2>2
<1>7. ASSUME NEW p \in 1..Len(g) PROVE \E k \in 1..(m + 1) : \E j \in 1..Len(ss[k]) : p = q[k] + j
  <2>1. CASE p <= L
    <3>1. p \in 1..L
      BY <1>1, <1>2, <2>1
    <3>2. PICK k \in 1..m : \E j \in 1..Len(ss[k]) : p = o[k] + j
      BY <1>3, <3>1
    <3>3. k \in 1..(m + 1) /\ q[k] = o[k]
      BY <1>4
    <3>4. QED
      BY <3>2, <3>3
  <2>2. CASE p > L
    <3>1. p - L \in 1..K /\ p = L + (p - L)
      BY <1>1, <1>2, <2>2
    <3>2. m + 1 \in 1..(m + 1)
      OBVIOUS
    <3>3. QED
      BY <1>2, <1>4, <3>1, <3>2
  <2>3. QED
    BY <1>1, <1>2, <2>1, <2>2
<1>8. Laid(ss, m + 1, g, q)
  <2>1. m + 1 + 1 = m + 2
    OBVIOUS
  <2>2. Len(g) = q[m + 1 + 1]
    BY <1>1, <1>4, <2>1
  <2>3. QED
    BY <1>4, <1>5, <1>6, <1>7, <2>1, <2>2 DEF Laid
<1>9. QED
  BY <1>8 DEF g

\* What FlattenSeq returns: the lists, one behind the other.
LEMMA FlattenLays ==
  ASSUME NEW S, NEW ss \in Seq(Seq(S))
  PROVE  FlattenSeq(ss) \in Seq(S) /\ \E o : Laid(ss, Len(ss), FlattenSeq(ss), o)
<1> DEFINE n == Len(ss)
<1>0. n \in Nat /\ ss \in [1..n -> Seq(S)] /\ <<>> \in Seq(S)
  OBVIOUS
<1>1. Laid(ss, 0, <<>>, [k \in 1..1 |-> 0])
  BY DEF Laid
<1>2. CASE n = 0
  <2>1. FlattenSeq(ss) = <<>>
    BY <1>2 DEF FlattenSeq
  <2>2. QED
    BY <1>0, <1>1, <1>2, <2>1
<1>3. CASE n # 0
  <2> DEFINE flatten[i \in 1..n] == IF i = 1 THEN ss[i] ELSE flatten[i - 1] \o ss[i]
  <2>1. FlattenSeq(ss) = flatten[n]
    BY <1>3 DEF FlattenSeq
  <2>2. flatten = CHOOSE g : g = [i \in 1..n |-> IF i = 1 THEN ss[i] ELSE g[i - 1] \o ss[i]]
    BY DEF flatten
  <2> HIDE DEF flatten
  <2>3. Carried(ss, n, flatten)
    BY <1>0, <2>2, CarriedExists DEF Carried
  <2> HIDE DEF n
  <2>4. \A i \in 1..n : flatten[i] = IF i = 1 THEN ss[i] ELSE flatten[i - 1] \o ss[i]
    BY <2>3 DEF Carried
  <2> DEFINE Q(m) == flatten[m] \in Seq(S) /\ \E o : Laid(ss, m, flatten[m], o)
             T == {m \in 1..n : ~Q(m)}
  <2>5. T = {}
    <3>1. SUFFICES ASSUME T # {} PROVE FALSE
      OBVIOUS
    <3>2. PICK m \in T : \A y \in T : m <= y
      <4>1. T \in SUBSET Nat
        OBVIOUS
      <4> HIDE DEF T
      <4>2. QED
        BY <3>1, <4>1, LeastNat
    <3>3. m \in 1..n /\ ~Q(m) /\ ss[m] \in Seq(S)
      BY <1>0, <3>2 DEF n
    <3>4. CASE m = 1
      <4>1. flatten[m] = ss[m] /\ <<>> \o ss[m] = ss[m]
        BY <2>4, <3>3, <3>4, ConcatEmptySeq
      <4>2. \E q : Laid(ss, 0 + 1, <<>> \o ss[m], q)
        <5> DEFINE t == ss[m]
        <5>1. t \in Seq(S) /\ t = ss[0 + 1]
          BY <3>3, <3>4
        <5> HIDE DEF t
        <5>2. PICK o : Laid(ss, 0, <<>>, o)
          BY <1>1
        <5>3. \E q : Laid(ss, 0 + 1, <<>> \o t, q)
          BY <1>0, <5>1, <5>2, LaidMore
        <5>4. QED
          BY <5>3 DEF t
      <4>3. QED
        BY <3>3, <3>4, <4>1, <4>2
    <3>5. CASE m # 1
      <4> DEFINE l == m - 1
      <4>1. l \in 1..n /\ l \in Nat /\ ~(m <= l) /\ l + 1 = m
        BY <1>0, <3>3, <3>5 DEF n
      <4>2. Q(l)
        BY <3>2, <4>1
      <4>3. PICK o : Laid(ss, l, flatten[l], o)
        BY <4>2
      <4>4. flatten[m] = flatten[l] \o ss[m]
        BY <2>4, <3>3, <3>5
      <4> HIDE DEF l
      <4>5. \E q : Laid(ss, l + 1, flatten[l] \o ss[m], q)
        BY <3>3, <4>1, <4>2, <4>3, LaidMore
      <4>6. flatten[m] \in Seq(S)
        BY <3>3, <4>2, <4>4
      <4>7. QED
        BY <3>3, <4>1, <4>4, <4>5, <4>6
    <3>6. QED
      BY <3>4, <3>5
  <2>6. n \in 1..n
    BY <1>0, <1>3 DEF n
  <2>7. QED
    BY <2>1, <2>5, <2>6 DEF n
<1>4. QED
  BY <1>2, <1>3
\* It holds what they hold.
LEMMA FlattenCovers ==
  ASSUME NEW S, NEW ss \in Seq(Seq(S))
  PROVE  ToSet(FlattenSeq(ss)) = UNION {ToSet(ss[i]) : i \in DOMAIN ss}
<1> DEFINE f == FlattenSeq(ss)
           n == Len(ss)
<1>1. PICK o : Laid(ss, n, f, o)
  BY FlattenLays
<1>2. f \in Seq(S) /\ DOMAIN f = 1..Len(f)
  BY FlattenLays
<1>3. DOMAIN ss = 1..n /\ \A k \in 1..n : DOMAIN ss[k] = 1..Len(ss[k])
  OBVIOUS
<1> HIDE DEF f, n
<1>4. ASSUME NEW x \in ToSet(f) PROVE \E k \in 1..n : x \in ToSet(ss[k])
  <2>1. PICK p \in 1..Len(f) : x = f[p]
    BY <1>2 DEF ToSet
  <2>2. PICK k \in 1..n : \E j \in 1..Len(ss[k]) : p = o[k] + j
    BY <1>1 DEF Laid
  <2>3. PICK j \in 1..Len(ss[k]) : p = o[k] + j
    BY <2>2
  <2>4. x = ss[k][j]
    BY <1>1, <2>1, <2>3 DEF Laid
  <2>5. QED
    BY <1>3, <2>4 DEF ToSet
<1>5. ASSUME NEW k \in 1..n, NEW x \in ToSet(ss[k]) PROVE x \in ToSet(f)
  <2>1. PICK j \in 1..Len(ss[k]) : x = ss[k][j]
    BY <1>3 DEF ToSet
  <2>2. o[k] + j \in 1..Len(f) /\ f[o[k] + j] = x
    BY <1>1, <2>1 DEF Laid
  <2>3. QED
    BY <1>2, <2>2 DEF ToSet
<1>6. QED
  BY <1>3, <1>4, <1>5 DEF f
=============================================================================
