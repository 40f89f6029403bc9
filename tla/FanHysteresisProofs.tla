------------------------- MODULE FanHysteresisProofs -------------------------
(***************************************************************************)
(* One fan for any side a payload may carry, any hysteresis setting and    *)
(* any sequence of readings: the accepted side is what its definition      *)
(* says, and accepting it again changes nothing; the boost the fan holds   *)
(* is always the curve's at the temperature it remembers, and that         *)
(* temperature never lags the reading by more than the hysteresis.         *)
(***************************************************************************)
EXTENDS FanHysteresis, DataProofs, FiniteSetTheorems

-----------------------------------------------------------------------------
(* What normalizePoints makes of a side *)

Clamped == [temp : MinTemp .. MaxTemp, boost : MinBoost .. MaxBoost]

\* h goes through the results of op along s.
InsertRun(s, h) ==
  /\ h[0] = <<>>
  /\ \A i \in 1..Len(s) : h[i] = insertByTemp(h[i - 1], s[i])

DedupRun(s, h) ==
  /\ h[0] = <<>>
  /\ \A i \in 1..Len(s) : h[i] = dedupPoint(h[i - 1], s[i])

LEMMA ClampedFields ==
  ASSUME NEW p \in Clamped
  PROVE  p.temp \in Int /\ p.boost \in Int /\ p.temp \in 0..110 /\ p.boost \in 0..255
  BY DEF Clamped, MinTemp, MaxTemp, MinBoost, MaxBoost

\* Where insertByTemp puts a point.
Place(out, p) == Max({0} \cup {i \in DOMAIN out : out[i].temp <= p.temp})

LEMMA InsertShape ==
  ASSUME NEW out \in Seq(Clamped), NEW p \in Clamped
  PROVE  /\ Place(out, p) \in 0..Len(out)
         /\ \A i \in 1..Len(out) : out[i].temp <= p.temp => i <= Place(out, p)
         /\ Place(out, p) # 0 => out[Place(out, p)].temp <= p.temp
         /\ insertByTemp(out, p) \in Seq(Clamped)
         /\ Len(insertByTemp(out, p)) = Len(out) + 1
         /\ \A i \in 1..(Len(out) + 1) :
              insertByTemp(out, p)[i] = IF i <= Place(out, p) THEN out[i]
                                        ELSE IF i = Place(out, p) + 1 THEN p ELSE out[i - 1]
<1> DEFINE n == Len(out)
           k == Place(out, p)
           S == {0} \cup {i \in DOMAIN out : out[i].temp <= p.temp}
<1>1. n \in Nat /\ DOMAIN out = 1..n /\ \A i \in 1..n : out[i] \in Clamped
  OBVIOUS
<1>2. k \in S /\ \A y \in S : y <= k
  <2>1. S \in SUBSET (0..n) /\ S # {}
    BY <1>1
  <2>2. k = Max(S)
    BY DEF Place
  <2> HIDE DEF S, k
  <2>3. QED
    BY <1>1, <2>1, <2>2, MaxOfNats
<1>3. k \in 0..n /\ (k # 0 => out[k].temp <= p.temp)
  BY <1>1, <1>2
<1>4. \A i \in 1..n : out[i].temp <= p.temp => i <= k
  BY <1>1, <1>2
<1> DEFINE a == SubSeq(out, 1, k)
           b == SubSeq(out, k + 1, n)
           r == insertByTemp(out, p)
<1>5. r = a \o <<p>> \o b
  <2>1. r = SubSeq(out, 1, (1 + k) - 1) \o <<p>> \o SubSeq(out, 1 + k, n)
    BY DEF insertByTemp, InsertAt, Place
  <2> HIDE DEF k
  <2>2. (1 + k) - 1 = k /\ 1 + k = k + 1
    BY <1>3
  <2>3. QED
    BY <2>1, <2>2
<1> HIDE DEF k, r
<1>6. a \in Seq(Clamped) /\ Len(a) = k /\ \A i \in 1..k : a[i] = out[i]
  <2>1. 1 \in Int /\ k \in Int /\ \A i \in 1..k : out[i] \in Clamped
    BY <1>1, <1>3
  <2>2. /\ a \in Seq(Clamped) /\ Len(a) = (IF 1 <= k THEN k - 1 + 1 ELSE 0)
        /\ \A i \in 1..(k - 1 + 1) : a[i] = out[1 + i - 1]
    BY <2>1, SubSeqProperties
  <2> HIDE DEF a
  <2>3. QED
    BY <1>3, <2>2
<1>7. b \in Seq(Clamped) /\ Len(b) = n - k /\ \A i \in 1..(n - k) : b[i] = out[k + i]
  <2>1. k + 1 \in Int /\ n \in Int /\ \A i \in (k + 1)..n : out[i] \in Clamped
    BY <1>1, <1>3
  <2>2. /\ b \in Seq(Clamped) /\ Len(b) = (IF k + 1 <= n THEN n - (k + 1) + 1 ELSE 0)
        /\ \A i \in 1..(n - (k + 1) + 1) : b[i] = out[(k + 1) + i - 1]
    BY <2>1, SubSeqProperties
  <2> HIDE DEF b
  <2>3. n - (k + 1) + 1 = n - k /\ \A i \in 1..(n - k) : (k + 1) + i - 1 = k + i
    BY <1>1, <1>3
  <2>4. QED
    <3>1. Len(b) = n - k
      <4>1. Len(b) = IF k + 1 <= n THEN n - (k + 1) + 1 ELSE 0
        BY <2>2
      <4>2. n \in Nat /\ k \in 0..n
        BY <1>1, <1>3
      <4> HIDE DEF n
      <4>3. QED
        BY <4>1, <4>2
    <3>2. \A i \in 1..(n - k) : b[i] = out[k + i]
      BY <2>2, <2>3
    <3>3. QED
      BY <2>2, <3>1, <3>2
<1> HIDE DEF a, b
<1>8. a \o <<p>> \in Seq(Clamped) /\ Len(a \o <<p>>) = k + 1
      /\ \A i \in 1..(k + 1) : (a \o <<p>>)[i] = IF i <= k THEN out[i] ELSE p
  <2> DEFINE c == <<p>>
  <2>1. c \in Seq(Clamped) /\ Len(c) = 1 /\ c[1] = p
    OBVIOUS
  <2> HIDE DEF c
  <2>2. /\ a \o c \in Seq(Clamped) /\ Len(a \o c) = Len(a) + Len(c)
        /\ \A i \in 1..Len(a) : (a \o c)[i] = a[i]
        /\ \A i \in 1..Len(c) : (a \o c)[Len(a) + i] = c[i]
    <3>1. a \in Seq(Clamped) /\ c \in Seq(Clamped)
      BY <1>6, <2>1
    <3>2. QED
      BY <3>1, Joined
  <2>3. (a \o c)[k + 1] = p
    BY <1>6, <2>1, <2>2
  <2>4. ASSUME NEW i \in 1..(k + 1) PROVE (a \o c)[i] = IF i <= k THEN out[i] ELSE p
    <3>1. CASE i <= k
      <4>1. i \in 1..k
        BY <1>3, <3>1
      <4>2. QED
        BY <1>6, <2>2, <3>1, <4>1
    <3>2. CASE ~(i <= k)
      <4>1. i = k + 1
        BY <1>3, <3>2
      <4>2. QED
        BY <2>3, <3>2, <4>1
    <3>3. QED
      BY <3>1, <3>2
  <2>5. QED
    BY <1>6, <2>1, <2>2, <2>4 DEF c
<1> DEFINE d == a \o <<p>>
<1> HIDE DEF d
<1>9. /\ d \o b \in Seq(Clamped) /\ Len(d \o b) = Len(d) + Len(b)
      /\ \A i \in 1..Len(d) : (d \o b)[i] = d[i]
      /\ \A i \in 1..Len(b) : (d \o b)[Len(d) + i] = b[i]
  <2>1. d \in Seq(Clamped) /\ b \in Seq(Clamped)
    BY <1>7, <1>8 DEF d
  <2>2. QED
    BY <2>1, Joined
<1>10. r = d \o b /\ Len(d) = k + 1 /\ Len(r) = n + 1 /\ r \in Seq(Clamped)
  BY <1>1, <1>3, <1>5, <1>7, <1>8, <1>9 DEF d
<1>11. ASSUME NEW i \in 1..(n + 1)
       PROVE  r[i] = IF i <= k THEN out[i] ELSE IF i = k + 1 THEN p ELSE out[i - 1]
  <2>1. CASE i <= k + 1
    <3>1. i \in 1..(k + 1) /\ (~(i <= k) => i = k + 1)
      BY <1>1, <1>3, <2>1
    <3>2. r[i] = IF i <= k THEN out[i] ELSE p
      BY <1>8, <1>9, <1>10, <3>1 DEF d
    <3>3. QED
      BY <3>1, <3>2
  <2>2. CASE ~(i <= k + 1)
    <3> DEFINE j == i - (k + 1)
    <3>1. j \in 1..(n - k) /\ i = (k + 1) + j /\ k + j = i - 1 /\ ~(i <= k) /\ i # k + 1
      BY <1>1, <1>3, <2>2
    <3> HIDE DEF j
    <3>2. r[(k + 1) + j] = b[j] /\ b[j] = out[k + j]
      BY <1>7, <1>9, <1>10, <3>1
    <3>3. QED
      BY <3>1, <3>2
  <2>3. QED
    BY <2>1, <2>2
<1>12. QED
  BY <1>3, <1>4, <1>10, <1>11 DEF k, r

LEMMA DedupShape ==
  ASSUME NEW out \in Seq(Clamped), NEW p \in Clamped
  PROVE  dedupPoint(out, p) \in Seq(Clamped)
<1>1. CASE out # <<>> /\ Last(out).temp = p.temp
  <2> DEFINE n == Len(out)
             q == [out[n] EXCEPT !.boost = IF p.boost > @ THEN p.boost ELSE @]
  <2>1. n \in 1..n /\ n \in Nat /\ out[n] \in Clamped
    BY <1>1
  <2>2. q \in Clamped
    BY <2>1 DEF Clamped
  <2>3. dedupPoint(out, p) = [out EXCEPT ![n] = q]
    BY <1>1 DEF dedupPoint
  <2>4. n \in 1..Len(out)
    BY <2>1
  <2> HIDE DEF q, n
  <2>5. QED
    BY <2>2, <2>3, <2>4, ExceptSeq
<1>2. CASE ~(out # <<>> /\ Last(out).temp = p.temp)
  BY <1>2 DEF dedupPoint
<1>3. QED
  BY <1>1, <1>2

LEMMA InsertRuns ==
  ASSUME NEW s \in Seq(Clamped)
  PROVE  \E h : InsertRun(s, h) /\ FoldLeft(insertByTemp, <<>>, s) = h[Len(s)]
<1> DEFINE n == Len(s)
           X == Seq(Clamped)
           e == [x \in X \X (1..n) |-> insertByTemp(x[1], s[x[2]])]
           Eq(g) == g = [S \in SUBSET DOMAIN s |->
                           IF S = {} THEN <<>> ELSE insertByTemp(g[S \ {Max(S)}], s[Max(S)])]
           iter == CHOOSE g : Eq(g)
<1>1. n \in Nat /\ DOMAIN s = 1..n /\ <<>> \in X /\ \A i \in 1..n : s[i] \in Clamped
  OBVIOUS
<1>2. \A out \in X, i \in 1..n : e[<<out, i>>] = insertByTemp(out, s[i]) /\ insertByTemp(out, s[i]) \in X
  BY <1>1, InsertShape
<1>3. e \in [X \X (1..n) -> X]
  BY <1>2
<1> HIDE DEF e, X
<1>4. PICK g : Folding(X, <<>>, n, e, g)
  BY <1>1, <1>3, FoldExists
<1>5. ASSUME NEW S \in SUBSET (1..n)
      PROVE  g[S] = IF S = {} THEN <<>> ELSE insertByTemp(g[S \ {Max(S)}], s[Max(S)])
  <2>1. CASE S = {}
    BY <1>4, <2>1 DEF Folding
  <2>2. CASE S # {}
    <3>1. Max(S) \in 1..n
      <4>1. S \in SUBSET (0..n)
        BY <1>1
      <4>2. QED
        BY <1>1, <2>2, <4>1, MaxOfNats
    <3>2. g[S \ {Max(S)}] \in X
      BY <1>4 DEF Folding
    <3>3. g[S] = e[<<g[S \ {Max(S)}], Max(S)>>]
      BY <1>4, <2>2 DEF Folding
    <3>4. QED
      BY <1>2, <2>2, <3>1, <3>2, <3>3
  <2>3. QED
    BY <2>1, <2>2
<1>6. Eq(g)
  <2>1. g = [S \in SUBSET (1..n) |-> g[S]]
    BY <1>4 DEF Folding
  <2>2. QED
    BY <1>1, <1>5, <2>1
<1>7. Eq(iter)
  BY <1>6
<1>8. FoldLeft(insertByTemp, <<>>, s) = iter[DOMAIN s]
  BY DEF FoldLeft, MapThenFoldSet
<1> HIDE DEF iter
<1>9. \A S \in SUBSET (1..n) :
        iter[S] = IF S = {} THEN <<>> ELSE insertByTemp(iter[S \ {Max(S)}], s[Max(S)])
  BY <1>1, <1>7
<1> DEFINE h == [i \in 0..n |-> iter[1..i]]
<1>10. h[0] = <<>>
  <2>1. 1..0 = {} /\ {} \in SUBSET (1..n) /\ 0 \in 0..n
    BY <1>1
  <2>2. QED
    BY <1>9, <2>1
<1>11. ASSUME NEW i \in 1..n PROVE h[i] = insertByTemp(h[i - 1], s[i])
  <2>1. i \in Nat \ {0} /\ i \in 0..n /\ i - 1 \in 0..n
    BY <1>1
  <2>2. 1..i \in SUBSET (1..n)
    BY <1>1
  <2>3. 1..i # {} /\ Max(1..i) = i /\ (1..i) \ {i} = 1..(i - 1)
    BY <2>1, FirstOnes
  <2>4. iter[1..i] = insertByTemp(iter[(1..i) \ {Max(1..i)}], s[Max(1..i)])
    BY <1>9, <2>2, <2>3
  <2>5. QED
    BY <2>1, <2>3, <2>4
<1>12. h[n] = iter[DOMAIN s]
  BY <1>1
<1>13. QED
  BY <1>8, <1>10, <1>11, <1>12 DEF InsertRun

LEMMA DedupRuns ==
  ASSUME NEW s \in Seq(Clamped)
  PROVE  \E h : DedupRun(s, h) /\ FoldLeft(dedupPoint, <<>>, s) = h[Len(s)]
<1> DEFINE n == Len(s)
           X == Seq(Clamped)
           e == [x \in X \X (1..n) |-> dedupPoint(x[1], s[x[2]])]
           Eq(g) == g = [S \in SUBSET DOMAIN s |->
                           IF S = {} THEN <<>> ELSE dedupPoint(g[S \ {Max(S)}], s[Max(S)])]
           iter == CHOOSE g : Eq(g)
<1>1. n \in Nat /\ DOMAIN s = 1..n /\ <<>> \in X /\ \A i \in 1..n : s[i] \in Clamped
  OBVIOUS
<1>2. \A out \in X, i \in 1..n : e[<<out, i>>] = dedupPoint(out, s[i]) /\ dedupPoint(out, s[i]) \in X
  BY <1>1, DedupShape
<1>3. e \in [X \X (1..n) -> X]
  BY <1>2
<1> HIDE DEF e, X
<1>4. PICK g : Folding(X, <<>>, n, e, g)
  BY <1>1, <1>3, FoldExists
<1>5. ASSUME NEW S \in SUBSET (1..n)
      PROVE  g[S] = IF S = {} THEN <<>> ELSE dedupPoint(g[S \ {Max(S)}], s[Max(S)])
  <2>1. CASE S = {}
    BY <1>4, <2>1 DEF Folding
  <2>2. CASE S # {}
    <3>1. Max(S) \in 1..n
      <4>1. S \in SUBSET (0..n)
        BY <1>1
      <4>2. QED
        BY <1>1, <2>2, <4>1, MaxOfNats
    <3>2. g[S \ {Max(S)}] \in X
      BY <1>4 DEF Folding
    <3>3. g[S] = e[<<g[S \ {Max(S)}], Max(S)>>]
      BY <1>4, <2>2 DEF Folding
    <3>4. QED
      BY <1>2, <2>2, <3>1, <3>2, <3>3
  <2>3. QED
    BY <2>1, <2>2
<1>6. Eq(g)
  <2>1. g = [S \in SUBSET (1..n) |-> g[S]]
    BY <1>4 DEF Folding
  <2>2. QED
    BY <1>1, <1>5, <2>1
<1>7. Eq(iter)
  BY <1>6
<1>8. FoldLeft(dedupPoint, <<>>, s) = iter[DOMAIN s]
  BY DEF FoldLeft, MapThenFoldSet
<1> HIDE DEF iter
<1>9. \A S \in SUBSET (1..n) :
        iter[S] = IF S = {} THEN <<>> ELSE dedupPoint(iter[S \ {Max(S)}], s[Max(S)])
  BY <1>1, <1>7
<1> DEFINE h == [i \in 0..n |-> iter[1..i]]
<1>10. h[0] = <<>>
  <2>1. 1..0 = {} /\ {} \in SUBSET (1..n) /\ 0 \in 0..n
    BY <1>1
  <2>2. QED
    BY <1>9, <2>1
<1>11. ASSUME NEW i \in 1..n PROVE h[i] = dedupPoint(h[i - 1], s[i])
  <2>1. i \in Nat \ {0} /\ i \in 0..n /\ i - 1 \in 0..n
    BY <1>1
  <2>2. 1..i \in SUBSET (1..n)
    BY <1>1
  <2>3. 1..i # {} /\ Max(1..i) = i /\ (1..i) \ {i} = 1..(i - 1)
    BY <2>1, FirstOnes
  <2>4. iter[1..i] = dedupPoint(iter[(1..i) \ {Max(1..i)}], s[Max(1..i)])
    BY <1>9, <2>2, <2>3
  <2>5. QED
    BY <2>1, <2>3, <2>4
<1>12. h[n] = iter[DOMAIN s]
  BY <1>1
<1>13. QED
  BY <1>8, <1>10, <1>11, <1>12 DEF DedupRun

NonFalling(s) == \A i, j \in 1..Len(s) : i <= j => s[i].temp <= s[j].temp
RisingTemps(s) == \A i, j \in 1..Len(s) : i < j => s[i].temp < s[j].temp

\* What the sort has made of the first i points of s, and what of a side that is
\* sorted already.
Sorted(s, i, out) ==
  /\ out \in Seq(Clamped) /\ Len(out) = i
  /\ NonFalling(out)
  /\ \A k \in 1..i : \E j \in 1..i : out[k] = s[j]
  /\ \A j \in 1..i : \E k \in 1..i : out[k] = s[j]
  /\ RisingTemps(s) => \A k \in 1..i : out[k] = s[k]

LEMMA SortStep ==
  ASSUME NEW s \in Seq(Clamped), NEW i \in 1..Len(s), NEW out, Sorted(s, i - 1, out)
  PROVE  Sorted(s, i, insertByTemp(out, s[i]))
<1> DEFINE p == s[i]
           r == insertByTemp(out, p)
           k == Place(out, p)
           n == i - 1
<1>1. /\ i \in Nat /\ n \in Nat /\ n + 1 = i /\ p \in Clamped /\ out \in Seq(Clamped) /\ Len(out) = n
      /\ \A j \in 1..n : out[j] \in Clamped
  BY DEF Sorted
<1>2. /\ k \in 0..n /\ (\A j \in 1..n : out[j].temp <= p.temp => j <= k)
      /\ (k # 0 => out[k].temp <= p.temp)
      /\ r \in Seq(Clamped) /\ Len(r) = i
      /\ \A j \in 1..i : r[j] = IF j <= k THEN out[j] ELSE IF j = k + 1 THEN p ELSE out[j - 1]
  <2>1. /\ k \in 0..Len(out) /\ (\A j \in 1..Len(out) : out[j].temp <= p.temp => j <= k)
        /\ (k # 0 => out[k].temp <= p.temp)
        /\ r \in Seq(Clamped) /\ Len(r) = Len(out) + 1
        /\ \A j \in 1..(Len(out) + 1) : r[j] = IF j <= k THEN out[j] ELSE IF j = k + 1 THEN p ELSE out[j - 1]
    BY <1>1, InsertShape
  <2> HIDE DEF p, r, k, n
  <2>2. QED
    BY <1>1, <2>1
<1>3. p.temp \in Int /\ \A j \in 1..n : out[j].temp \in Int
  BY <1>1, ClampedFields
<1>4. /\ NonFalling(out)
      /\ \A x \in 1..n : \E j \in 1..n : out[x] = s[j]
      /\ \A j \in 1..n : \E x \in 1..n : out[x] = s[j]
      /\ RisingTemps(s) => \A x \in 1..n : out[x] = s[x]
  BY DEF Sorted
<1>5. \A a, b \in 1..n : a <= b => out[a].temp <= out[b].temp
  BY <1>1, <1>4 DEF NonFalling
<1>6. k + 1 \in 1..i /\ r[k + 1] = p
  BY <1>1, <1>2
<1> HIDE DEF p, r, k, n
<1>7. \A j \in 1..n : p.temp < out[j].temp \/ j <= k
  BY <1>2, <1>3
<1>8. ASSUME NEW a \in 1..i, NEW b \in 1..i, a <= b PROVE r[a].temp <= r[b].temp
  <2>1. CASE b <= k
    <3>1. a \in 1..n /\ b \in 1..n /\ r[a] = out[a] /\ r[b] = out[b]
      BY <1>1, <1>2, <1>8, <2>1
    <3>2. QED
      BY <1>5, <1>8, <3>1
  <2>2. CASE b = k + 1
    <3>1. CASE a = k + 1
      BY <1>3, <1>6, <2>2, <3>1
    <3>2. CASE a # k + 1
      <4>1. a \in 1..n /\ k \in 1..n /\ a <= k /\ r[a] = out[a]
        BY <1>1, <1>2, <1>8, <2>2, <3>2
      <4>2. out[a].temp <= out[k].temp /\ out[k].temp <= p.temp
        BY <1>2, <1>5, <4>1
      <4>3. QED
        BY <1>3, <1>6, <2>2, <4>1, <4>2
    <3>3. QED
      BY <3>1, <3>2
  <2>3. CASE b > k + 1
    <3>1. b - 1 \in 1..n /\ ~(b - 1 <= k) /\ r[b] = out[b - 1]
      BY <1>1, <1>2, <2>3
    <3>2. p.temp < out[b - 1].temp
      BY <1>7, <3>1
    <3>3. CASE a <= k
      <4>1. a \in 1..n /\ k \in 1..n /\ r[a] = out[a] /\ a <= b - 1
        BY <1>1, <1>2, <2>3, <3>3
      <4>2. QED
        BY <1>5, <3>1, <4>1
    <3>4. CASE a = k + 1
      BY <1>3, <1>6, <3>1, <3>2, <3>4
    <3>5. CASE a > k + 1
      <4>1. a - 1 \in 1..n /\ r[a] = out[a - 1] /\ a - 1 <= b - 1
        BY <1>1, <1>2, <1>8, <3>5
      <4>2. QED
        BY <1>5, <3>1, <4>1
    <3>6. QED
      BY <1>2, <3>3, <3>4, <3>5
  <2>4. QED
    BY <1>1, <1>2, <2>1, <2>2, <2>3
<1>9. NonFalling(r)
  BY <1>2, <1>8 DEF NonFalling
<1>10. ASSUME NEW x \in 1..i PROVE \E j \in 1..i : r[x] = s[j]
  <2>1. CASE x <= k
    <3>1. x \in 1..n /\ r[x] = out[x]
      BY <1>1, <1>2, <2>1
    <3>2. PICK j \in 1..n : r[x] = s[j]
      BY <1>4, <3>1
    <3>3. QED
      BY <1>1, <3>2
  <2>2. CASE x = k + 1
    BY <1>6, <2>2 DEF p
  <2>3. CASE x > k + 1
    <3>1. x - 1 \in 1..n /\ r[x] = out[x - 1]
      BY <1>1, <1>2, <2>3
    <3>2. PICK j \in 1..n : r[x] = s[j]
      BY <1>4, <3>1
    <3>3. QED
      BY <1>1, <3>2
  <2>4. QED
    BY <1>2, <2>1, <2>2, <2>3
<1>11. ASSUME NEW j \in 1..i PROVE \E x \in 1..i : r[x] = s[j]
  <2>1. CASE j = i
    BY <1>6, <2>1 DEF p
  <2>2. CASE j # i
    <3>1. j \in 1..n
      BY <1>1, <2>2
    <3>2. PICK x \in 1..n : out[x] = s[j]
      BY <1>4, <3>1
    <3>3. CASE x <= k
      <4>1. x \in 1..i
        BY <1>1
      <4>2. r[x] = out[x]
        BY <1>2, <3>3, <4>1
      <4>3. QED
        BY <3>2, <4>1, <4>2
    <3>4. CASE ~(x <= k)
      <4>1. x + 1 \in 1..i /\ ~(x + 1 <= k) /\ x + 1 # k + 1 /\ (x + 1) - 1 = x
        BY <1>1, <1>2, <3>4
      <4>2. r[x + 1] = out[x]
        BY <1>2, <4>1
      <4>3. QED
        BY <3>2, <4>1, <4>2
    <3>5. QED
      BY <3>3, <3>4
  <2>3. QED
    BY <2>1, <2>2
<1>12. ASSUME RisingTemps(s), NEW x \in 1..i PROVE r[x] = s[x]
  <2>1. k = n
    <3>1. CASE n = 0
      BY <1>2, <3>1
    <3>2. CASE n # 0
      <4>1. n \in 1..n /\ n \in 1..Len(s) /\ i \in 1..Len(s) /\ n < i
        BY <1>1, <3>2
      <4>2. out[n] = s[n] /\ s[n].temp < s[i].temp
        BY <1>4, <1>12, <4>1 DEF RisingTemps
      <4>3. out[n].temp <= p.temp
        BY <1>3, <4>1, <4>2 DEF p
      <4>4. QED
        BY <1>1, <1>2, <4>1, <4>3
    <3>3. QED
      BY <3>1, <3>2
  <2>2. CASE x = i
    BY <1>1, <1>6, <2>1, <2>2 DEF p
  <2>3. CASE x # i
    <3>1. x \in 1..n /\ x <= k
      BY <1>1, <2>1, <2>3
    <3>2. QED
      BY <1>2, <1>4, <1>12, <3>1
  <2>4. QED
    BY <2>2, <2>3
<1>13. QED
  BY <1>2, <1>9, <1>10, <1>11, <1>12 DEF Sorted, p, r

\* The loop of insertions sorts.
LEMMA SortOK ==
  ASSUME NEW s \in Seq(Clamped)
  PROVE  Sorted(s, Len(s), FoldLeft(insertByTemp, <<>>, s))
<1> DEFINE n == Len(s)
<1>1. PICK h : InsertRun(s, h) /\ FoldLeft(insertByTemp, <<>>, s) = h[n]
  BY InsertRuns
<1> DEFINE Q(i) == Sorted(s, i, h[i])
           T == {i \in 0..n : ~Q(i)}
<1>2. n \in Nat
  OBVIOUS
<1>3. Q(0)
  <2>1. <<>> \in Seq(Clamped) /\ Len(<<>>) = 0 /\ 1..0 = {}
    OBVIOUS
  <2>2. NonFalling(<<>>)
    BY <2>1 DEF NonFalling
  <2>3. QED
    BY <1>1, <2>1, <2>2 DEF Sorted, InsertRun
<1>4. SUFFICES ASSUME T # {} PROVE FALSE
  <2>1. n \in 0..n
    BY <1>2
  <2>2. QED
    BY <1>1, <2>1
<1>5. PICK i \in T : \A y \in T : i <= y
  <2>1. T \in SUBSET Nat
    OBVIOUS
  <2> HIDE DEF T
  <2>2. QED
    BY <1>4, <2>1, LeastNat
<1> HIDE DEF Q
<1>6. i # 0
  BY <1>3, <1>5
<1>7. i \in 1..n /\ i - 1 \in 0..n /\ ~(i <= i - 1)
  BY <1>2, <1>5, <1>6
<1>8. Q(i - 1)
  BY <1>5, <1>7
<1>9. h[i] = insertByTemp(h[i - 1], s[i])
  BY <1>1, <1>7 DEF InsertRun
<1>10. Q(i)
  BY <1>7, <1>8, <1>9, SortStep DEF Q
<1>11. QED
  BY <1>5, <1>10

\* What the dedup loop has made of the first i points of a sorted side s.
Deduped(s, i, out) ==
  /\ out \in Seq(Clamped) /\ Len(out) <= i
  /\ i > 0 => Len(out) > 0 /\ out[Len(out)].temp = s[i].temp
  /\ RisingTemps(out)
  /\ \A k \in 1..Len(out) : \E j \in 1..i : out[k] = s[j]
  /\ \A j \in 1..i : \E k \in 1..Len(out) : out[k].temp = s[j].temp /\ s[j].boost <= out[k].boost
  /\ RisingTemps(s) => Len(out) = i /\ \A k \in 1..i : out[k] = s[k]

LEMMA DedupStep ==
  ASSUME NEW s \in Seq(Clamped), NonFalling(s), NEW i \in 1..Len(s), NEW out, Deduped(s, i - 1, out)
  PROVE  Deduped(s, i, dedupPoint(out, s[i]))
<1> DEFINE p == s[i]
           r == dedupPoint(out, p)
           L == Len(out)
           n == i - 1
<1>1. /\ i \in Nat /\ n \in Nat /\ n + 1 = i /\ p \in Clamped /\ out \in Seq(Clamped) /\ L \in Nat /\ L <= n
      /\ \A j \in 1..L : out[j] \in Clamped
  <2>1. out \in Seq(Clamped) /\ L <= n
    BY DEF Deduped
  <2>2. L \in Nat /\ \A j \in 1..L : out[j] \in Clamped
    BY <2>1
  <2>3. i \in Nat /\ n \in Nat /\ n + 1 = i /\ p \in Clamped
    OBVIOUS
  <2>4. QED
    BY <2>1, <2>2, <2>3
<1>2. /\ p.temp \in Int /\ p.boost \in Int
      /\ \A j \in 1..L : out[j].temp \in Int /\ out[j].boost \in Int
      /\ \A j \in 1..Len(s) : s[j].temp \in Int /\ s[j].boost \in Int
  BY <1>1, ClampedFields
<1>3. /\ n > 0 => L > 0 /\ out[L].temp = s[n].temp
      /\ \A k \in 1..L : \E j \in 1..n : out[k] = s[j]
      /\ \A j \in 1..n : \E k \in 1..L : out[k].temp = s[j].temp /\ s[j].boost <= out[k].boost
      /\ RisingTemps(s) => L = n /\ \A k \in 1..n : out[k] = s[k]
  <2>1. n > 0 => L > 0 /\ out[L].temp = s[n].temp
    BY DEF Deduped
  <2>2. \A k \in 1..L : \E j \in 1..n : out[k] = s[j]
    BY DEF Deduped
  <2>3. \A j \in 1..n : \E k \in 1..L : out[k].temp = s[j].temp /\ s[j].boost <= out[k].boost
    BY DEF Deduped
  <2>4. RisingTemps(s) => L = n /\ \A k \in 1..n : out[k] = s[k]
    BY DEF Deduped
  <2>5. QED
    BY <2>1, <2>2, <2>3, <2>4
<1>4. \A a, b \in 1..L : a < b => out[a].temp < out[b].temp
  BY DEF Deduped, RisingTemps
<1>5. \A j \in 1..n : j \in 1..i
  BY <1>1
<1>6. n > 0 => n \in 1..Len(s) /\ i \in 1..Len(s) /\ n <= i /\ n < i
  BY <1>1
<1>7. CASE out # <<>> /\ out[L].temp = p.temp
  <2> DEFINE q == [out[L] EXCEPT !.boost = IF p.boost > @ THEN p.boost ELSE @]
  <2>1. L \in 1..L /\ n > 0
    BY <1>1, <1>7
  <2>2. q \in Clamped /\ q.temp = p.temp /\ (q = p \/ q = out[L]) /\ p.boost <= q.boost /\ out[L].boost <= q.boost
    <3>1. out[L] \in Clamped /\ out[L].boost \in Int
      BY <1>1, <1>2, <2>1
    <3> DEFINE o == out[L]
    <3>2. o \in Clamped /\ o.temp = p.temp /\ o.boost \in Int /\ q = [o EXCEPT !.boost = IF p.boost > o.boost THEN p.boost ELSE o.boost]
      BY <1>7, <3>1
    <3> HIDE DEF o, q
    <3>3. CASE p.boost > o.boost
      <4>1. q = [o EXCEPT !.boost = p.boost]
        BY <3>2, <3>3
      <4>2. q = p
        BY <1>1, <3>2, <4>1 DEF Clamped
      <4>3. p \in Clamped /\ p.boost \in Int /\ o.boost <= p.boost /\ p.boost <= p.boost
        BY <1>1, <1>2, <3>2, <3>3
      <4>4. QED
        BY <4>2, <4>3 DEF o
    <3>4. CASE ~(p.boost > o.boost)
      <4>1. q = [o EXCEPT !.boost = o.boost]
        BY <3>2, <3>4
      <4>2. q = o
        BY <3>2, <4>1 DEF Clamped
      <4>3. QED
        BY <1>2, <3>2, <3>4, <4>2 DEF o
    <3>5. QED
      BY <3>3, <3>4
  <2>3. r = [out EXCEPT ![L] = q]
    BY <1>7 DEF dedupPoint, Last
  <2> HIDE DEF q, r, p
  <2>4. r \in Seq(Clamped) /\ Len(r) = L /\ \A k \in 1..L : r[k] = IF k = L THEN q ELSE out[k]
    <3>1. L \in 1..Len(out)
      BY <2>1
    <3> HIDE DEF L
    <3>2. QED
      BY <1>1, <2>2, <2>3, <3>1, ExceptSeq DEF L
  <2> HIDE DEF L, n
  <2>5. \A k \in 1..L : r[k].temp = out[k].temp /\ out[k].boost <= r[k].boost
    BY <1>2, <1>7, <2>2, <2>4
  <2>6. r[L].temp = p.temp /\ p.boost <= r[L].boost
    BY <2>1, <2>2, <2>4
  <2>7. RisingTemps(r)
    <3>1. \A a, b \in 1..L : a < b => r[a].temp < r[b].temp
      BY <1>4, <2>5
    <3>2. QED
      BY <2>4, <3>1 DEF RisingTemps
  <2>8. ASSUME NEW k \in 1..L PROVE \E j \in 1..i : r[k] = s[j]
    <3>1. CASE r[k] = p
      BY <1>1, <3>1 DEF p
    <3>2. CASE r[k] = out[k]
      <4>1. PICK j \in 1..n : out[k] = s[j]
        BY <1>3
      <4>2. QED
        BY <1>5, <3>2, <4>1
    <3>3. QED
      BY <2>2, <2>4, <3>1, <3>2
  <2>9. ASSUME NEW j \in 1..i PROVE \E k \in 1..L : r[k].temp = s[j].temp /\ s[j].boost <= r[k].boost
    <3>1. CASE j = i
      BY <2>1, <2>6, <3>1 DEF p
    <3>2. CASE j # i
      <4>1. j \in 1..n /\ j \in 1..Len(s)
        BY <1>1, <3>2
      <4>2. PICK k \in 1..L : out[k].temp = s[j].temp /\ s[j].boost <= out[k].boost
        BY <1>3, <4>1
      <4>3. r[k].temp = s[j].temp
        BY <2>5, <4>2
      <4>4. r[k].boost \in Int
        <5>1. r[k] \in Clamped
          BY <2>4
        <5>2. QED
          BY <5>1, ClampedFields
      <4>5. s[j].boost \in Int /\ out[k].boost \in Int
        BY <1>2, <4>1
      <4>6. s[j].boost <= r[k].boost
        BY <2>5, <4>2, <4>4, <4>5
      <4>7. QED
        BY <4>3, <4>6
    <3>3. QED
      BY <3>1, <3>2
  <2>10. ~RisingTemps(s)
    <3>1. n \in 1..Len(s) /\ n < i /\ s[n].temp = s[i].temp
      BY <1>3, <1>6, <1>7, <2>1 DEF p
    <3>2. s[n].temp \in Int /\ s[i].temp \in Int
      BY <1>2, <3>1
    <3>3. QED
      BY <3>1, <3>2 DEF RisingTemps
  <2>11. i > 0 /\ L > 0 /\ L <= i
    BY <1>1, <2>1
  <2>12. QED
    BY <2>4, <2>6, <2>7, <2>8, <2>9, <2>10, <2>11 DEF Deduped, r, p
<1>8. CASE ~(out # <<>> /\ out[L].temp = p.temp)
  <2>1. r = Append(out, p)
    BY <1>8 DEF dedupPoint, Last
  <2> HIDE DEF r, p
  <2>2. r \in Seq(Clamped) /\ Len(r) = L + 1 /\ (\A k \in 1..L : r[k] = out[k]) /\ r[L + 1] = p
    BY <1>1, <2>1, AppendProperties
  <2>3. L > 0 => n > 0 /\ L \in 1..L /\ out[L].temp < p.temp
    <3> SUFFICES ASSUME L > 0 PROVE n > 0 /\ L \in 1..L /\ out[L].temp < p.temp
      OBVIOUS
    <3>1. n > 0 /\ L \in 1..L /\ out # <<>>
      BY <1>1
    <3>2. out[L].temp = s[n].temp /\ s[n].temp <= p.temp /\ out[L].temp # p.temp
      BY <1>3, <1>6, <1>8, <3>1 DEF NonFalling, p
    <3>3. out[L].temp \in Int
      BY <1>2, <3>1
    <3>4. QED
      BY <1>2, <3>1, <3>2, <3>3
  <2> HIDE DEF L, n
  <2>4. \A k \in 1..L : out[k].temp < p.temp
    <3>1. ASSUME NEW k \in 1..L, k # L PROVE out[k].temp < p.temp
      <4>1. L > 0 /\ L \in 1..L /\ k < L
        BY <1>1, <3>1
      <4>2. out[k].temp < out[L].temp /\ out[L].temp < p.temp
        BY <1>4, <2>3, <4>1
      <4>3. QED
        BY <1>2, <4>1, <4>2
    <3>2. L \in 1..L => out[L].temp < p.temp
      BY <1>1, <2>3
    <3>3. QED
      BY <3>1, <3>2
  <2>5. RisingTemps(r)
    <3>1. ASSUME NEW a \in 1..(L + 1), NEW b \in 1..(L + 1), a < b PROVE r[a].temp < r[b].temp
      <4>1. a \in 1..L /\ (b \in 1..L \/ b = L + 1)
        BY <1>1, <3>1
      <4>2. QED
        BY <1>4, <2>2, <2>4, <3>1, <4>1
    <3>2. QED
      BY <2>2, <3>1 DEF RisingTemps
  <2>6. ASSUME NEW k \in 1..(L + 1) PROVE \E j \in 1..i : r[k] = s[j]
    <3>1. CASE k = L + 1
      BY <1>1, <2>2, <3>1 DEF p
    <3>2. CASE k # L + 1
      <4>1. k \in 1..L
        BY <1>1, <3>2
      <4>2. PICK j \in 1..n : out[k] = s[j]
        BY <1>3, <4>1
      <4>3. QED
        BY <1>5, <2>2, <4>1, <4>2
    <3>3. QED
      BY <3>1, <3>2
  <2>7. ASSUME NEW j \in 1..i
        PROVE  \E k \in 1..(L + 1) : r[k].temp = s[j].temp /\ s[j].boost <= r[k].boost
    <3>1. CASE j = i
      <4>1. L + 1 \in 1..(L + 1) /\ r[L + 1] = s[j] /\ s[j].boost \in Int
        BY <1>1, <1>2, <2>2, <3>1 DEF p
      <4>2. QED
        BY <4>1
    <3>2. CASE j # i
      <4>1. j \in 1..n
        BY <1>1, <3>2
      <4>2. PICK k \in 1..L : out[k].temp = s[j].temp /\ s[j].boost <= out[k].boost
        BY <1>3, <4>1
      <4>3. k \in 1..(L + 1) /\ r[k] = out[k]
        BY <1>1, <2>2
      <4>4. QED
        BY <4>2, <4>3
    <3>3. QED
      BY <3>1, <3>2
  <2>8. RisingTemps(s) => L + 1 = i /\ \A k \in 1..i : r[k] = s[k]
    <3>1. ASSUME RisingTemps(s), NEW k \in 1..i PROVE r[k] = s[k]
      <4>1. L = n
        BY <1>3, <3>1
      <4>2. CASE k = i
        BY <1>1, <2>2, <4>1, <4>2 DEF p
      <4>3. CASE k # i
        <5>1. k \in 1..n /\ k \in 1..L
          BY <1>1, <4>1, <4>3
        <5>2. QED
          BY <1>3, <2>2, <3>1, <5>1
      <4>4. QED
        BY <4>2, <4>3
    <3>2. RisingTemps(s) => L + 1 = i
      BY <1>1, <1>3
    <3>3. QED
      BY <3>1, <3>2
  <2>9. L + 1 > 0 /\ L + 1 <= i
    BY <1>1
  <2>10. QED
    BY <2>2, <2>5, <2>6, <2>7, <2>8, <2>9 DEF Deduped, r, p
<1>9. QED
  BY <1>7, <1>8

LEMMA DedupOK ==
  ASSUME NEW s \in Seq(Clamped), NonFalling(s)
  PROVE  Deduped(s, Len(s), FoldLeft(dedupPoint, <<>>, s))
<1> DEFINE n == Len(s)
<1>1. PICK h : DedupRun(s, h) /\ FoldLeft(dedupPoint, <<>>, s) = h[n]
  BY DedupRuns
<1> DEFINE Q(i) == Deduped(s, i, h[i])
           T == {i \in 0..n : ~Q(i)}
<1>2. n \in Nat
  OBVIOUS
<1>3. Q(0)
  <2>1. <<>> \in Seq(Clamped) /\ Len(<<>>) = 0 /\ 1..0 = {} /\ ~(0 > 0) /\ 0 <= 0
    OBVIOUS
  <2>2. RisingTemps(<<>>)
    BY <2>1 DEF RisingTemps
  <2>3. h[0] = <<>>
    BY <1>1 DEF DedupRun
  <2>4. QED
    BY <2>1, <2>2, <2>3 DEF Deduped
<1>4. SUFFICES ASSUME T # {} PROVE FALSE
  <2>1. n \in 0..n
    BY <1>2
  <2>2. QED
    BY <1>1, <2>1
<1>5. PICK i \in T : \A y \in T : i <= y
  <2>1. T \in SUBSET Nat
    OBVIOUS
  <2> HIDE DEF T
  <2>2. QED
    BY <1>4, <2>1, LeastNat
<1> HIDE DEF Q
<1>6. i # 0
  BY <1>3, <1>5
<1>7. i \in 1..n /\ i - 1 \in 0..n /\ ~(i <= i - 1)
  BY <1>2, <1>5, <1>6
<1>8. Q(i - 1)
  BY <1>5, <1>7
<1>9. h[i] = dedupPoint(h[i - 1], s[i])
  BY <1>1, <1>7 DEF DedupRun
<1>10. Q(i)
  BY <1>7, <1>8, <1>9, DedupStep DEF Q
<1>11. QED
  BY <1>5, <1>10

\* A side with its points clamped, as normalizePoints begins.
ClampedSide(in) == [i \in DOMAIN in |-> Point(clampInt(in[i].temp, MinTemp, MaxTemp),
                                             clampInt(in[i].boost, MinBoost, MaxBoost))]

LEMMA ClampedSideOK ==
  ASSUME NEW in \in Seq([temp : Int, boost : Int])
  PROVE  /\ ClampedSide(in) \in Seq(Clamped) /\ Len(ClampedSide(in)) = Len(in)
         /\ \A i \in 1..Len(in) : /\ ClampedSide(in)[i].temp = clampInt(in[i].temp, MinTemp, MaxTemp)
                                  /\ ClampedSide(in)[i].boost = clampInt(in[i].boost, MinBoost, MaxBoost)
<1> DEFINE c == ClampedSide(in)
<1>1. \A i \in 1..Len(in) : in[i].temp \in Int /\ in[i].boost \in Int
  <2>1. \A q \in [temp : Int, boost : Int] : q.temp \in Int /\ q.boost \in Int
    OBVIOUS
  <2>2. \A i \in 1..Len(in) : in[i] \in [temp : Int, boost : Int]
    <3> DEFINE R == [temp : Int, boost : Int]
    <3>1. in \in Seq(R)
      OBVIOUS
    <3> HIDE DEF R
    <3>2. \A i \in 1..Len(in) : in[i] \in R
      BY <3>1
    <3>3. QED
      BY <3>2 DEF R
  <2>3. QED
    BY <2>1, <2>2
<1>2. \A x \in Int : clampInt(x, MinTemp, MaxTemp) \in MinTemp .. MaxTemp
  BY DEF clampInt, MinTemp, MaxTemp
<1>3. \A x \in Int : clampInt(x, MinBoost, MaxBoost) \in MinBoost .. MaxBoost
  BY DEF clampInt, MinBoost, MaxBoost
<1>4. DOMAIN in = 1..Len(in) /\ Len(in) \in Nat
  OBVIOUS
<1>5. \A i \in 1..Len(in) :
        c[i] = Point(clampInt(in[i].temp, MinTemp, MaxTemp), clampInt(in[i].boost, MinBoost, MaxBoost))
  BY <1>4 DEF ClampedSide
<1>6. \A x \in MinTemp .. MaxTemp, y \in MinBoost .. MaxBoost :
        Point(x, y) \in Clamped /\ Point(x, y).temp = x /\ Point(x, y).boost = y
  BY DEF Point, Clamped
<1>7. c = [i \in 1..Len(in) |-> c[i]]
  BY <1>4 DEF ClampedSide
<1> HIDE DEF c
<1>8. \A i \in 1..Len(in) : /\ c[i] \in Clamped
                            /\ c[i].temp = clampInt(in[i].temp, MinTemp, MaxTemp)
                            /\ c[i].boost = clampInt(in[i].boost, MinBoost, MaxBoost)
  <2> SUFFICES ASSUME NEW i \in 1..Len(in)
               PROVE  /\ c[i] \in Clamped
                      /\ c[i].temp = clampInt(in[i].temp, MinTemp, MaxTemp)
                      /\ c[i].boost = clampInt(in[i].boost, MinBoost, MaxBoost)
    OBVIOUS
  <2> DEFINE x == clampInt(in[i].temp, MinTemp, MaxTemp)
             y == clampInt(in[i].boost, MinBoost, MaxBoost)
  <2>1. x \in MinTemp .. MaxTemp /\ y \in MinBoost .. MaxBoost /\ c[i] = Point(x, y)
    BY <1>1, <1>2, <1>3, <1>5
  <2> HIDE DEF x, y
  <2>2. c[i] \in Clamped /\ c[i].temp = x /\ c[i].boost = y
    BY <1>6, <2>1
  <2>3. QED
    BY <2>2 DEF x, y
<1>9. c \in Seq(Clamped) /\ Len(c) = Len(in)
  BY <1>4, <1>7, <1>8
<1>10. QED
  BY <1>8, <1>9 DEF c

\* What normalizePoints returns for any side: rising temperatures, the loudest of the
\* clamped points at each, and a side that is in that form already as it is.
Normalized(c, out) ==
  /\ out \in Seq(Clamped) /\ Len(out) <= Len(c)
  /\ RisingTemps(out)
  /\ \A k \in 1..Len(out) : \E j \in 1..Len(c) : out[k] = c[j]
  /\ \A j \in 1..Len(c) : \E k \in 1..Len(out) : out[k].temp = c[j].temp /\ c[j].boost <= out[k].boost
  /\ RisingTemps(c) => out = c

LEMMA NormalizeOK ==
  ASSUME NEW in \in Seq([temp : Int, boost : Int])
  PROVE  Normalized(ClampedSide(in), normalizePoints(in))
<1> DEFINE c == ClampedSide(in)
           s == FoldLeft(insertByTemp, <<>>, c)
           r == FoldLeft(dedupPoint, <<>>, s)
           n == Len(c)
<1>1. c \in Seq(Clamped) /\ n \in Nat
  BY ClampedSideOK
<1>2. normalizePoints(in) = r
  BY DEF normalizePoints, ClampedSide
<1> HIDE DEF c, r, s
<1>3. Sorted(c, n, s)
  BY <1>1, SortOK DEF s
<1>4. /\ s \in Seq(Clamped) /\ Len(s) = n /\ NonFalling(s)
      /\ \A k \in 1..n : \E j \in 1..n : s[k] = c[j]
      /\ \A j \in 1..n : \E k \in 1..n : s[k] = c[j]
      /\ RisingTemps(c) => \A k \in 1..n : s[k] = c[k]
  BY <1>3 DEF Sorted
<1>5. Deduped(s, n, r)
  BY <1>4, DedupOK DEF r
<1>6. /\ r \in Seq(Clamped) /\ Len(r) <= n /\ RisingTemps(r)
      /\ \A k \in 1..Len(r) : \E j \in 1..n : r[k] = s[j]
      /\ \A j \in 1..n : \E k \in 1..Len(r) : r[k].temp = s[j].temp /\ s[j].boost <= r[k].boost
      /\ RisingTemps(s) => Len(r) = n /\ \A k \in 1..n : r[k] = s[k]
  BY <1>5 DEF Deduped
<1>7. \A k \in 1..Len(r) : \E j \in 1..n : r[k] = c[j]
  BY <1>4, <1>6
<1>8. ASSUME NEW j \in 1..n
      PROVE  \E k \in 1..Len(r) : r[k].temp = c[j].temp /\ c[j].boost <= r[k].boost
  <2>1. PICK i \in 1..n : s[i] = c[j]
    BY <1>4
  <2>2. PICK k \in 1..Len(r) : r[k].temp = s[i].temp /\ s[i].boost <= r[k].boost
    BY <1>6
  <2>3. QED
    BY <2>1, <2>2
<1>9. ASSUME RisingTemps(c) PROVE r = c
  <2>1. \A k \in 1..n : s[k] = c[k]
    BY <1>4, <1>9
  <2>2. RisingTemps(s)
    BY <1>4, <1>9, <2>1 DEF RisingTemps
  <2>3. Len(r) = n /\ \A k \in 1..n : r[k] = c[k]
    BY <1>6, <2>1, <2>2
  <2>4. QED
    BY <1>1, <1>6, <2>3, SeqEqual
<1>10. QED
  BY <1>2, <1>6, <1>7, <1>8, <1>9 DEF Normalized, c

LEMMA DefinedSide ==
  ASSUME sent \in Seq([temp : Int, boost : Int]), points = validateSide(sent)
  PROVE  SideIsByDefinition
<1> DEFINE c == ClampedSide(sent)
           n == Len(sent)
           out == normalizePoints(sent)
           L == Len(out)
           B(t) == {c[i].boost : i \in {j \in 1..n : c[j].temp = t}}
<1>1. /\ c \in Seq(Clamped) /\ Len(c) = n /\ n \in Nat /\ DOMAIN sent = 1..n
      /\ \A i \in 1..n : /\ c[i].temp = clampInt(sent[i].temp, MinTemp, MaxTemp)
                         /\ c[i].boost = clampInt(sent[i].boost, MinBoost, MaxBoost)
  BY ClampedSideOK
<1>2. Normalized(c, out)
  BY NormalizeOK
<1>3. validateSide(sent) = IF n > MaxPoints THEN Invalid ELSE IF L < MinPoints THEN Invalid ELSE out
  BY DEF validateSide
<1> HIDE DEF c, out
<1>4. ClampedTemps = {c[i].temp : i \in 1..n}
  BY <1>1 DEF ClampedTemps
<1>5. \A t : Loudest(t) = Max(B(t))
  <2> TAKE t
  <2>1. {clampInt(sent[i].boost, MinBoost, MaxBoost) :
           i \in {j \in DOMAIN sent : clampInt(sent[j].temp, MinTemp, MaxTemp) = t}} = B(t)
    BY <1>1
  <2>2. QED
    BY <2>1 DEF Loudest
<1>6. /\ out \in Seq(Clamped) /\ RisingTemps(out) /\ L \in Nat /\ DOMAIN out = 1..L
      /\ \A k \in 1..L : \E j \in 1..n : out[k] = c[j]
      /\ \A j \in 1..n : \E k \in 1..L : out[k].temp = c[j].temp /\ c[j].boost <= out[k].boost
      /\ \A k, m \in 1..L : k < m => out[k].temp < out[m].temp
  BY <1>1, <1>2 DEF Normalized, RisingTemps
<1>7. /\ \A k \in 1..L : out[k] \in Clamped /\ out[k].temp \in Int /\ out[k].boost \in Int
      /\ \A j \in 1..n : c[j] \in Clamped /\ c[j].temp \in Int /\ c[j].boost \in Int
  <2>1. \A s \in Seq(Clamped) : \A k \in 1..Len(s) : s[k] \in Clamped
    OBVIOUS
  <2>2. \A k \in 1..L : out[k] \in Clamped
    BY <1>6, <2>1
  <2> HIDE DEF n, L
  <2>3. \A j \in 1..n : c[j] \in Clamped
    BY <1>1, <2>1
  <2>4. QED
    BY <2>2, <2>3, ClampedFields
<1>8. \A k, m \in 1..L : out[k].temp = out[m].temp => k = m
  <2> SUFFICES ASSUME NEW k \in 1..L, NEW m \in 1..L, out[k].temp = out[m].temp, k # m PROVE FALSE
    OBVIOUS
  <2>1. out[k].temp \in Int /\ out[m].temp \in Int
    BY <1>7
  <2>2. CASE k < m
    <3>1. out[k].temp < out[m].temp
      BY <1>6, <2>2
    <3>2. QED
      BY <2>1, <3>1
  <2>3. CASE m < k
    <3>1. out[m].temp < out[k].temp
      BY <1>6, <2>3
    <3>2. QED
      BY <2>1, <3>1
  <2>4. QED
    BY <2>2, <2>3
<1>9. ASSUME NEW k \in 1..L
      PROVE  out[k].temp \in ClampedTemps /\ out[k] = Point(out[k].temp, Loudest(out[k].temp))
  <2>1. PICK j \in 1..n : out[k] = c[j]
    BY <1>6
  <2> DEFINE t == out[k].temp
             b == out[k].boost
  <2>2. b \in B(t) /\ t \in ClampedTemps
    BY <1>4, <2>1
  <2>3. ASSUME NEW y \in B(t) PROVE y \in Int /\ y <= b
    <3>1. PICK i \in 1..n : c[i].temp = t /\ y = c[i].boost
      OBVIOUS
    <3>2. PICK m \in 1..L : out[m].temp = c[i].temp /\ c[i].boost <= out[m].boost
      BY <1>6
    <3>3. m = k
      BY <1>8, <3>1, <3>2
    <3>4. QED
      BY <1>7, <3>1, <3>2, <3>3
  <2>4. Max(B(t)) = b
    <3>1. B(t) \in SUBSET Int /\ \A y \in B(t) : y <= b
      BY <2>3
    <3> HIDE DEF B, b, t
    <3>2. QED
      BY <2>2, <3>1, MaxIs
  <2>5. out[k] = Point(t, b)
    BY <1>7 DEF Point, Clamped
  <2>6. QED
    BY <1>5, <2>2, <2>4, <2>5
<1>10. ASSUME NEW t \in ClampedTemps PROVE \E k \in 1..L : out[k].temp = t
  <2>1. PICK j \in 1..n : c[j].temp = t
    BY <1>4
  <2>2. QED
    BY <1>6, <2>1
<1>11. {out[k] : k \in DOMAIN out} = {Point(t, Loudest(t)) : t \in ClampedTemps}
  <2>1. \A t \in ClampedTemps : \E k \in 1..L : Point(t, Loudest(t)) = out[k]
    BY <1>9, <1>10
  <2>2. \A k \in 1..L : \E t \in ClampedTemps : out[k] = Point(t, Loudest(t))
    BY <1>9
  <2> DEFINE A == {out[k] : k \in DOMAIN out}
             D == {Point(t, Loudest(t)) : t \in ClampedTemps}
  <2>3. A \subseteq D
    BY <1>6, <2>2
  <2>4. D \subseteq A
    <3> SUFFICES ASSUME NEW t \in ClampedTemps PROVE Point(t, Loudest(t)) \in A
      OBVIOUS
    <3>1. PICK k \in 1..L : Point(t, Loudest(t)) = out[k]
      BY <2>1
    <3>2. out[k] \in A
      BY <1>6
    <3>3. QED
      BY <3>1, <3>2
  <2>5. QED
    BY <2>3, <2>4
<1>12. Cardinality(ClampedTemps) = L
  <2> DEFINE f == [k \in 1..L |-> out[k].temp]
  <2>1. f \in [1..L -> ClampedTemps]
    BY <1>9
  <2>2. \A k, m \in 1..L : f[k] = f[m] => k = m
    BY <1>8
  <2>3. \A t \in ClampedTemps : \E k \in 1..L : f[k] = t
    BY <1>10
  <2> HIDE DEF f
  <2>4. f \in Bijection(1..L, ClampedTemps)
    BY <2>1, <2>2, <2>3 DEF Bijection, Injection, Surjection, IsInjective
  <2>5. ExistsBijection(1..L, ClampedTemps)
    BY <2>4 DEF ExistsBijection
  <2>6. IsFiniteSet(1..L) /\ Cardinality(1..L) = L
    <3>1. IsFiniteSet(1..L) /\ Cardinality(1..L) = IF 1 > L THEN 0 ELSE L - 1 + 1
      <4>1. L \in Int /\ 1 \in Int
        BY <1>6
      <4> HIDE DEF L
      <4>2. QED
        BY <4>1, FS_Interval
    <3>2. QED
      BY <1>6, <3>1
  <2>7. QED
    BY <2>5, <2>6, FS_Bijection
<1>13. \A i \in 1 .. L - 1 : out[i].temp < out[i + 1].temp
  <2> SUFFICES ASSUME NEW i \in 1..(L - 1) PROVE out[i].temp < out[i + 1].temp
    OBVIOUS
  <2>1. i \in 1..L /\ i + 1 \in 1..L /\ i < i + 1
    BY <1>6
  <2>2. QED
    BY <1>6, <2>1
<1>14. (n <= MaxPoints /\ L >= MinPoints) <=> ~(n > MaxPoints \/ L < MinPoints)
  BY <1>1, <1>6 DEF MaxPoints, MinPoints
<1> HIDE DEF L, n
<1>15. CASE n <= MaxPoints /\ L >= MinPoints
  <2>1. points = out
    BY <1>3, <1>14, <1>15
  <2>2. QED
    BY <1>11, <1>12, <1>13, <1>15, <2>1 DEF SideIsByDefinition, L, n
<1>16. CASE ~(n <= MaxPoints /\ L >= MinPoints)
  <2>1. points = Invalid
    BY <1>3, <1>14, <1>16
  <2>2. QED
    BY <1>12, <1>16, <2>1 DEF SideIsByDefinition, n
<1>17. QED
  BY <1>15, <1>16

LEMMA SamePoint ==
  ASSUME NEW A, NEW B, NEW p \in [temp : A, boost : B], NEW q \in [temp : A, boost : B],
         p.temp = q.temp, p.boost = q.boost
  PROVE  p = q
  OBVIOUS

\* A side that was accepted is accepted again as it is.
LEMMA AcceptedIsStable ==
  ASSUME sent \in Seq([temp : Int, boost : Int]), points = validateSide(sent), points # Invalid
  PROVE  /\ points \in Seq(Clamped) /\ RisingTemps(points) /\ validateSide(points) = points
<1> DEFINE out == normalizePoints(sent)
<1>1. /\ points = out /\ ~(Len(sent) > MaxPoints) /\ ~(Len(out) < MinPoints)
  BY DEF validateSide
<1>2. Normalized(ClampedSide(sent), out) /\ Len(ClampedSide(sent)) = Len(sent)
  BY NormalizeOK, ClampedSideOK
<1>3. points \in Seq(Clamped) /\ RisingTemps(points) /\ Len(points) <= Len(sent)
  BY <1>1, <1>2 DEF Normalized
<1>4. points \in Seq([temp : Int, boost : Int])
  <2>1. Clamped \subseteq [temp : Int, boost : Int]
    <3>1. MinTemp .. MaxTemp \subseteq Int /\ MinBoost .. MaxBoost \subseteq Int
      BY DEF MinTemp, MaxTemp, MinBoost, MaxBoost
    <3>2. QED
      BY <3>1 DEF Clamped
  <2> DEFINE R == [temp : Int, boost : Int]
  <2> HIDE DEF R
  <2>2. Clamped \subseteq R
    BY <2>1 DEF R
  <2>3. points \in Seq(R)
    BY <1>3, <2>2
  <2>4. QED
    BY <2>3 DEF R
<1> DEFINE c == ClampedSide(points)
<1>5. c \in Seq(Clamped) /\ Len(c) = Len(points)
      /\ \A i \in 1..Len(points) : /\ c[i].temp = clampInt(points[i].temp, MinTemp, MaxTemp)
                                   /\ c[i].boost = clampInt(points[i].boost, MinBoost, MaxBoost)
  BY <1>4, ClampedSideOK
<1> HIDE DEF c, out
<1>6. \A i \in 1..Len(points) : c[i] = points[i]
  <2> SUFFICES ASSUME NEW i \in 1..Len(points) PROVE c[i] = points[i]
    OBVIOUS
  <2>1. points[i] \in Clamped /\ c[i] \in Clamped
    BY <1>3, <1>5
  <2>2. points[i].temp \in 0..110 /\ points[i].boost \in 0..255
    BY <2>1, ClampedFields
  <2>3. c[i].temp = points[i].temp
    <3>1. \A x \in 0..110 : clampInt(x, 0, 110) = x
      BY DEF clampInt
    <3> DEFINE x == points[i].temp
    <3>2. c[i].temp = clampInt(x, MinTemp, MaxTemp) /\ x \in 0..110
      BY <1>5, <2>2
    <3> HIDE DEF x
    <3>3. c[i].temp = x
      BY <3>1, <3>2 DEF MinTemp, MaxTemp
    <3>4. QED
      BY <3>3 DEF x
  <2>4. c[i].boost = points[i].boost
    <3>1. \A x \in 0..255 : clampInt(x, 0, 255) = x
      BY DEF clampInt
    <3> DEFINE x == points[i].boost
    <3>2. c[i].boost = clampInt(x, MinBoost, MaxBoost) /\ x \in 0..255
      BY <1>5, <2>2
    <3> HIDE DEF x
    <3>3. c[i].boost = x
      BY <3>1, <3>2 DEF MinBoost, MaxBoost
    <3>4. QED
      BY <3>3 DEF x
  <2>5. QED
    BY <2>1, <2>3, <2>4, SamePoint DEF Clamped
<1>7. c = points
  BY <1>3, <1>5, <1>6, SeqEqual
<1>8. Normalized(c, normalizePoints(points))
  BY <1>4, NormalizeOK DEF c
<1>9. normalizePoints(points) = points
  BY <1>3, <1>7, <1>8 DEF Normalized
<1>10. ~(Len(points) > MaxPoints) /\ ~(Len(points) < MinPoints)
  <2>1. Len(points) \in Nat /\ Len(sent) \in Nat
    BY <1>3
  <2>2. QED
    BY <1>1, <1>3, <2>1 DEF MaxPoints
<1>11. validateSide(points) = points
  BY <1>9, <1>10 DEF validateSide
<1>12. QED
  BY <1>3, <1>11

LEMMA StableCurve ==
  ASSUME sent \in Seq([temp : Int, boost : Int]), points = validateSide(sent), Numbers \subseteq Int
  PROVE  NormalizeIsStable
<1> SUFFICES ASSUME points # Invalid, NEW n \in Numbers
             PROVE  LET once == Normalize([interval |-> n, hysteresis |-> n, cpu |-> points, gpu |-> points])
                    IN  once # Invalid /\ once.cpu = points /\ Normalize(once) = once
  BY DEF NormalizeIsStable
<1>1. validateSide(points) = points
  BY AcceptedIsStable
<1>2. n \in Int
  OBVIOUS
<1> DEFINE N(i, h) == [interval |-> i, hysteresis |-> h, cpu |-> points, gpu |-> points]
           I(i) == clampInt(IF i = 0 THEN 2 ELSE i, MinInterval, MaxInterval)
           H(h) == clampInt(h, MinHysteresis, MaxHysteresis)
<1>3. ASSUME NEW i, NEW h PROVE Normalize(N(i, h)) = N(I(i), H(h))
  BY <1>1 DEF Normalize
<1>4. I(I(n)) = I(n) /\ H(H(n)) = H(n)
  BY <1>2 DEF clampInt, MinInterval, MaxInterval, MinHysteresis, MaxHysteresis
<1>5. \A i, h : N(i, h) # Invalid /\ N(i, h).cpu = points
  BY DEF Invalid
<1> HIDE DEF N, I, H
<1>6. Normalize(N(n, n)) = N(I(n), H(n)) /\ Normalize(N(I(n), H(n))) = N(I(n), H(n))
  BY <1>3, <1>4
<1>7. N(I(n), H(n)) # Invalid /\ N(I(n), H(n)).cpu = points
  BY <1>5
<1>8. QED
  BY <1>6, <1>7 DEF N

\* What that leaves the interpolation to rely on.
Ordered(s) ==
  /\ \A i \in 1 .. Len(s) : s[i].boost \in MinBoost .. MaxBoost
  /\ RisingTemps(s)

-----------------------------------------------------------------------------
(* The interpolation returns an integer *)

\* A set of naturals that is not empty has a least element, which Min returns.
LEMMA MinOfNats ==
  ASSUME NEW S \in SUBSET Nat, S # {}
  PROVE  Min(S) \in S /\ \A y \in S : Min(S) <= y
<1>1. PICK x \in S : \A y \in S : x <= y
  BY LeastNat
<1>2. QED
  BY <1>1 DEF Min

LEMMA ProductIsInt ==
  ASSUME NEW m \in Int, NEW n \in Int
  PROVE  m * n \in Int
  OBVIOUS

LEMMA RoundIsInt ==
  ASSUME NEW n \in Int, NEW d \in Int, d > 0
  PROVE  RoundHalfUp(n, d) \in Int
  BY DEF RoundHalfUp

Points == [temp : Int, boost : Int]

LEMMA LineIsInt ==
  ASSUME NEW a \in Points, NEW b \in Points, NEW t \in Int, a.temp < b.temp
  PROVE  Line(a, b, t) \in Int
<1>1. /\ a.temp \in Int /\ b.temp \in Int
      /\ a.boost \in Int /\ b.boost \in Int
  BY DEF Points
<1>2. /\ a.boost * (b.temp - a.temp) \in Int
      /\ (b.boost - a.boost) * (t - a.temp) \in Int
  BY <1>1, ProductIsInt
<1>3. QED
  BY <1>1, <1>2, RoundIsInt DEF Line

\* Whatever the side, the boost it asks for is one a fan can take.
LEMMA InterpolateInRange ==
  ASSUME NEW s \in Seq(Points), Ordered(s), NEW t \in Int
  PROVE  Interpolate(s, t) \in Int /\ Interpolate(s, t) \in MinBoost .. MaxBoost
<1> DEFINE Segments == {i \in 1 .. Len(s) - 1 :
                          s[i].temp <= t /\ t <= s[i + 1].temp}
           R == MinBoost .. MaxBoost
<1>1. \A i \in 1 .. Len(s) : /\ s[i] \in Points
                             /\ s[i].temp \in Int /\ s[i].boost \in Int
  <2>1. \A p \in Points : p.temp \in Int /\ p.boost \in Int
    BY DEF Points
  <2>2. QED
    BY <2>1
<1>2. 0 \in R /\ \A i \in 1 .. Len(s) : s[i].boost \in R
  <2>1. 0 \in R
    BY DEF MinBoost, MaxBoost
  <2>2. QED
    BY <2>1 DEF Ordered
<1>3. SUFFICES Interpolate(s, t) \in R
  <2>1. \A x \in R : x \in Int
    BY DEF MinBoost, MaxBoost
  <2>2. QED
    BY <2>1
<1>4. CASE Len(s) = 0 \/ t <= s[1].temp \/ t >= s[Len(s)].temp \/ Segments = {}
  <2> HIDE DEF R
  <2>1. CASE Len(s) = 0
    BY <1>2, <2>1 DEF Interpolate
  <2>2. CASE Len(s) # 0
    <3>1. 1 \in 1 .. Len(s) /\ Len(s) \in 1 .. Len(s)
      BY <2>2
    <3>2. s[1].boost \in R /\ s[Len(s)].boost \in R
      BY <1>2, <3>1
    <3>3. QED
      BY <1>4, <2>2, <3>2 DEF Interpolate
  <2>3. QED
    BY <2>1, <2>2
<1>5. CASE ~(Len(s) = 0 \/ t <= s[1].temp \/ t >= s[Len(s)].temp \/ Segments = {})
  <2> DEFINE i == Min(Segments)
  <2>1. i \in Segments
    <3>1. Segments \in SUBSET Nat /\ Segments # {}
      BY <1>5
    <3> HIDE DEF Segments
    <3>2. QED
      BY <3>1, MinOfNats
  <2>2. i \in 1 .. Len(s) /\ i + 1 \in 1 .. Len(s)
    BY <2>1
  <2>3. CASE s[i].temp = s[i + 1].temp
    <3>1. Interpolate(s, t) = s[i + 1].boost
      BY <1>5, <2>3 DEF Interpolate
    <3>2. QED
      BY <1>2, <2>2, <3>1
  <2>4. CASE s[i].temp # s[i + 1].temp
    <3>1. s[i].temp < s[i + 1].temp
      BY <1>1, <2>1, <2>2, <2>4
    <3>2. Line(s[i], s[i + 1], t) \in Int
      BY <1>1, <2>2, <3>1, LineIsInt
    <3>3. clampInt(Line(s[i], s[i + 1], t), MinBoost, MaxBoost) \in R
      <4>1. \A x \in Int : clampInt(x, MinBoost, MaxBoost) \in R
        BY DEF clampInt, MinBoost, MaxBoost
      <4>2. QED
        BY <3>2, <4>1
    <3>4. Interpolate(s, t) = clampInt(Line(s[i], s[i + 1], t), MinBoost, MaxBoost)
      BY <1>5, <2>4 DEF Interpolate
    <3>5. QED
      BY <3>3, <3>4
  <2>5. QED
    BY <2>3, <2>4
<1>6. QED
  BY <1>4, <1>5

-----------------------------------------------------------------------------
(* On a rising side a hotter fan is never given less *)

LEMMA RoundRises ==
  ASSUME NEW m \in Nat, NEW n \in Nat, m <= n, NEW d \in Nat \ {0}
  PROVE  RoundHalfUp(m, d) <= RoundHalfUp(n, d)
<1> DEFINE x == 2 * m + d
           y == 2 * n + d
           e == 2 * d
           p == x \div e
           q == y \div e
<1>1. x \in Nat /\ y \in Nat /\ e \in Nat \ {0} /\ x <= y
  OBVIOUS
<1> HIDE DEF x, y, e
<1>2. /\ p \in Nat /\ e * p <= x /\ x < e * p + e
      /\ q \in Nat /\ e * q <= y /\ y < e * q + e
  BY <1>1, DivFacts
<1> HIDE DEF p, q
<1>3. SUFFICES ASSUME q < p PROVE FALSE
  BY <1>2 DEF RoundHalfUp, p, q, x, y, e
<1>4. e * (q + 1) <= e * p
  BY <1>1, <1>2, <1>3
<1>5. e * (q + 1) = e * q + e
  BY <1>1, <1>2
<1>6. QED
  BY <1>1, <1>2, <1>4, <1>5

LEMMA RoundExact ==
  ASSUME NEW v \in Nat, NEW d \in Nat \ {0}
  PROVE  RoundHalfUp(v * d, d) = v
<1> DEFINE x == 2 * (v * d) + d
           e == 2 * d
           p == x \div e
<1>1. v * d \in Nat
  OBVIOUS
<1>2. x \in Nat /\ e \in Nat \ {0} /\ x = e * v + d /\ d < e
  BY <1>1
<1> HIDE DEF x
<1>3. p \in Nat /\ e * p <= x /\ x < e * p + e
  BY <1>2, DivFacts
<1> HIDE DEF p
<1>4. p = v
  <2>1. CASE p < v
    <3>1. e * (p + 1) <= e * v /\ e * (p + 1) = e * p + e
      BY <1>2, <1>3, <2>1
    <3>2. QED
      BY <1>2, <1>3, <3>1
  <2>2. CASE v < p
    <3>1. e * (v + 1) <= e * p /\ e * (v + 1) = e * v + e
      BY <1>2, <1>3, <2>2
    <3>2. QED
      BY <1>2, <1>3, <3>1
  <2>3. QED
    BY <1>3, <2>1, <2>2
<1>5. QED
  BY <1>4 DEF RoundHalfUp, p, x

Within(p) == p \in Points /\ p.boost \in MinBoost .. MaxBoost

\* The line between two points rises from the one boost to the other.
LEMMA LineRises ==
  ASSUME NEW a, NEW b, Within(a), Within(b), a.temp < b.temp, a.boost <= b.boost,
         NEW t \in Int, NEW u \in Int, a.temp <= t, t <= u, u <= b.temp
  PROVE  /\ Line(a, b, t) \in a.boost .. b.boost
         /\ Line(a, b, t) <= Line(a, b, u)
<1> DEFINE d == b.temp - a.temp
           k == b.boost - a.boost
           x == t - a.temp
           y == u - a.temp
           c == a.boost
<1>1. /\ d \in Nat \ {0} /\ k \in Nat /\ x \in Nat /\ y \in Nat /\ c \in Nat /\ x <= y /\ y <= d
      /\ b.boost = c + k /\ c + k \in Nat
  <2> DEFINE at == a.temp
             bt == b.temp
             bb == b.boost
  <2>1. at \in Int /\ bt \in Int /\ c \in 0 .. 255 /\ bb \in 0 .. 255
    BY DEF Within, Points, MinBoost, MaxBoost
  <2>2. at < bt /\ c <= bb /\ at <= t /\ t <= u /\ u <= bt
    OBVIOUS
  <2>3. d = bt - at /\ k = bb - c /\ x = t - at /\ y = u - at
    OBVIOUS
  <2> HIDE DEF d, k, x, y, c, at, bt, bb
  <2>4. d \in Nat \ {0} /\ x \in Nat /\ y \in Nat /\ x <= y /\ y <= d
    BY <2>1, <2>2, <2>3
  <2>5. c \in Nat /\ k \in Nat /\ bb = c + k /\ c + k \in Nat
    BY <2>1, <2>2, <2>3
  <2>6. QED
    BY <2>4, <2>5 DEF bb
<1>2. Line(a, b, t) = RoundHalfUp(c * d + k * x, d) /\ Line(a, b, u) = RoundHalfUp(c * d + k * y, d)
  BY DEF Line
<1>3. a.boost = c
  OBVIOUS
<1> HIDE DEF d, k, x, y, c
<1>4. k * x <= k * y /\ k * y <= k * d /\ 0 <= k * x /\ c * d \in Nat /\ k * x \in Nat /\ k * y \in Nat /\ k * d \in Nat
  BY <1>1
<1>5. (c + k) * d = c * d + k * d
  BY <1>1
<1> DEFINE m == c * d
           n == c * d + k * x
           o == c * d + k * y
           p == (c + k) * d
<1>6. m \in Nat /\ n \in Nat /\ o \in Nat /\ p \in Nat /\ m <= n /\ n <= o /\ n <= p
  BY <1>4, <1>5
<1>7. RoundHalfUp(m, d) = c /\ RoundHalfUp(p, d) = c + k
  BY <1>1, RoundExact
<1> HIDE DEF m, n, o, p
<1>8. RoundHalfUp(m, d) <= RoundHalfUp(n, d) /\ RoundHalfUp(n, d) <= RoundHalfUp(o, d) /\ RoundHalfUp(n, d) <= RoundHalfUp(p, d)
  BY <1>1, <1>6, RoundRises
<1>9. RoundHalfUp(n, d) \in Int
  BY <1>1, <1>6, RoundIsInt
<1>10. Line(a, b, t) = RoundHalfUp(n, d) /\ Line(a, b, u) = RoundHalfUp(o, d)
  BY <1>2 DEF n, o
<1>11. QED
  BY <1>1, <1>3, <1>7, <1>8, <1>9, <1>10

\* In an ordered side a later point is hotter.
LEMMA TempsRise ==
  ASSUME NEW s \in Seq(Points), Ordered(s), NEW i \in 1 .. Len(s), NEW j \in 1 .. Len(s), i < j
  PROVE  s[i].temp < s[j].temp
  BY DEF Ordered, RisingTemps

LEMMA NextIsHotter ==
  ASSUME NEW s \in Seq(Points), Ordered(s), NEW i \in 1 .. Len(s) - 1
  PROVE  s[i].temp < s[i + 1].temp
<1>1. i \in 1 .. Len(s) /\ i + 1 \in 1 .. Len(s) /\ i < i + 1
  OBVIOUS
<1>2. QED
  BY <1>1, TempsRise

\* In an ordered side whose boosts never fall, a later point is hotter and no quieter.
LEMMA PointsRise ==
  ASSUME NEW s \in Seq(Points), Ordered(s), NeverFalls(s), NEW i \in 1 .. Len(s), NEW j \in 1 .. Len(s), i <= j
  PROVE  s[i].temp <= s[j].temp /\ s[i].boost <= s[j].boost
<1> DEFINE Q(n) == s[i].temp <= s[n].temp /\ s[i].boost <= s[n].boost
           T == {n \in 1 .. Len(s) : i <= n /\ ~Q(n)}
<1>1. Len(s) \in Nat /\ \A n \in 1 .. Len(s) : s[n].temp \in Int /\ s[n].boost \in Int
  <2>1. \A p \in Points : p.temp \in Int /\ p.boost \in Int
    BY DEF Points
  <2>2. QED
    BY <2>1
<1>2. SUFFICES ASSUME T # {} PROVE FALSE
  OBVIOUS
<1>3. PICK n \in T : \A m \in T : n <= m
  <2>1. T \in SUBSET Nat
    BY <1>1
  <2> HIDE DEF T
  <2>2. QED
    BY <1>2, <2>1, LeastNat
<1>4. n \in 1 .. Len(s) /\ i <= n /\ ~Q(n)
  BY <1>3
<1>5. n # i
  BY <1>1, <1>4
<1>6. n - 1 \in 1 .. Len(s) - 1 /\ n - 1 \in 1 .. Len(s) /\ i <= n - 1 /\ (n - 1) + 1 = n /\ ~(n <= n - 1)
  BY <1>1, <1>4, <1>5
<1>7. Q(n - 1)
  BY <1>3, <1>6
<1>8. s[n - 1].temp < s[n].temp /\ s[n - 1].boost <= s[n].boost
  <2>1. s[n - 1].temp < s[(n - 1) + 1].temp
    BY <1>6, NextIsHotter
  <2>2. s[n - 1].boost <= s[(n - 1) + 1].boost
    BY <1>6 DEF NeverFalls
  <2>3. QED
    BY <1>6, <2>1, <2>2
<1>9. Q(n)
  BY <1>1, <1>4, <1>6, <1>7, <1>8
<1>10. QED
  BY <1>4, <1>9

\* Between its ends, a side is interpolated on a segment around the temperature.
LEMMA OnASegment ==
  ASSUME NEW s \in Seq(Points), Ordered(s), NEW t \in Int, Len(s) # 0, s[1].temp < t, t < s[Len(s)].temp
  PROVE  \E i \in 1 .. Len(s) - 1 :
           /\ i \in 1 .. Len(s) /\ i + 1 \in 1 .. Len(s) /\ s[i].temp < s[i + 1].temp
           /\ s[i].temp <= t /\ t <= s[i + 1].temp
           /\ Interpolate(s, t) = clampInt(Line(s[i], s[i + 1], t), MinBoost, MaxBoost)
<1> DEFINE last == Len(s)
           Segments == {i \in 1 .. last - 1 : s[i].temp <= t /\ t <= s[i + 1].temp}
           Above == {i \in 1 .. last : t <= s[i].temp}
<1>1. last \in Nat \ {0} /\ \A n \in 1 .. last : s[n].temp \in Int
  <2>1. \A p \in Points : p.temp \in Int
    BY DEF Points
  <2>2. QED
    BY <2>1
<1>2. PICK k \in Above : \A n \in Above : k <= n
  <2>1. Above \in SUBSET Nat /\ last \in Above
    BY <1>1
  <2> HIDE DEF Above
  <2>2. QED
    BY <2>1, LeastNat
<1>3. k \in 1 .. last /\ t <= s[k].temp /\ 1 \in 1 .. last
  BY <1>1, <1>2
<1>4. k # 1
  BY <1>1, <1>3
<1>5. k - 1 \in 1 .. last - 1 /\ k - 1 \in 1 .. last /\ (k - 1) + 1 = k /\ ~(k <= k - 1)
  BY <1>1, <1>3, <1>4
<1>6. s[k - 1].temp <= t
  <2>1. k - 1 \notin Above
    BY <1>2, <1>5
  <2>2. ~(t <= s[k - 1].temp)
    BY <1>5, <2>1
  <2>3. QED
    BY <1>1, <1>5, <2>2
<1>7. k - 1 \in Segments
  BY <1>3, <1>5, <1>6
<1> DEFINE i == Min(Segments)
<1>8. i \in Segments
  <2>1. Segments \in SUBSET (1 .. last - 1)
    OBVIOUS
  <2> HIDE DEF Segments
  <2>2. Segments \in SUBSET Nat /\ Segments # {}
    BY <1>1, <1>7, <2>1
  <2> HIDE DEF last
  <2>3. QED
    BY <2>2, MinOfNats
<1> HIDE DEF i
<1>9. /\ i \in 1 .. last - 1 /\ i \in 1 .. last /\ i + 1 \in 1 .. last
      /\ s[i].temp <= t /\ t <= s[i + 1].temp /\ s[i].temp < s[i + 1].temp
  BY <1>1, <1>8, NextIsHotter
<1>10. Interpolate(s, t) = clampInt(Line(s[i], s[i + 1], t), MinBoost, MaxBoost)
  <2>1. last # 0 /\ ~(t <= s[1].temp) /\ ~(t >= s[last].temp) /\ Segments # {}
    <3>1. last \in 1 .. last
      BY <1>1
    <3>2. s[1].temp \in Int /\ s[last].temp \in Int
      BY <1>1, <1>3, <3>1
    <3> DEFINE lo == s[1].temp
               hi == s[last].temp
    <3>3. lo \in Int /\ hi \in Int /\ lo < t /\ t < hi
      BY <3>2
    <3> HIDE DEF lo, hi
    <3>4. ~(t <= lo) /\ ~(t >= hi)
      BY <3>3
    <3>5. Segments # {}
      BY <1>7
    <3>6. QED
      BY <3>4, <3>5 DEF lo, hi
  <2>2. s[i].temp # s[i + 1].temp
    BY <1>1, <1>9
  <2>3. QED
    BY <2>1, <2>2 DEF Interpolate, i
<1>11. QED
  BY <1>9, <1>10

\* A hotter reading asks for no less.
LEMMA InterpolateRises ==
  ASSUME NEW s \in Seq(Points), Ordered(s), NeverFalls(s), NEW t \in Int, NEW u \in Int, t <= u
  PROVE  Interpolate(s, t) <= Interpolate(s, u)
<1> DEFINE last == Len(s)
<1>1. last \in Nat /\ \A n \in 1 .. last : /\ Within(s[n]) /\ s[n].temp \in Int
                                           /\ s[n].boost \in Int /\ 0 <= s[n].boost /\ s[n].boost <= 255
  <2>1. \A p \in Points : p.temp \in Int /\ p.boost \in Int
    BY DEF Points
  <2>2. last \in Nat /\ \A n \in 1 .. last : s[n] \in Points /\ s[n].boost \in MinBoost .. MaxBoost
    BY DEF Ordered
  <2>3. \A x \in MinBoost .. MaxBoost : 0 <= x /\ x <= 255
    BY DEF MinBoost, MaxBoost
  <2> HIDE DEF last
  <2>4. QED
    BY <2>1, <2>2, <2>3 DEF Within
<1>2. CASE last = 0
  BY <1>2 DEF Interpolate
<1> DEFINE low(v) == v <= s[1].temp
           high(v) == v >= s[last].temp
<1>3. ASSUME last # 0 PROVE 1 \in 1 .. last /\ last \in 1 .. last
  BY <1>1, <1>3
<1>4. ASSUME last # 0, NEW v \in Int
      PROVE  /\ low(v) => Interpolate(s, v) = s[1].boost
             /\ ~low(v) /\ high(v) => Interpolate(s, v) = s[last].boost
  BY <1>4 DEF Interpolate
<1>5. ASSUME NEW v \in Int, NEW i \in 1 .. last - 1, i \in 1 .. last, i + 1 \in 1 .. last,
             s[i].temp < s[i + 1].temp, s[i].temp <= v, v <= s[i + 1].temp,
             Interpolate(s, v) = clampInt(Line(s[i], s[i + 1], v), MinBoost, MaxBoost)
      PROVE  /\ Interpolate(s, v) = Line(s[i], s[i + 1], v)
             /\ s[1].boost <= s[i].boost /\ s[i + 1].boost <= s[last].boost
             /\ s[i].boost <= s[i + 1].boost
             /\ Line(s[i], s[i + 1], v) \in s[i].boost .. s[i + 1].boost
             /\ \A w \in Int : v <= w /\ w <= s[i + 1].temp =>
                  Line(s[i], s[i + 1], v) <= Line(s[i], s[i + 1], w)
  <2>1. last # 0 /\ 1 \in 1 .. last /\ last \in 1 .. last /\ 1 <= i /\ i + 1 <= last /\ i <= i + 1
    BY <1>1, <1>5
  <2>2. s[1].boost <= s[i].boost /\ s[i + 1].boost <= s[last].boost /\ s[i].boost <= s[i + 1].boost
    BY <1>5, <2>1, PointsRise
  <2>3. Within(s[i]) /\ Within(s[i + 1])
    BY <1>1, <1>5
  <2>4. \A w \in Int : v <= w /\ w <= s[i + 1].temp =>
          /\ Line(s[i], s[i + 1], v) \in s[i].boost .. s[i + 1].boost
          /\ Line(s[i], s[i + 1], v) <= Line(s[i], s[i + 1], w)
    BY <1>5, <2>2, <2>3, LineRises
  <2>5. Line(s[i], s[i + 1], v) \in s[i].boost .. s[i + 1].boost
    BY <1>5, <2>4
  <2>6. s[i].boost \in Int /\ 0 <= s[i].boost /\ s[i + 1].boost \in Int /\ s[i + 1].boost <= 255
    BY <1>1, <1>5
  <2>7. clampInt(Line(s[i], s[i + 1], v), MinBoost, MaxBoost) = Line(s[i], s[i + 1], v)
    <3> DEFINE x == Line(s[i], s[i + 1], v)
    <3>1. x \in Int /\ ~(x < 0) /\ ~(x > 255)
      <4> DEFINE lo == s[i].boost
                 hi == s[i + 1].boost
      <4>1. x \in lo .. hi /\ lo \in Int /\ hi \in Int /\ 0 <= lo /\ hi <= 255
        BY <2>5, <2>6
      <4> HIDE DEF x, lo, hi
      <4>2. QED
        BY <4>1
    <3> HIDE DEF x
    <3>2. clampInt(x, 0, 255) = x
      BY <3>1 DEF clampInt
    <3>3. QED
      BY <3>2 DEF x, MinBoost, MaxBoost
  <2>8. QED
    BY <1>5, <2>2, <2>4, <2>5, <2>7
<1>6. ASSUME last # 0, t # u PROVE Interpolate(s, t) <= Interpolate(s, u)
  <2>1. s[1].boost <= s[last].boost /\ s[1].temp <= s[last].temp
    <3>1. 1 \in 1 .. last /\ last \in 1 .. last /\ 1 <= last
      BY <1>1, <1>6
    <3>2. QED
      BY <3>1, PointsRise
  <2>2. s[1].temp \in Int /\ s[last].temp \in Int /\ s[1].boost \in Int /\ s[last].boost \in Int /\ t < u
    <3>1. 1 \in 1 .. last /\ last \in 1 .. last /\ t < u
      BY <1>3, <1>6
    <3>2. s[1].temp \in Int /\ s[1].boost \in Int
      BY <1>1, <3>1
    <3>3. s[last].temp \in Int /\ s[last].boost \in Int
      BY <1>1, <3>1
    <3>4. QED
      BY <3>1, <3>2, <3>3
  <2>3. CASE low(t) /\ (low(u) \/ high(u))
    BY <1>4, <1>6, <2>1, <2>2, <2>3
  <2>4. CASE ~low(t) /\ high(t)
    <3>1. ~low(u) /\ high(u)
      BY <2>2, <2>4
    <3>2. QED
      BY <1>4, <1>6, <2>2, <2>4, <3>1
  <2>5. CASE ~low(u) /\ ~high(u)
    <3>1. s[1].temp < u /\ u < s[last].temp
      BY <2>2, <2>5
    <3>2. PICK j \in 1 .. last - 1 :
            /\ j \in 1 .. last /\ j + 1 \in 1 .. last /\ s[j].temp < s[j + 1].temp
            /\ s[j].temp <= u /\ u <= s[j + 1].temp
            /\ Interpolate(s, u) = clampInt(Line(s[j], s[j + 1], u), MinBoost, MaxBoost)
      BY <1>6, <3>1, OnASegment
    <3>3. /\ Interpolate(s, u) = Line(s[j], s[j + 1], u) /\ s[1].boost <= s[j].boost
          /\ Line(s[j], s[j + 1], u) \in s[j].boost .. s[j + 1].boost
      BY <1>5, <3>2
    <3>4. s[j].boost \in Int /\ s[j + 1].boost \in Int /\ s[j].temp \in Int /\ s[j + 1].temp \in Int
      BY <1>1, <3>2
    <3>5. CASE low(t)
      BY <1>4, <1>6, <2>2, <3>3, <3>4, <3>5
    <3>6. CASE ~low(t)
      <4>1. s[1].temp < t /\ t < s[last].temp
        BY <2>2, <3>1, <3>6
      <4>2. PICK i \in 1 .. last - 1 :
              /\ i \in 1 .. last /\ i + 1 \in 1 .. last /\ s[i].temp < s[i + 1].temp
              /\ s[i].temp <= t /\ t <= s[i + 1].temp
              /\ Interpolate(s, t) = clampInt(Line(s[i], s[i + 1], t), MinBoost, MaxBoost)
        BY <1>6, <4>1, OnASegment
      <4>3. /\ Interpolate(s, t) = Line(s[i], s[i + 1], t)
            /\ Line(s[i], s[i + 1], t) \in s[i].boost .. s[i + 1].boost
            /\ \A w \in Int : t <= w /\ w <= s[i + 1].temp =>
                 Line(s[i], s[i + 1], t) <= Line(s[i], s[i + 1], w)
        BY <1>5, <4>2
      <4>4. s[i].boost \in Int /\ s[i + 1].boost \in Int /\ s[i].temp \in Int /\ s[i + 1].temp \in Int
        BY <1>1, <4>2
      <4>5. i \in Nat /\ j \in Nat
        BY <1>1, <3>2, <4>2
      <4>6. CASE i = j
        BY <2>2, <3>2, <3>3, <4>3, <4>6
      <4>7. CASE i < j
        <5>1. i + 1 <= j
          BY <4>5, <4>7
        <5>2. s[i + 1].boost <= s[j].boost
          BY <3>2, <4>2, <5>1, PointsRise
        <5> DEFINE x == Line(s[i], s[i + 1], t)
                   y == Line(s[j], s[j + 1], u)
                   f == s[i].boost
                   g == s[i + 1].boost
                   h == s[j].boost
                   k == s[j + 1].boost
        <5>3. x \in f .. g /\ g <= h /\ y \in h .. k
          BY <3>3, <4>3, <5>2
        <5>4. f \in Int /\ g \in Int /\ h \in Int /\ k \in Int
          BY <3>4, <4>4
        <5>5. Interpolate(s, t) = x /\ Interpolate(s, u) = y
          BY <3>3, <4>3
        <5> HIDE DEF x, y, f, g, h, k
        <5>6. QED
          BY <5>3, <5>4, <5>5
      <4>8. CASE j < i
        <5>1. j + 1 <= i
          BY <4>5, <4>8
        <5>2. s[j + 1].temp <= s[i].temp
          BY <3>2, <4>2, <5>1, PointsRise
        <5>3. QED
          BY <2>2, <3>2, <3>4, <4>2, <4>4, <5>2
      <4>9. QED
        BY <4>5, <4>6, <4>7, <4>8
    <3>7. QED
      BY <3>5, <3>6
  <2>6. CASE ~low(t) /\ ~high(t) /\ high(u)
    <3>1. s[1].temp < t /\ t < s[last].temp /\ ~low(u)
      BY <2>2, <2>6
    <3>2. PICK i \in 1 .. last - 1 :
            /\ i \in 1 .. last /\ i + 1 \in 1 .. last /\ s[i].temp < s[i + 1].temp
            /\ s[i].temp <= t /\ t <= s[i + 1].temp
            /\ Interpolate(s, t) = clampInt(Line(s[i], s[i + 1], t), MinBoost, MaxBoost)
      BY <1>6, <3>1, OnASegment
    <3>3. /\ Interpolate(s, t) = Line(s[i], s[i + 1], t) /\ s[i + 1].boost <= s[last].boost
          /\ Line(s[i], s[i + 1], t) \in s[i].boost .. s[i + 1].boost
      BY <1>5, <3>2
    <3>4. s[i].boost \in Int /\ s[i + 1].boost \in Int
      BY <1>1, <3>2
    <3>5. Interpolate(s, u) = s[last].boost
      BY <1>4, <1>6, <2>6, <3>1
    <3>6. QED
      BY <2>2, <3>3, <3>4, <3>5
  <2>7. low(t) \/ ~low(u)
    BY <2>2
  <2>8. QED
    BY <2>3, <2>4, <2>5, <2>6, <2>7
<1>7. Interpolate(s, t) \in Int
  BY InterpolateInRange
<1>8. QED
  BY <1>2, <1>6, <1>7

\* The line goes through both points, and between them it stays between their boosts.
LEMMA LineEnds ==
  ASSUME NEW a, NEW b, Within(a), Within(b), a.temp < b.temp
  PROVE  Line(a, b, a.temp) = a.boost /\ Line(a, b, b.temp) = b.boost
<1> DEFINE at == a.temp
           bt == b.temp
           ab == a.boost
           bb == b.boost
           d == bt - at
<1>1. at \in Int /\ bt \in Int /\ ab \in Nat /\ bb \in Nat /\ at < bt
  <2>1. at \in Int /\ bt \in Int /\ ab \in 0 .. 255 /\ bb \in 0 .. 255
    BY DEF Within, Points, MinBoost, MaxBoost
  <2>2. at < bt
    OBVIOUS
  <2> HIDE DEF at, bt, ab, bb
  <2>3. QED
    BY <2>1, <2>2
<1>2. /\ Line(a, b, at) = RoundHalfUp(ab * d + (bb - ab) * (at - at), d)
      /\ Line(a, b, bt) = RoundHalfUp(ab * d + (bb - ab) * d, d)
  BY DEF Line
<1> HIDE DEF at, bt, ab, bb
<1>3. d \in Nat \ {0} /\ at - at = 0
  BY <1>1
<1> HIDE DEF d
<1>4. ab * d + (bb - ab) * 0 = ab * d /\ ab * d + (bb - ab) * d = bb * d
  BY <1>1, <1>3
<1>5. RoundHalfUp(ab * d, d) = ab /\ RoundHalfUp(bb * d, d) = bb
  BY <1>1, <1>3, RoundExact
<1>6. QED
  BY <1>2, <1>3, <1>4, <1>5 DEF at, bt, ab, bb

LEMMA LineFalls ==
  ASSUME NEW a, NEW b, Within(a), Within(b), a.temp < b.temp, b.boost <= a.boost,
         NEW t \in Int, a.temp <= t, t <= b.temp
  PROVE  Line(a, b, t) \in b.boost .. a.boost
<1> DEFINE at == a.temp
           bt == b.temp
           c == b.boost
           ab == a.boost
           d == bt - at
           k == ab - c
           x == t - at
<1>1. at \in Int /\ bt \in Int /\ c \in Nat /\ ab \in Nat /\ at < bt /\ c <= ab /\ at <= t /\ t <= bt
  <2>1. at \in Int /\ bt \in Int /\ ab \in 0 .. 255 /\ c \in 0 .. 255
    BY DEF Within, Points, MinBoost, MaxBoost
  <2>2. at < bt /\ c <= ab /\ at <= t /\ t <= bt
    OBVIOUS
  <2> HIDE DEF at, bt, ab, c
  <2>3. QED
    BY <2>1, <2>2
<1>2. Line(a, b, t) = RoundHalfUp(ab * d + (c - ab) * x, d)
  BY DEF Line
<1> HIDE DEF at, bt, ab, c
<1>3. d \in Nat \ {0} /\ k \in Nat /\ x \in Nat /\ x <= d /\ ab = c + k /\ c - ab = 0 - k
  BY <1>1
<1> HIDE DEF d, k, x
<1>4. k * x \in Nat /\ k * d \in Nat /\ k * x <= k * d /\ c * d \in Nat
  BY <1>1, <1>3
<1>5. (0 - k) * x = 0 - k * x /\ (c + k) * d = c * d + k * d
  BY <1>1, <1>3
<1> DEFINE m == c * d
           n == ab * d + (c - ab) * x
           p == ab * d
<1>6. n = p - k * x /\ p = m + k * d
  BY <1>3, <1>4, <1>5
<1>7. m \in Nat /\ n \in Nat /\ p \in Nat /\ m <= n /\ n <= p
  <2>1. m \in Nat
    BY <1>4
  <2> HIDE DEF m, n, p
  <2>2. QED
    BY <1>4, <1>6, <2>1
<1>8. RoundHalfUp(m, d) = c /\ RoundHalfUp(p, d) = ab
  BY <1>1, <1>3, RoundExact
<1> HIDE DEF m, n, p
<1>9. RoundHalfUp(m, d) <= RoundHalfUp(n, d) /\ RoundHalfUp(n, d) <= RoundHalfUp(p, d) /\ RoundHalfUp(n, d) \in Int
  <2>1. d \in Int /\ d > 0 /\ n \in Int
    BY <1>3, <1>7
  <2>2. RoundHalfUp(n, d) \in Int
    BY <2>1, RoundIsInt
  <2>3. RoundHalfUp(m, d) <= RoundHalfUp(n, d)
    BY <1>3, <1>7, RoundRises
  <2>4. RoundHalfUp(n, d) <= RoundHalfUp(p, d)
    BY <1>3, <1>7, RoundRises
  <2>5. QED
    BY <2>2, <2>3, <2>4
<1>10. RoundHalfUp(n, d) \in c .. ab
  BY <1>1, <1>8, <1>9
<1>11. QED
  BY <1>2, <1>10 DEF n, c, ab

\* What lies between the boosts of two points needs no clamp.
LEMMA Unclamped ==
  ASSUME NEW x \in Int, NEW f \in MinBoost .. MaxBoost, NEW g \in MinBoost .. MaxBoost, x \in f .. g
  PROVE  clampInt(x, MinBoost, MaxBoost) = x
  BY DEF clampInt, MinBoost, MaxBoost

\* On every segment of an ordered side, its ends included, the boost is the line's.
LEMMA OnTheLine ==
  ASSUME NEW s \in Seq(Points), Ordered(s), NEW i \in 1 .. Len(s) - 1,
         NEW t \in Int, s[i].temp <= t, t <= s[i + 1].temp
  PROVE  /\ Interpolate(s, t) = Line(s[i], s[i + 1], t)
         /\ Line(s[i], s[i + 1], t) \in Int
         /\ s[i].boost <= s[i + 1].boost => Line(s[i], s[i + 1], t) \in s[i].boost .. s[i + 1].boost
         /\ s[i + 1].boost <= s[i].boost => Line(s[i], s[i + 1], t) \in s[i + 1].boost .. s[i].boost
<1> DEFINE last == Len(s)
<1>1. last \in Nat /\ \A n \in 1 .. last : Within(s[n]) /\ s[n].temp \in Int /\ s[n].boost \in Int /\ s[n].boost \in MinBoost .. MaxBoost
  <2>1. \A p \in Points : p.temp \in Int /\ p.boost \in Int
    BY DEF Points
  <2>2. last \in Nat /\ \A n \in 1 .. last : s[n] \in Points /\ s[n].boost \in MinBoost .. MaxBoost
    BY DEF Ordered
  <2> HIDE DEF last
  <2>3. QED
    BY <2>1, <2>2 DEF Within
<1>2. i \in 1 .. last /\ i + 1 \in 1 .. last /\ i \in Nat /\ last # 0 /\ 1 \in 1 .. last /\ last \in 1 .. last
  BY <1>1
<1>3. s[i].temp < s[i + 1].temp
  BY NextIsHotter
<1>4. ASSUME NEW j \in 1 .. last - 1, NEW v \in Int, j \in 1 .. last, j + 1 \in 1 .. last,
             s[j].temp < s[j + 1].temp, s[j].temp <= v, v <= s[j + 1].temp
      PROVE  /\ Line(s[j], s[j + 1], v) \in Int
             /\ s[j].boost <= s[j + 1].boost => Line(s[j], s[j + 1], v) \in s[j].boost .. s[j + 1].boost
             /\ s[j + 1].boost <= s[j].boost => Line(s[j], s[j + 1], v) \in s[j + 1].boost .. s[j].boost
             /\ clampInt(Line(s[j], s[j + 1], v), MinBoost, MaxBoost) = Line(s[j], s[j + 1], v)
  <2>1. /\ Within(s[j]) /\ Within(s[j + 1])
        /\ s[j].boost \in Int /\ s[j].boost \in MinBoost .. MaxBoost
        /\ s[j + 1].boost \in Int /\ s[j + 1].boost \in MinBoost .. MaxBoost
    BY <1>1, <1>4
  <2>2. Line(s[j], s[j + 1], v) \in Int
    BY <1>4, <2>1, LineIsInt DEF Within
  <2>3. s[j].boost <= s[j + 1].boost => Line(s[j], s[j + 1], v) \in s[j].boost .. s[j + 1].boost
    BY <1>4, <2>1, LineRises
  <2>4. s[j + 1].boost <= s[j].boost => Line(s[j], s[j + 1], v) \in s[j + 1].boost .. s[j].boost
    BY <1>4, <2>1, LineFalls
  <2>5. s[j].boost <= s[j + 1].boost \/ s[j + 1].boost <= s[j].boost
    BY <2>1
  <2>6. clampInt(Line(s[j], s[j + 1], v), MinBoost, MaxBoost) = Line(s[j], s[j + 1], v)
    BY <2>1, <2>2, <2>3, <2>4, <2>5, Unclamped
  <2>7. QED
    BY <2>2, <2>3, <2>4, <2>6
<1>5. Interpolate(s, t) = Line(s[i], s[i + 1], t)
  <2>1. s[1].temp \in Int /\ s[last].temp \in Int /\ s[i].temp \in Int /\ s[i + 1].temp \in Int
    BY <1>1, <1>2
  <2>2. CASE t <= s[1].temp
    <3>1. Interpolate(s, t) = s[1].boost
      BY <1>2, <2>2 DEF Interpolate
    <3>2. ~(1 < i)
      <4>1. 1 < i => s[1].temp < s[i].temp
        BY <1>2, TempsRise
      <4>2. QED
        BY <2>1, <2>2, <4>1
    <3>3. i = 1
      BY <1>2, <3>2
    <3>4. t = s[i].temp
      BY <2>1, <2>2, <3>3
    <3>5. Line(s[i], s[i + 1], s[i].temp) = s[i].boost
      BY <1>1, <1>2, <1>3, LineEnds
    <3>6. QED
      BY <3>1, <3>3, <3>4, <3>5
  <2>3. CASE ~(t <= s[1].temp) /\ t >= s[last].temp
    <3>1. Interpolate(s, t) = s[last].boost
      BY <1>2, <2>3 DEF Interpolate
    <3>2. ~(i + 1 < last)
      <4>1. i + 1 < last => s[i + 1].temp < s[last].temp
        BY <1>2, TempsRise
      <4>2. QED
        BY <2>1, <2>3, <4>1
    <3>3. i + 1 = last
      BY <1>1, <1>2, <3>2
    <3>4. t = s[i + 1].temp
      BY <2>1, <2>3, <3>3
    <3>5. Line(s[i], s[i + 1], s[i + 1].temp) = s[i + 1].boost
      BY <1>1, <1>2, <1>3, LineEnds
    <3>6. QED
      BY <3>1, <3>3, <3>4, <3>5
  <2>4. CASE ~(t <= s[1].temp) /\ ~(t >= s[last].temp)
    <3>1. s[1].temp < t /\ t < s[last].temp
      BY <2>1, <2>4
    <3>2. PICK j \in 1 .. last - 1 :
            /\ j \in 1 .. last /\ j + 1 \in 1 .. last /\ s[j].temp < s[j + 1].temp
            /\ s[j].temp <= t /\ t <= s[j + 1].temp
            /\ Interpolate(s, t) = clampInt(Line(s[j], s[j + 1], t), MinBoost, MaxBoost)
      BY <1>2, <3>1, OnASegment
    <3>3. Interpolate(s, t) = Line(s[j], s[j + 1], t)
      BY <1>4, <3>2
    <3>4. /\ s[j].temp \in Int /\ s[j + 1].temp \in Int /\ j \in Nat
          /\ Within(s[j]) /\ Within(s[j + 1]) /\ Within(s[i]) /\ Within(s[i + 1])
      BY <1>1, <1>2, <3>2
    <3>5. CASE j = i
      BY <3>3, <3>5
    <3>6. CASE j < i
      <4>1. j + 1 = i
        <5>1. j + 1 < i => s[j + 1].temp < s[i].temp
          BY <1>2, <3>2, TempsRise
        <5>2. ~(j + 1 < i)
          BY <2>1, <3>2, <3>4, <5>1
        <5>3. QED
          BY <1>2, <3>4, <3>6, <5>2
      <4>2. t = s[i].temp
        BY <2>1, <3>2, <4>1
      <4>3. Line(s[j], s[i], s[i].temp) = s[i].boost
        BY <3>2, <3>4, <4>1, LineEnds
      <4>4. Line(s[i], s[i + 1], s[i].temp) = s[i].boost
        BY <1>3, <3>4, LineEnds
      <4>5. QED
        BY <3>3, <4>1, <4>2, <4>3, <4>4
    <3>7. CASE i < j
      <4>1. i + 1 = j
        <5>1. i + 1 < j => s[i + 1].temp < s[j].temp
          BY <1>2, <3>2, TempsRise
        <5>2. ~(i + 1 < j)
          BY <2>1, <3>2, <3>4, <5>1
        <5>3. QED
          BY <1>2, <3>4, <3>7, <5>2
      <4>2. t = s[j].temp
        BY <2>1, <3>2, <4>1
      <4>3. Line(s[j], s[j + 1], s[j].temp) = s[j].boost
        BY <3>2, <3>4, LineEnds
      <4>4. Line(s[i], s[j], s[j].temp) = s[j].boost
        BY <1>3, <3>4, <4>1, LineEnds
      <4>5. QED
        BY <3>3, <4>1, <4>2, <4>3, <4>4
    <3>8. QED
      BY <1>2, <3>4, <3>5, <3>6, <3>7
  <2>5. QED
    BY <2>2, <2>3, <2>4
<1>6. QED
  BY <1>2, <1>3, <1>4, <1>5

-----------------------------------------------------------------------------
(* The inductive invariant *)

USE HysteresisAssumption

\* What the fan holds, and that no reading since it was primed has been overtaken by
\* the temperature it is held for.
Held ==
  /\ primed <=> temp # NoTemp
  /\ ~primed => boost = 0
  /\ primed =>
       /\ heldTemp \in Temps /\ hottest \in Temps
       /\ boost = Interpolate(points, heldTemp)
       /\ boost >= Interpolate(points, temp)
       /\ heldTemp - temp <= hysteresis
       /\ heldTemp <= hottest

\* The side that is followed is what validateSide made of the one that was sent.
Followed == points = validateSide(sent)

IInv == TypeOK /\ Followed /\ Held

\* A side that is not accepted is followed as an empty one.
LEMMA SideIsOrdered ==
  ASSUME sent \in Sides, Followed
  PROVE  points \in Seq(Clamped) /\ points \in Seq(Points) /\ Ordered(points)
<1>1. points \in Seq(Clamped) /\ RisingTemps(points)
  <2>1. CASE points = Invalid
    <3>1. <<>> \in Seq(Clamped) /\ Len(<<>>) = 0
      OBVIOUS
    <3>2. RisingTemps(<<>>)
      BY <3>1 DEF RisingTemps
    <3>3. QED
      BY <2>1, <3>1, <3>2 DEF Invalid
  <2>2. CASE points # Invalid
    <3>1. sent \in Seq([temp : Int, boost : Int])
      OBVIOUS
    <3>2. QED
      BY <2>2, <3>1, AcceptedIsStable DEF Followed
  <2>3. QED
    BY <2>1, <2>2
<1>2. Clamped \subseteq Points
  <2>1. MinTemp .. MaxTemp \subseteq Int /\ MinBoost .. MaxBoost \subseteq Int
    BY DEF MinTemp, MaxTemp, MinBoost, MaxBoost
  <2>2. QED
    BY <2>1 DEF Clamped, Points
<1>3. points \in Seq(Points)
  BY <1>1, <1>2
<1>4. \A i \in 1 .. Len(points) : points[i].boost \in MinBoost .. MaxBoost
  <2>1. \A p \in Clamped : p.boost \in MinBoost .. MaxBoost
    BY DEF Clamped
  <2>2. QED
    BY <1>1, <2>1
<1>5. QED
  BY <1>1, <1>3, <1>4 DEF Ordered

LEMMA TargetInRange ==
  ASSUME IInv, NEW t \in Temps
  PROVE  Interpolate(points, t) \in Int /\ Interpolate(points, t) \in MinBoost .. MaxBoost
<1>1. points \in Seq(Points) /\ Ordered(points) /\ t \in Int
  BY SideIsOrdered DEF IInv, TypeOK
<1>2. QED
  BY <1>1, InterpolateInRange

LEMMA InitInv == Init => IInv
<1> SUFFICES ASSUME Init PROVE IInv
  OBVIOUS
<1>1. TypeOK
  <2>1. primed \in BOOLEAN
    BY Zenon DEF Init
  <2>2. boost \in MinBoost .. MaxBoost
    BY DEF Init, MinBoost, MaxBoost
  <2>3. heldTemp \in Temps \cup {0} /\ hottest \in Temps \cup {0}
    BY DEF Init
  <2>4. temp \in Temps \cup {NoTemp}
    BY DEF Init
  <2>5. sent \in Sides /\ hysteresis \in Hystereses
    BY DEF Init
  <2>6. points \in Seq([temp : MinTemp .. MaxTemp, boost : MinBoost .. MaxBoost])
    BY <2>5, SideIsOrdered DEF Init, Followed, Clamped
  <2>7. QED
    BY <2>1, <2>2, <2>3, <2>4, <2>5, <2>6, Zenon DEF TypeOK
<1>2. Held
  BY DEF Init, Held
<1>3. Followed
  BY DEF Init, Followed
<1>4. QED
  BY <1>1, <1>2, <1>3 DEF IInv

LEMMA StepInv == IInv /\ [Next]_vars => IInv'
<1> SUFFICES ASSUME IInv, [Next]_vars PROVE IInv'
  OBVIOUS
<1>1. CASE Readable
  <2>1. PICK t \in Temps : /\ Update(t)
                           /\ temp' = t
                           /\ hottest' = IF ~primed \/ boost' < boost \/ t > hottest
                                         THEN t ELSE hottest
                           /\ UNCHANGED <<sent, points, hysteresis>>
    BY <1>1 DEF Readable
  <2> DEFINE target == Interpolate(points, t)
  <2>2. target \in Int /\ target \in MinBoost .. MaxBoost /\ t \in Int /\ hysteresis \in Int
    BY TargetInRange DEF IInv, TypeOK
  <2>3. CASE Take(target, t)
    <3>1. TypeOK'
      BY <2>1, <2>2, <2>3 DEF IInv, TypeOK, Take, Update
    <3>2. heldTemp' <= hottest'
      BY <2>1, <2>2, <2>3 DEF IInv, TypeOK, Held, Take
    <3>3. Held'
      BY <2>1, <2>2, <2>3, <3>2 DEF IInv, TypeOK, Held, Take, Update
    <3>4. Followed'
      BY <2>1 DEF IInv, Followed
    <3>5. QED
      BY <3>1, <3>3, <3>4 DEF IInv
  <2>4. CASE Keep /\ primed /\ ~(target >= boost) /\ ~(heldTemp - t > hysteresis)
    <3>1. TypeOK'
      BY <2>1, <2>2, <2>4 DEF IInv, TypeOK, Keep, Update
    <3>2. heldTemp' <= hottest' /\ heldTemp' - t <= hysteresis
      BY <2>1, <2>2, <2>4 DEF IInv, TypeOK, Held, Keep
    <3>3. Held'
      BY <2>1, <2>2, <2>4, <3>2 DEF IInv, TypeOK, Held, Keep, Update
    <3>4. Followed'
      BY <2>1 DEF IInv, Followed
    <3>5. QED
      BY <3>1, <3>3, <3>4 DEF IInv
  <2>5. QED
    BY <2>1, <2>3, <2>4 DEF Update
<1>2. CASE Unreadable
  <2>1. TypeOK'
    <3>1. primed' \in BOOLEAN /\ UNCHANGED <<sent, points, hysteresis>>
      BY <1>2, Zenon DEF Unreadable
    <3>2. boost' \in MinBoost .. MaxBoost
      BY <1>2 DEF Unreadable, MinBoost, MaxBoost
    <3>3. heldTemp' \in Temps \cup {0} /\ hottest' \in Temps \cup {0}
      BY <1>2 DEF Unreadable
    <3>4. temp' \in Temps \cup {NoTemp}
      BY <1>2 DEF Unreadable
    <3>5. QED
      BY <3>1, <3>2, <3>3, <3>4 DEF IInv, TypeOK
  <2>2. Held'
    BY <1>2 DEF Unreadable, Held
  <2>3. Followed'
    BY <1>2 DEF IInv, Followed, Unreadable
  <2>4. QED
    BY <2>1, <2>2, <2>3 DEF IInv
<1>3. CASE UNCHANGED vars
  BY <1>3 DEF vars, IInv, TypeOK, Followed, Held
<1>4. QED
  BY <1>1, <1>2, <1>3 DEF Next

LEMMA Invariance == Spec => []IInv
  BY InitInv, StepInv, PTL DEF Spec

-----------------------------------------------------------------------------
(* The properties *)

\* The accepted side and the boost the tick writes are always within what the firmware
\* takes, whatever was sent (clampInt in normalizePoints and Interpolate).
THEOREM BoostInRange == Spec => []TypeOK
<1>1. IInv => TypeOK
  BY DEF IInv
<1>2. QED
  BY <1>1, Invariance, PTL

\* What fan.State holds is the curve's boost at a temperature at most the hysteresis
\* above the reading and never less than the curve asks for now; an unreadable sensor
\* gives 0 (State.Update and Reset under Service.tick).
THEOREM LagIsBounded == Spec => []WithinBand
<1>1. IInv => WithinBand
  BY DEF IInv, Held, WithinBand
<1>2. QED
  BY <1>1, Invariance, PTL

\* A fan that State.Update slows down has cooled by more than the hysteresis since it
\* was last slowed or primed.
THEOREM NeverChatters == Spec => NoChatter
<1>1. IInv /\ [Next]_vars =>
        [primed /\ primed' /\ boost' < boost => hottest - temp' > hysteresis]_vars
  <2> SUFFICES ASSUME IInv, Next, primed, primed', boost' < boost
               PROVE  hottest - temp' > hysteresis
    OBVIOUS
  <2>1. PICK t \in Temps : Update(t) /\ temp' = t
    BY DEF Next, Readable, Unreadable
  <2>2. Interpolate(points, t) \in Int
    BY TargetInRange DEF IInv
  <2>3. heldTemp - t > hysteresis
    BY <2>1, <2>2 DEF Update, Take, Keep, IInv, TypeOK
  <2>4. QED
    BY <2>1, <2>3 DEF IInv, TypeOK, Held
<1>2. QED
  BY <1>1, Invariance, PTL DEF Spec, NoChatter

\* On a curve whose boosts never fall the lag has two sides: the fan gets no more than
\* the curve asks for hysteresis degrees above the reading (State.Update).
THEOREM LagHasTwoSides == Spec => []RisingBand
<1>1. IInv => RisingBand
  <2> SUFFICES ASSUME IInv, NeverFalls(points), temp # NoTemp
               PROVE  boost \in Interpolate(points, temp) .. Interpolate(points, temp + hysteresis)
    BY DEF RisingBand, Rising
  <2>1. /\ sent \in Sides /\ Followed /\ temp \in Int /\ heldTemp \in Int /\ hysteresis \in Int
        /\ boost \in Int /\ boost = Interpolate(points, heldTemp) /\ boost >= Interpolate(points, temp)
        /\ heldTemp - temp <= hysteresis
    BY DEF IInv, TypeOK, Held
  <2>2. points \in Seq(Points) /\ Ordered(points)
    BY <2>1, SideIsOrdered
  <2>3. heldTemp <= temp + hysteresis /\ temp + hysteresis \in Int
    BY <2>1
  <2>4. Interpolate(points, heldTemp) <= Interpolate(points, temp + hysteresis)
    BY <2>1, <2>2, <2>3, InterpolateRises
  <2>5. Interpolate(points, temp) \in Int /\ Interpolate(points, temp + hysteresis) \in Int
    BY <2>1, <2>2, <2>3, InterpolateInRange
  <2>6. QED
    BY <2>1, <2>4, <2>5
<1>2. QED
  BY <1>1, Invariance, PTL

\* Interpolate goes through the points of any accepted side, and between two of them
\* stays between their boosts.
THEOREM CurveIsFollowed == Spec => []InterpolateFollowsThePoints
<1>1. IInv => InterpolateFollowsThePoints
  <2> SUFFICES ASSUME IInv PROVE InterpolateFollowsThePoints
    OBVIOUS
  <2> DEFINE last == Len(points)
  <2>1. points \in Seq(Points) /\ Ordered(points)
    BY SideIsOrdered DEF IInv, TypeOK
  <2>2. last \in Nat /\ \A n \in 1 .. last : Within(points[n]) /\ points[n].temp \in Int /\ points[n].boost \in Int
    <3>1. \A p \in Points : p.temp \in Int /\ p.boost \in Int
      BY DEF Points
    <3>2. last \in Nat /\ \A n \in 1 .. last : points[n] \in Points /\ points[n].boost \in MinBoost .. MaxBoost
      BY <2>1 DEF Ordered
    <3> HIDE DEF last
    <3>3. QED
      BY <3>1, <3>2 DEF Within
  <2>3. ASSUME NEW i \in 1 .. last
        PROVE  Interpolate(points, points[i].temp) = points[i].boost
    <3>1. CASE i # last
      <4>1. i \in 1 .. last - 1 /\ i + 1 \in 1 .. last
        BY <2>2, <3>1
      <4>2. /\ Within(points[i]) /\ Within(points[i + 1]) /\ points[i].temp < points[i + 1].temp
            /\ points[i].temp \in Int /\ points[i + 1].temp \in Int
        BY <2>1, <2>2, <4>1, NextIsHotter
      <4>3. points[i].temp <= points[i].temp /\ points[i].temp <= points[i + 1].temp
        BY <4>2
      <4>4. Interpolate(points, points[i].temp) = Line(points[i], points[i + 1], points[i].temp)
        BY <2>1, <4>1, <4>2, <4>3, OnTheLine
      <4>5. QED
        BY <4>2, <4>4, LineEnds
    <3>2. CASE i = last
      <4>1. last # 0 /\ 1 \in 1 .. last /\ points[last].temp \in Int /\ points[1].temp \in Int
        <5>1. last # 0 /\ 1 \in 1 .. last /\ last \in 1 .. last
          BY <2>2, <3>2
        <5>2. points[1].temp \in Int
          BY <2>2, <5>1
        <5>3. points[last].temp \in Int
          BY <2>2, <5>1
        <5>4. QED
          BY <5>1, <5>2, <5>3
      <4>2. ~(1 < last) => last = 1
        <5>1. last \in Nat
          BY <2>2
        <5> HIDE DEF last
        <5>2. QED
          BY <4>1, <5>1
      <4>3. 1 < last => points[1].temp < points[last].temp
        BY <2>1, <3>2, <4>1, TempsRise
      <4>4. CASE last = 1
        <5>1. points[last].temp <= points[1].temp /\ points[1].boost = points[last].boost
          BY <4>1, <4>4
        <5>2. QED
          BY <3>2, <4>1, <5>1 DEF Interpolate
      <4>5. CASE points[1].temp < points[last].temp
        <5>1. ~(points[last].temp <= points[1].temp) /\ points[last].temp >= points[last].temp
          BY <4>1, <4>5
        <5>2. QED
          BY <3>2, <4>1, <5>1 DEF Interpolate
      <4>6. QED
        BY <4>2, <4>3, <4>4, <4>5
    <3>3. QED
      BY <3>1, <3>2
  <2>4. ASSUME NEW i \in 1 .. last - 1, NEW t \in points[i].temp .. points[i + 1].temp
        PROVE  /\ Interpolate(points, t) \in Min({points[i].boost, points[i + 1].boost}) ..
                                             Max({points[i].boost, points[i + 1].boost})
               /\ (points[i].boost <= points[i + 1].boost /\ t > points[i].temp)
                    => Interpolate(points, t - 1) <= Interpolate(points, t)
    <3> DEFINE f == points[i].boost
               g == points[i + 1].boost
    <3>1. i \in 1 .. last /\ i + 1 \in 1 .. last
      BY <2>2
    <3>2. /\ Within(points[i]) /\ Within(points[i + 1]) /\ points[i].temp < points[i + 1].temp
          /\ points[i].temp \in Int /\ points[i + 1].temp \in Int /\ f \in Int /\ g \in Int
      BY <2>1, <2>2, <3>1, NextIsHotter
    <3>3. t \in Int /\ points[i].temp <= t /\ t <= points[i + 1].temp
      BY <3>2
    <3>4. /\ Interpolate(points, t) = Line(points[i], points[i + 1], t)
          /\ f <= g => Line(points[i], points[i + 1], t) \in f .. g
          /\ g <= f => Line(points[i], points[i + 1], t) \in g .. f
      BY <2>1, <3>3, OnTheLine
    <3>5. /\ f <= g => Min({f, g}) = f /\ Max({f, g}) = g
          /\ g <= f => Min({f, g}) = g /\ Max({f, g}) = f
      <4> HIDE DEF f, g
      <4>1. QED
        BY <3>2 DEF Min, Max
    <3>6. Interpolate(points, t) \in Min({f, g}) .. Max({f, g})
      <4>1. f <= g \/ g <= f
        BY <3>2
      <4>2. QED
        BY <3>4, <3>5, <4>1
    <3>7. ASSUME f <= g, t > points[i].temp PROVE Interpolate(points, t - 1) <= Interpolate(points, t)
      <4>1. t - 1 \in Int /\ points[i].temp <= t - 1 /\ t - 1 <= t /\ t - 1 <= points[i + 1].temp
        BY <3>2, <3>3, <3>7
      <4>2. Interpolate(points, t - 1) = Line(points[i], points[i + 1], t - 1)
        BY <2>1, <4>1, OnTheLine
      <4>3. Line(points[i], points[i + 1], t - 1) <= Line(points[i], points[i + 1], t)
        BY <3>2, <3>3, <3>7, <4>1, LineRises
      <4>4. QED
        BY <3>4, <4>2, <4>3
    <3>8. QED
      BY <3>6, <3>7
  <2>5. QED
    BY <2>3, <2>4 DEF InterpolateFollowsThePoints
<1>2. QED
  BY <1>1, Invariance, PTL

\* normalizePoints and validateSide make of any side what a curve is by definition: the
\* loudest boost asked for at each clamped temperature, in rising order, or no curve.
THEOREM SideIsItsDefinition == Spec => []SideIsByDefinition
<1>1. IInv => SideIsByDefinition
  <2> SUFFICES ASSUME IInv PROVE SideIsByDefinition
    OBVIOUS
  <2>1. sent \in Seq([temp : Int, boost : Int]) /\ points = validateSide(sent)
    BY DEF IInv, TypeOK, Followed
  <2>2. QED
    BY <2>1, DefinedSide
<1>2. QED
  BY <1>1, Invariance, PTL

\* A curve that Normalize has accepted is accepted again, unchanged, whatever interval
\* and hysteresis came with it: what Status shows can be sent back.
THEOREM AcceptedTwice == Spec => []NormalizeIsStable
<1>1. IInv => NormalizeIsStable
  <2> SUFFICES ASSUME IInv PROVE NormalizeIsStable
    OBVIOUS
  <2>1. sent \in Seq([temp : Int, boost : Int]) /\ points = validateSide(sent) /\ Numbers \subseteq Int
    BY DEF IInv, TypeOK, Followed
  <2>2. QED
    BY <2>1, StableCurve
<1>2. QED
  BY <1>1, Invariance, PTL

=============================================================================
