------------------------- MODULE PluginLightsProofs -------------------------
(***************************************************************************)
(* What is proved of the plugin's lights, for any regions and colours, any *)
(* number of requests, suspends and ticks, and whatever the commands do:   *)
(* the controller is opened by one process at a time, a waiting job is     *)
(* looked at again, coalescing never changes what the regions the plugin   *)
(* speaks for end up with, and lights that are off stay off.               *)
(***************************************************************************)
EXTENDS PluginLights, DataProofs

USE LightsAssumption

-----------------------------------------------------------------------------
(***************************************************************************)
(* Coalescing.  The loop of enqueue keeps the jobs of every other key, in  *)
(* their order; m says where each of the kept ones stood.                  *)
(***************************************************************************)

Sifted(q, key, n, g) ==
  g = [i \in 0..n |-> IF i = 0 THEN <<>>
                      ELSE IF QueueKey(q[i]) = key THEN g[i - 1] ELSE Append(g[i - 1], q[i])]

LEMMA SiftedExists ==
  ASSUME NEW q, NEW key, NEW n \in Nat
  PROVE  \E g : Sifted(q, key, n, g)
<1> DEFINE Q(m) == \E g : Sifted(q, key, m, g)
           T == {m \in Nat : ~Q(m)}
<1>1. SUFFICES ASSUME T # {} PROVE FALSE
  OBVIOUS
<1>2. PICK m \in T : \A y \in T : m <= y
  BY <1>1, LeastNat
<1>3. Q(0)
  <2>1. Sifted(q, key, 0, [i \in 0..0 |-> <<>>])
    BY DEF Sifted
  <2>2. QED
    BY <2>1
<1>4. m \in Nat \ {0} /\ m - 1 \in Nat /\ Q(m - 1)
  BY <1>2, <1>3
<1>5. PICK g : Sifted(q, key, m - 1, g)
  BY <1>4
<1> DEFINE step(i, p) == IF QueueKey(q[i]) = key THEN p ELSE Append(p, q[i])
           h == [i \in 0..m |-> IF i = m THEN step(m, g[m - 1]) ELSE g[i]]
<1>6. \A i \in 0..(m - 1) : g[i] = IF i = 0 THEN <<>> ELSE step(i, g[i - 1])
  BY <1>5 DEF Sifted
<1> HIDE DEF step
<1>7. \A i \in 0..m : h[i] = IF i = 0 THEN <<>> ELSE step(i, h[i - 1])
  <2>1. ASSUME NEW i \in 0..m, i # m PROVE h[i] = IF i = 0 THEN <<>> ELSE step(i, h[i - 1])
    <3>1. i \in 0..(m - 1) /\ (i # 0 => i - 1 \in 0..m /\ i - 1 # m)
      BY <1>4, <2>1
    <3>2. QED
      BY <1>6, <2>1, <3>1
  <2>2. h[m] = step(m, h[m - 1]) /\ m # 0
    <3>1. m \in 0..m /\ m - 1 \in 0..m /\ m - 1 # m /\ m # 0
      BY <1>4
    <3>2. QED
      BY <3>1
  <2>3. QED
    BY <2>1, <2>2
<1>8. h = [i \in 0..m |-> h[i]]
  OBVIOUS
<1> HIDE DEF h
<1>9. Sifted(q, key, m, h)
  BY <1>7, <1>8 DEF Sifted, step
<1>10. QED
  BY <1>2, <1>9

Kept(S, q, key, n, s, m) ==
  /\ s \in Seq(S) /\ m \in [1..Len(s) -> 1..n]
  /\ \A i \in 1..Len(s) : s[i] = q[m[i]] /\ QueueKey(q[m[i]]) # key
  /\ \A i, j \in 1..Len(s) : i < j => m[i] < m[j]
  /\ \A i \in 1..n : QueueKey(q[i]) # key => \E j \in 1..Len(s) : m[j] = i

\* One more job is dropped or kept.
LEMMA KeptMore ==
  ASSUME NEW S, NEW q, NEW key, NEW n \in Nat, NEW s, NEW m, Kept(S, q, key, n, s, m), q[n + 1] \in S
  PROVE  \E p : Kept(S, q, key, n + 1, IF QueueKey(q[n + 1]) = key THEN s ELSE Append(s, q[n + 1]), p)
<1>1. s \in Seq(S) /\ m \in [1..Len(s) -> 1..n] /\ Len(s) \in Nat
  BY DEF Kept
<1>2. CASE QueueKey(q[n + 1]) = key
  <2>1. m \in [1..Len(s) -> 1..(n + 1)]
    BY <1>1
  <2>2. ASSUME NEW i \in 1..(n + 1), QueueKey(q[i]) # key PROVE \E j \in 1..Len(s) : m[j] = i
    <3>1. i \in 1..n
      BY <1>2, <2>2
    <3>2. QED
      BY <2>2, <3>1 DEF Kept
  <2>3. Kept(S, q, key, n + 1, s, m)
    BY <2>1, <2>2 DEF Kept
  <2>4. QED
    BY <1>2, <2>3
<1>3. CASE QueueKey(q[n + 1]) # key
  <2> DEFINE t == Append(s, q[n + 1])
             L == Len(s)
             p == [i \in 1..(L + 1) |-> IF i = L + 1 THEN n + 1 ELSE m[i]]
  <2>1. t \in Seq(S) /\ Len(t) = L + 1 /\ t[L + 1] = q[n + 1] /\ \A i \in 1..L : t[i] = s[i]
    BY <1>1
  <2>2. L \in Nat /\ \A i \in 1..(L + 1) : i = L + 1 \/ i \in 1..L
    BY <1>1
  <2>3. p[L + 1] = n + 1 /\ \A i \in 1..L : p[i] = m[i] /\ m[i] \in 1..n
    BY <1>1
  <2>4. p \in [1..(L + 1) -> 1..(n + 1)]
    <3>1. \A i \in 1..(L + 1) : p[i] \in 1..(n + 1)
      BY <2>2, <2>3
    <3>2. p = [i \in 1..(L + 1) |-> p[i]]
      OBVIOUS
    <3> HIDE DEF p
    <3>3. QED
      BY <3>1, <3>2
  <2> HIDE DEF p, t
  <2>5. ASSUME NEW i \in 1..(L + 1) PROVE t[i] = q[p[i]] /\ QueueKey(q[p[i]]) # key
    BY <1>3, <2>1, <2>2, <2>3 DEF Kept
  <2>6. ASSUME NEW i \in 1..(L + 1), NEW j \in 1..(L + 1), i < j PROVE p[i] < p[j]
    <3>1. i \in 1..L
      BY <2>2, <2>6
    <3>2. CASE j = L + 1
      BY <2>3, <3>1, <3>2
    <3>3. CASE j \in 1..L
      BY <2>3, <2>6, <3>1, <3>3 DEF Kept
    <3>4. QED
      BY <2>2, <3>2, <3>3
  <2>7. ASSUME NEW i \in 1..(n + 1), QueueKey(q[i]) # key PROVE \E j \in 1..(L + 1) : p[j] = i
    <3>1. CASE i = n + 1
      <4>1. L + 1 \in 1..(L + 1)
        BY <2>2
      <4>2. QED
        BY <2>3, <3>1, <4>1
    <3>2. CASE i # n + 1
      <4>1. i \in 1..n
        BY <3>2
      <4>2. PICK j \in 1..L : m[j] = i
        BY <2>7, <4>1 DEF Kept
      <4>3. j \in 1..(L + 1)
        BY <2>2
      <4>4. QED
        BY <2>3, <4>2, <4>3
    <3>3. QED
      BY <3>1, <3>2
  <2>8. Kept(S, q, key, n + 1, t, p)
    BY <2>1, <2>4, <2>5, <2>6, <2>7 DEF Kept
  <2>9. QED
    BY <1>3, <2>8 DEF t
<1>4. QED
  BY <1>2, <1>3

\* What Coalesce returns: the kept jobs and the new one.
LEMMA Coalesced ==
  ASSUME NEW S, NEW q \in Seq(S), NEW job \in S
  PROVE  \E s, m : Kept(S, q, QueueKey(job), Len(q), s, m) /\ Coalesce(q, job) = Append(s, job)
<1> DEFINE key == QueueKey(job)
           n == Len(q)
           next[i \in 0..n] == IF i = 0 THEN <<>>
                               ELSE IF QueueKey(q[i]) = QueueKey(job) THEN next[i - 1] ELSE Append(next[i - 1], q[i])
<1>1. Coalesce(q, job) = Append(next[n], job)
  BY DEF Coalesce
<1>2. next = CHOOSE g : g = [i \in 0..n |-> IF i = 0 THEN <<>>
                             ELSE IF QueueKey(q[i]) = QueueKey(job) THEN g[i - 1] ELSE Append(g[i - 1], q[i])]
  BY DEF next
<1>3. n \in Nat /\ \A i \in 1..n : q[i] \in S
  OBVIOUS
<1> HIDE DEF next
<1>4. Sifted(q, key, n, next)
  <2>1. PICK g : Sifted(q, QueueKey(job), n, g)
    BY <1>3, SiftedExists
  <2> HIDE DEF n
  <2>2. \E h : h = [i \in 0..n |-> IF i = 0 THEN <<>>
                       ELSE IF QueueKey(q[i]) = QueueKey(job) THEN h[i - 1] ELSE Append(h[i - 1], q[i])]
    BY <2>1 DEF Sifted
  <2>3. QED
    BY <1>2, <2>2 DEF Sifted
<1> HIDE DEF n, key
<1>5. \A i \in 0..n : next[i] = IF i = 0 THEN <<>>
                                ELSE IF QueueKey(q[i]) = key THEN next[i - 1] ELSE Append(next[i - 1], q[i])
  BY <1>4 DEF Sifted
<1> DEFINE Q(i) == \E m : Kept(S, q, key, i, next[i], m)
           T == {i \in 0..n : ~Q(i)}
<1>6. T = {}
  <2>1. SUFFICES ASSUME T # {} PROVE FALSE
    OBVIOUS
  <2>2. PICK k \in T : \A y \in T : k <= y
    <3>1. T \in SUBSET Nat
      BY <1>3
    <3> HIDE DEF T
    <3>2. QED
      BY <2>1, <3>1, LeastNat
  <2>3. Q(0)
    <3>1. next[0] = <<>>
      BY <1>3, <1>5
    <3>2. Kept(S, q, key, 0, <<>>, [i \in 1..0 |-> 1])
      <4>1. <<>> \in Seq(S) /\ Len(<<>>) = 0 /\ 1..0 = {}
        OBVIOUS
      <4>2. QED
        BY <4>1 DEF Kept
    <3>3. QED
      BY <3>1, <3>2
  <2>4. k \in 1..n /\ k - 1 \in 0..n /\ (k - 1) + 1 = k /\ k - 1 \in Nat /\ k # 0
    BY <1>3, <2>2, <2>3
  <2>5. Q(k - 1)
    BY <2>2, <2>4
  <2>6. PICK m : Kept(S, q, key, k - 1, next[k - 1], m)
    BY <2>5
  <2>7. q[k] \in S
    BY <1>3, <2>4
  <2>8. \E p : Kept(S, q, key, k, IF QueueKey(q[k]) = key THEN next[k - 1] ELSE Append(next[k - 1], q[k]), p)
    <3>1. q[(k - 1) + 1] \in S
      BY <2>4, <2>7
    <3>2. \E p : Kept(S, q, key, (k - 1) + 1, IF QueueKey(q[(k - 1) + 1]) = key THEN next[k - 1] ELSE Append(next[k - 1], q[(k - 1) + 1]), p)
      BY <2>4, <2>6, <3>1, KeptMore
    <3>3. QED
      BY <2>4, <3>2
  <2>9. next[k] = IF QueueKey(q[k]) = key THEN next[k - 1] ELSE Append(next[k - 1], q[k])
    BY <1>3, <1>5, <2>4
  <2>10. QED
    BY <2>2, <2>8, <2>9
<1>7. n \in 0..n
  BY <1>3
<1>8. QED
  BY <1>1, <1>6, <1>7 DEF n, key

-----------------------------------------------------------------------------
(***************************************************************************)
(* The queue.                                                              *)
(***************************************************************************)

JobSet == {job \in LightJobs : job.dev \in Lamps \cup {"rgb"}}

\* Off is the job that blanks a whole lamp.
Blank(job) == job.verb = "off" => job.val = AllDark
KeysApart(q) == \A i, j \in DOMAIN q : QueueKey(q[i]) = QueueKey(q[j]) => i = j
QueueOf(q) == q \in Seq(JobSet) /\ KeysApart(q) /\ \A i \in DOMAIN q : Blank(q[i])

IsElc(e) ==
  e = [queue |-> e.queue, writing |-> e.writing, reading |-> e.reading, pending |-> e.pending, retry |-> e.retry]

Sound(e) ==
  /\ IsElc(e)
  /\ QueueOf(e.queue)
  /\ e.writing \in JobSet \cup {None}
  /\ e.reading \in {"no", "ready", "absent"} /\ e.pending \in BOOLEAN /\ e.retry \in BOOLEAN
  /\ e.reading = "no" \/ e.writing = None

ElcOK(e) == Sound(e) /\ (e.pending => e.retry)

Pumped(e) == e.queue # <<>> => e.writing # None \/ e.reading # "no" \/ e.retry

\* A job's key is its device and verb, which tell whether it paints a lamp.
LEMMA JobFacts ==
  ASSUME NEW job \in JobSet
  PROVE  /\ job # None /\ QueueKey(job) = <<job.dev, job.verb>>
         /\ job.dev \in {"rgb", "kbd"} /\ job.dev \in Lamps \cup {"rgb"}
         /\ job.verb \in {"set-map", "off", "brightness"}
         /\ DOMAIN job.val \subseteq Regions /\ \A r \in DOMAIN job.val : job.val[r] \in Hues
         /\ DOMAIN job.val = Regions => job.verb # "brightness"
<1>1. job \in LightJobs
  BY DEF JobSet
<1>2. job # None
  BY <1>1
<1>3. job.verb \in {"set-map", "off", "brightness"} /\ job.dev \in {"rgb", "kbd"}
  BY <1>1 DEF LightJobs
<1>4. \/ job.verb # "brightness" /\ job.val \in PartialMaps(Hues)
      \/ job.val = Nothing
  BY <1>1 DEF LightJobs
<1>5. DOMAIN Nothing = {}
  BY DEF Nothing
<1>6. QueueKey(job) = <<job.dev, job.verb>>
  BY <1>3 DEF QueueKey
<1>7. CASE job.verb # "brightness" /\ job.val \in PartialMaps(Hues)
  <2>1. PICK R \in SUBSET Regions : job.val \in [R -> Hues]
    BY <1>7 DEF PartialMaps
  <2>2. QED
    BY <1>2, <1>3, <1>6, <1>7, <2>1 DEF JobSet
<1>8. CASE job.val = Nothing
  <2>1. DOMAIN job.val = {} /\ Regions # {}
    BY <1>5, <1>8
  <2>2. QED
    BY <1>2, <1>3, <1>6, <2>1 DEF JobSet
<1>9. QED
  BY <1>4, <1>7, <1>8

LEMMA SameKey ==
  ASSUME NEW i \in JobSet, NEW j \in JobSet, QueueKey(i) = QueueKey(j)
  PROVE  i.dev = j.dev /\ i.verb = j.verb
  BY JobFacts

\* Coalesce, once more: the new queue c has the new job at its end, and before it
\* the jobs of the other keys in their order.
Moved(q, job, c, L, m) ==
  /\ L \in Nat /\ c \in Seq(JobSet) /\ Len(c) = L + 1 /\ c[L + 1] = job
  /\ m \in [1..L -> 1..Len(q)]
  /\ \A i \in 1..L : c[i] = q[m[i]] /\ QueueKey(q[m[i]]) # QueueKey(job)
  /\ \A i, j \in 1..L : i < j => m[i] < m[j]
  /\ \A i \in 1..Len(q) : QueueKey(q[i]) # QueueKey(job) => \E j \in 1..L : m[j] = i

LEMMA CoalesceMoves ==
  ASSUME NEW q \in Seq(JobSet), NEW job \in JobSet
  PROVE  \E L, m : Moved(q, job, Coalesce(q, job), L, m)
<1>1. PICK s, m : Kept(JobSet, q, QueueKey(job), Len(q), s, m) /\ Coalesce(q, job) = Append(s, job)
  BY Coalesced
<1> DEFINE c == Append(s, job)
           L == Len(s)
<1>2. s \in Seq(JobSet)
  BY <1>1 DEF Kept
<1>3. L \in Nat /\ c \in Seq(JobSet) /\ Len(c) = L + 1 /\ c[L + 1] = job /\ \A i \in 1..L : c[i] = s[i]
  BY <1>2
<1> HIDE DEF c
<1>4. Moved(q, job, c, L, m)
  BY <1>1, <1>3 DEF Moved, Kept
<1>5. QED
  BY <1>1, <1>4 DEF c

LEMMA CoalesceOK ==
  ASSUME NEW q, QueueOf(q), NEW job \in JobSet, Blank(job)
  PROVE  QueueOf(Coalesce(q, job)) /\ Coalesce(q, job) # <<>>
<1> DEFINE c == Coalesce(q, job)
<1>0. q \in Seq(JobSet)
  BY DEF QueueOf
<1>1. PICK L, m : Moved(q, job, c, L, m)
  BY <1>0, CoalesceMoves
<1> HIDE DEF c
<1>2. /\ L \in Nat /\ c \in Seq(JobSet) /\ Len(c) = L + 1 /\ c[L + 1] = job
      /\ DOMAIN c = 1..(L + 1) /\ DOMAIN q = 1..Len(q) /\ (\A i \in 1..(L + 1) : i = L + 1 \/ i \in 1..L)
      /\ c # <<>>
  BY <1>0, <1>1 DEF Moved
<1>3. \A i \in 1..L : m[i] \in DOMAIN q /\ c[i] = q[m[i]] /\ QueueKey(q[m[i]]) # QueueKey(job)
  BY <1>1, <1>2 DEF Moved
<1>4. ASSUME NEW i \in 1..L, NEW j \in 1..L, m[i] = m[j] PROVE i = j
  <2>1. ~(i < j) /\ ~(j < i)
    <3>1. m[i] \in Nat /\ m[j] \in Nat
      BY <1>2, <1>3
    <3>2. (i < j => m[i] < m[j]) /\ (j < i => m[j] < m[i])
      BY <1>1 DEF Moved
    <3>3. QED
      BY <1>4, <3>1, <3>2
  <2>2. i \in Nat /\ j \in Nat
    BY <1>2
  <2>3. QED
    BY <2>1, <2>2
<1>5. ASSUME NEW i \in 1..(L + 1), NEW j \in 1..(L + 1), QueueKey(c[i]) = QueueKey(c[j]) PROVE i = j
  <2>1. CASE i \in 1..L /\ j \in 1..L
    <3>1. m[i] = m[j]
      BY <1>3, <1>5, <2>1 DEF QueueOf, KeysApart
    <3>2. QED
      BY <1>4, <2>1, <3>1
  <2>2. QED
    BY <1>2, <1>3, <1>5, <2>1
<1>6. \A i \in 1..(L + 1) : Blank(c[i])
  BY <1>2, <1>3 DEF QueueOf
<1>7. KeysApart(c)
  BY <1>2, <1>5 DEF KeysApart
<1>8. QED
  BY <1>2, <1>6, <1>7 DEF QueueOf, c

-----------------------------------------------------------------------------
(***************************************************************************)
(* What the queue will come to for a lamp l that shows sh, and lost the    *)
(* last write to the regions in tr.  Settles, for the regions C that the   *)
(* plugin speaks for: a is what the last waiting job that names a region   *)
(* says of it, else what the running write says, else what the lamp shows. *)
(* Darkens, while the lights are off: no waiting job lights the lamp but   *)
(* one with the off job behind it.                                         *)
(***************************************************************************)
Blackens(job) == \A r \in DOMAIN job.val : job.val[r] = Dark
NamedIn(q, l, r) == {i \in DOMAIN q : Names(q[i], l, r)}
OffsIn(q, l) == {i \in DOMAIN q : q[i].dev = l /\ q[i].verb = "off"}
LastToName(q, l, r, i) == i \in NamedIn(q, l, r) /\ \A j \in NamedIn(q, l, r) : j <= i

Settles(q, w, l, C, a, sh, tr) ==
  \A r \in C :
    /\ \A i \in DOMAIN q : LastToName(q, l, r, i) => q[i].val[r] = a[r]
    /\ NamedIn(q, l, r) = {} =>
         IF w # None /\ Names(w, l, r) THEN w.val[r] = a[r] ELSE r \notin tr => sh[r] = a[r]

Darkens(q, w, l, sh, tr) ==
  /\ \A i \in DOMAIN q : Paints(q[i], l) => Blackens(q[i]) \/ \E k \in OffsIn(q, l) : k > i
  /\ OffsIn(q, l) = {} =>
       /\ w # None /\ Paints(w, l) => Blackens(w)
       /\ \A r \in Regions : ~(w # None /\ Names(w, l, r)) /\ r \notin tr => sh[r] = Dark

\* A job of another lamp, or one that paints nothing, changes nothing for l.
LEMMA CoalesceOther ==
  ASSUME NEW q, QueueOf(q), NEW job \in JobSet, NEW l, ~Paints(job, l),
         NEW w, NEW C, NEW a, NEW sh, NEW tr
  PROVE  /\ Settles(q, w, l, C, a, sh, tr) => Settles(Coalesce(q, job), w, l, C, a, sh, tr)
         /\ Darkens(q, w, l, sh, tr) => Darkens(Coalesce(q, job), w, l, sh, tr)
<1> DEFINE c == Coalesce(q, job)
<1>0. q \in Seq(JobSet)
  BY DEF QueueOf
<1>1. PICK L, m : Moved(q, job, c, L, m)
  BY <1>0, CoalesceMoves
<1> HIDE DEF c
<1>2. /\ L \in Nat /\ c \in Seq(JobSet) /\ Len(c) = L + 1 /\ c[L + 1] = job
      /\ DOMAIN c = 1..(L + 1) /\ DOMAIN q = 1..Len(q) /\ (\A i \in 1..(L + 1) : i = L + 1 \/ i \in 1..L)
      /\ (\A i \in 1..L : i \in DOMAIN c /\ i \in Nat) /\ (\A i \in DOMAIN q : q[i] \in JobSet /\ i \in Nat)
  BY <1>0, <1>1 DEF Moved
<1>3. \A i \in 1..L : m[i] \in DOMAIN q /\ c[i] = q[m[i]]
  BY <1>1, <1>2 DEF Moved
<1>4. ASSUME NEW k \in DOMAIN q, Paints(q[k], l) PROVE \E i \in 1..L : m[i] = k
  <2>1. QueueKey(q[k]) # QueueKey(job)
    BY <1>2, <1>4, SameKey DEF Paints
  <2>2. QED
    BY <1>1, <1>2, <2>1 DEF Moved
<1>5. ASSUME NEW i \in 1..L, NEW j \in 1..L PROVE (i <= j => m[i] <= m[j]) /\ (m[i] < m[j] => i < j)
  <2>1. m[i] \in Nat /\ m[j] \in Nat /\ i \in Nat /\ j \in Nat
    BY <1>2, <1>3
  <2>2. (i < j => m[i] < m[j]) /\ (j < i => m[j] < m[i])
    BY <1>1 DEF Moved
  <2>3. i = j => m[i] = m[j]
    OBVIOUS
  <2>4. QED
    BY <2>1, <2>2, <2>3
<1>6. ASSUME NEW i \in DOMAIN c, Paints(c[i], l) PROVE i \in 1..L
  BY <1>2, <1>6
<1>7. ASSUME Settles(q, w, l, C, a, sh, tr) PROVE Settles(c, w, l, C, a, sh, tr)
  <2> SUFFICES ASSUME NEW r \in C
               PROVE  /\ \A i \in DOMAIN c : LastToName(c, l, r, i) => c[i].val[r] = a[r]
                      /\ NamedIn(c, l, r) = {} => NamedIn(q, l, r) = {}
    BY <1>7 DEF Settles
  <2>1. ASSUME NEW i \in DOMAIN c, LastToName(c, l, r, i) PROVE c[i].val[r] = a[r]
    <3>1. i \in 1..L /\ Names(c[i], l, r)
      BY <1>6, <2>1 DEF LastToName, NamedIn, Names
    <3>2. m[i] \in NamedIn(q, l, r)
      BY <1>3, <3>1 DEF NamedIn
    <3>3. ASSUME NEW k \in NamedIn(q, l, r) PROVE k <= m[i]
      <4>1. PICK j \in 1..L : m[j] = k
        BY <1>4 DEF NamedIn, Names
      <4>2. j \in NamedIn(c, l, r)
        BY <1>2, <1>3, <4>1 DEF NamedIn
      <4>3. QED
        BY <1>5, <2>1, <3>1, <4>1, <4>2 DEF LastToName
    <3>4. LastToName(q, l, r, m[i])
      BY <3>2, <3>3 DEF LastToName
    <3>5. QED
      BY <1>3, <1>7, <3>1, <3>4 DEF Settles
  <2>2. ASSUME NamedIn(c, l, r) = {}, NEW k \in NamedIn(q, l, r) PROVE FALSE
    <3>1. PICK j \in 1..L : m[j] = k
      BY <1>4, <2>2 DEF NamedIn, Names
    <3>2. j \in NamedIn(c, l, r)
      BY <1>2, <1>3, <2>2, <3>1 DEF NamedIn
    <3>3. QED
      BY <2>2, <3>2
  <2>3. QED
    BY <2>1, <2>2
<1>8. ASSUME NEW k \in OffsIn(q, l) PROVE \E j \in 1..L : m[j] = k /\ j \in OffsIn(c, l)
  <2>1. Paints(q[k], l) /\ k \in DOMAIN q
    BY DEF OffsIn, Paints
  <2>2. PICK j \in 1..L : m[j] = k
    BY <1>4, <2>1
  <2>3. QED
    BY <1>2, <1>3, <2>2 DEF OffsIn
<1>9. ASSUME Darkens(q, w, l, sh, tr) PROVE Darkens(c, w, l, sh, tr)
  <2>1. ASSUME NEW i \in DOMAIN c, Paints(c[i], l), ~Blackens(c[i]) PROVE \E k \in OffsIn(c, l) : k > i
    <3>1. i \in 1..L
      BY <1>6, <2>1
    <3>2. PICK k \in OffsIn(q, l) : k > m[i]
      BY <1>3, <1>9, <2>1, <3>1 DEF Darkens
    <3>3. PICK j \in 1..L : m[j] = k /\ j \in OffsIn(c, l)
      BY <1>8
    <3>4. i < j
      <4>1. m[i] < m[j]
        <5>1. m[i] \in Nat /\ k \in Nat
          BY <1>2, <1>3, <3>1 DEF OffsIn
        <5>2. QED
          BY <3>2, <3>3, <5>1
      <4>2. QED
        BY <1>5, <3>1, <4>1
    <3>5. i \in Nat /\ j \in Nat
      BY <3>1, <3>3
    <3>6. QED
      BY <3>3, <3>4, <3>5
  <2>2. OffsIn(c, l) = {} => OffsIn(q, l) = {}
    BY <1>8
  <2>3. QED
    BY <1>9, <2>1, <2>2 DEF Darkens
<1>10. QED
  BY <1>7, <1>9 DEF c

\* A job that names all of C settles it; off darkens the lamp, and what blackens
\* keeps it dark.
LEMMA CoalesceOwn ==
  ASSUME NEW q, QueueOf(q), NEW job \in JobSet, NEW l, Paints(job, l), Blank(job),
         NEW w, NEW C, C \subseteq Regions, NEW a, NEW sh, NEW tr
  PROVE  /\ C \subseteq DOMAIN job.val => Settles(Coalesce(q, job), w, l, C, Painted(job.val, a), sh, tr)
         /\ job.verb = "off" => Darkens(Coalesce(q, job), w, l, sh, tr)
         /\ Darkens(q, w, l, sh, tr) /\ Blackens(job) => Darkens(Coalesce(q, job), w, l, sh, tr)
<1> DEFINE c == Coalesce(q, job)
<1>0. q \in Seq(JobSet)
  BY DEF QueueOf
<1>1. PICK L, m : Moved(q, job, c, L, m)
  BY <1>0, CoalesceMoves
<1> HIDE DEF c
<1>2. /\ L \in Nat /\ c \in Seq(JobSet) /\ Len(c) = L + 1 /\ c[L + 1] = job
      /\ DOMAIN c = 1..(L + 1) /\ DOMAIN q = 1..Len(q) /\ (\A i \in 1..(L + 1) : i = L + 1 \/ i \in 1..L)
      /\ (\A i \in 1..L : i \in DOMAIN c /\ i \in Nat) /\ L + 1 \in DOMAIN c
      /\ (\A i \in DOMAIN q : q[i] \in JobSet /\ i \in Nat) /\ \A i \in DOMAIN c : i \in Nat /\ i <= L + 1
  BY <1>0, <1>1 DEF Moved
<1>3. \A i \in 1..L : m[i] \in DOMAIN q /\ c[i] = q[m[i]]
  BY <1>1, <1>2 DEF Moved
<1>4. ASSUME C \subseteq DOMAIN job.val PROVE Settles(c, w, l, C, Painted(job.val, a), sh, tr)
  <2> SUFFICES ASSUME NEW r \in C
               PROVE  /\ \A i \in DOMAIN c : LastToName(c, l, r, i) => c[i].val[r] = Painted(job.val, a)[r]
                      /\ NamedIn(c, l, r) # {}
    BY DEF Settles
  <2>1. L + 1 \in NamedIn(c, l, r)
    BY <1>2, <1>4 DEF NamedIn, Names
  <2>2. Painted(job.val, a)[r] = job.val[r]
    BY <1>4 DEF Painted
  <2>3. ASSUME NEW i \in DOMAIN c, LastToName(c, l, r, i) PROVE i = L + 1
    <3>1. L + 1 <= i
      BY <2>1, <2>3 DEF LastToName
    <3>2. QED
      BY <1>2, <3>1
  <2>4. QED
    BY <1>2, <2>1, <2>2, <2>3
<1>5. ASSUME job.verb = "off" PROVE Darkens(c, w, l, sh, tr)
  <2>1. L + 1 \in OffsIn(c, l)
    BY <1>2, <1>5 DEF OffsIn, Paints
  <2>2. Blackens(job)
    BY <1>5 DEF Blank, Blackens, AllDark
  <2>3. ASSUME NEW i \in DOMAIN c, ~Blackens(c[i]) PROVE \E k \in OffsIn(c, l) : k > i
    <3>1. i \in 1..L
      BY <1>2, <2>2, <2>3
    <3>2. L + 1 > i
      BY <1>2, <3>1
    <3>3. QED
      BY <2>1, <3>2
  <2>4. QED
    BY <2>1, <2>3 DEF Darkens
<1>6. ASSUME Darkens(q, w, l, sh, tr), Blackens(job), job.verb # "off" PROVE Darkens(c, w, l, sh, tr)
  <2>1. ASSUME NEW k \in OffsIn(q, l) PROVE \E j \in 1..L : m[j] = k /\ j \in OffsIn(c, l)
    <3>1. k \in DOMAIN q /\ QueueKey(q[k]) # QueueKey(job)
      BY <1>2, <1>6, SameKey DEF OffsIn
    <3>2. PICK j \in 1..L : m[j] = k
      BY <1>1, <1>2, <3>1 DEF Moved
    <3>3. QED
      BY <1>2, <1>3, <3>2 DEF OffsIn
  <2>2. ASSUME NEW i \in DOMAIN c, Paints(c[i], l), ~Blackens(c[i]) PROVE \E k \in OffsIn(c, l) : k > i
    <3>1. i \in 1..L
      BY <1>2, <1>6, <2>2
    <3>2. PICK k \in OffsIn(q, l) : k > m[i]
      BY <1>3, <1>6, <2>2, <3>1 DEF Darkens
    <3>3. PICK j \in 1..L : m[j] = k /\ j \in OffsIn(c, l)
      BY <2>1
    <3>4. m[i] \in Nat /\ k \in Nat /\ i \in Nat /\ j \in Nat
      BY <1>2, <1>3, <3>1, <3>3 DEF OffsIn
    <3>5. (j < i => m[j] < m[i]) /\ (j = i => m[j] = m[i])
      BY <1>1, <3>1, <3>3 DEF Moved
    <3>6. j > i
      BY <3>2, <3>3, <3>4, <3>5
    <3>7. QED
      BY <3>3, <3>6
  <2>3. OffsIn(c, l) = {} => OffsIn(q, l) = {}
    BY <2>1
  <2>4. QED
    BY <1>6, <2>2, <2>3 DEF Darkens
<1>7. QED
  BY <1>4, <1>5, <1>6 DEF c

-----------------------------------------------------------------------------
(***************************************************************************)
(* The pump.                                                               *)
(***************************************************************************)

\* It starts the first job, or leaves the queue and the processes alone.
Starts(e, p) ==
  /\ e.writing = None /\ e.queue # <<>> /\ p.queue = Tail(e.queue) /\ p.writing = Head(e.queue)

LEMMA RestOK ==
  ASSUME NEW q, QueueOf(q), q # <<>>
  PROVE  /\ QueueOf(Tail(q)) /\ Head(q) \in JobSet /\ Blank(Head(q)) /\ Head(q) = q[1]
         /\ DOMAIN Tail(q) = 1..(Len(q) - 1) /\ DOMAIN q = 1..Len(q) /\ Len(q) \in Nat \ {0}
         /\ \A i \in DOMAIN Tail(q) : i \in Nat /\ i + 1 \in DOMAIN q /\ i + 1 # 1 /\ Tail(q)[i] = q[i + 1]
<1>1. q \in Seq(JobSet)
  BY DEF QueueOf
<1>2. /\ Tail(q) \in Seq(JobSet) /\ Head(q) = q[1] /\ Len(q) \in Nat \ {0}
      /\ DOMAIN Tail(q) = 1..(Len(q) - 1) /\ DOMAIN q = 1..Len(q) /\ 1 \in DOMAIN q
      /\ \A i \in 1..(Len(q) - 1) : Tail(q)[i] = q[i + 1] /\ i + 1 \in 1..Len(q) /\ i \in Nat /\ i + 1 # 1
  BY <1>1
<1>3. q[1] \in JobSet /\ Blank(q[1])
  BY <1>1, <1>2 DEF QueueOf
<1>4. \A i \in DOMAIN Tail(q) : Blank(Tail(q)[i])
  BY <1>2 DEF QueueOf
<1>5. KeysApart(Tail(q))
  <2> SUFFICES ASSUME NEW i \in DOMAIN Tail(q), NEW j \in DOMAIN Tail(q), QueueKey(Tail(q)[i]) = QueueKey(Tail(q)[j])
               PROVE  i = j
    BY DEF KeysApart
  <2>1. i + 1 = j + 1
    BY <1>2 DEF QueueOf, KeysApart
  <2>2. QED
    BY <1>2, <2>1
<1>6. QED
  BY <1>2, <1>3, <1>4, <1>5 DEF QueueOf

LEMMA PumpOK ==
  ASSUME NEW e, ElcOK(e)
  PROVE  /\ ElcOK(Pump(e)) /\ Pumped(Pump(e))
         /\ Pump(e).reading = e.reading /\ Pump(e).pending = e.pending
         /\ (Pump(e).queue = e.queue /\ Pump(e).writing = e.writing) \/ Starts(e, Pump(e))
<1>1. CASE ElcWriteAction(e) = "start"
  <2> DEFINE p == [e EXCEPT !.writing = Head(e.queue), !.queue = Tail(@)]
  <2>1. Pump(e) = p
    BY <1>1 DEF Pump
  <2>2. e.writing = None /\ e.queue # <<>> /\ e.reading = "no"
    BY <1>1 DEF ElcWriteAction
  <2>3. IsElc(e)
    BY DEF ElcOK, Sound
  <2>4. p = [e EXCEPT !.writing = Head(e.queue), !.queue = Tail(e.queue)]
    OBVIOUS
  <2>5. QueueOf(e.queue)
    BY DEF ElcOK, Sound
  <2>6. QueueOf(Tail(e.queue)) /\ Head(e.queue) \in JobSet
    BY <2>2, <2>5, RestOK
  <2> HIDE DEF p
  <2>7. /\ IsElc(p) /\ p.queue = Tail(e.queue) /\ p.writing = Head(e.queue) /\ p.reading = e.reading
        /\ p.pending = e.pending /\ p.retry = e.retry
    BY <2>3, <2>4 DEF IsElc
  <2>8. p.writing # None
    BY <2>6, <2>7, JobFacts
  <2>9. ElcOK(p) /\ Pumped(p) /\ Starts(e, p)
    BY <2>2, <2>6, <2>7, <2>8 DEF ElcOK, Sound, Pumped, Starts
  <2>10. QED
    BY <2>1, <2>7, <2>9
<1>2. CASE ElcWriteAction(e) = "defer"
  <2> DEFINE p == [e EXCEPT !.retry = TRUE]
  <2>1. Pump(e) = p
    BY <1>2 DEF Pump
  <2>2. e.reading # "no"
    BY <1>2 DEF ElcWriteAction
  <2>3. IsElc(e)
    BY DEF ElcOK, Sound
  <2>4. p = [e EXCEPT !.retry = TRUE]
    OBVIOUS
  <2> HIDE DEF p
  <2>5. /\ IsElc(p) /\ p.queue = e.queue /\ p.writing = e.writing /\ p.reading = e.reading
        /\ p.pending = e.pending /\ p.retry = TRUE
    BY <2>3, <2>4 DEF IsElc
  <2>6. QED
    BY <2>1, <2>2, <2>5 DEF ElcOK, Sound, Pumped
<1>3. CASE ElcWriteAction(e) \notin {"start", "defer"}
  <2>1. Pump(e) = e
    BY <1>3 DEF Pump
  <2>2. e.writing # None \/ e.queue = <<>>
    BY <1>3 DEF ElcWriteAction
  <2>3. QED
    BY <2>1, <2>2 DEF Pumped
<1>4. QED
  BY <1>1, <1>2, <1>3

\* A job that starts says what it said while it waited.
LEMMA StartKeeps ==
  ASSUME NEW q, QueueOf(q), q # <<>>, NEW l, NEW C, NEW a, NEW sh, NEW tr
  PROVE  /\ Settles(q, None, l, C, a, sh, tr) => Settles(Tail(q), Head(q), l, C, a, sh, tr)
         /\ Darkens(q, None, l, sh, tr) => Darkens(Tail(q), Head(q), l, sh, tr)
<1> DEFINE t == Tail(q)
           h == Head(q)
<1>1. /\ h = q[1] /\ h \in JobSet /\ Blank(h) /\ h # None /\ DOMAIN t = 1..(Len(q) - 1) /\ DOMAIN q = 1..Len(q)
      /\ \A i \in DOMAIN t : i \in Nat /\ i + 1 \in DOMAIN q /\ i + 1 # 1 /\ t[i] = q[i + 1]
  BY RestOK, JobFacts
<1>2. Len(q) \in Nat \ {0}
  BY RestOK
<1> HIDE DEF t, h
<1>3. \A k \in DOMAIN q : k \in Nat /\ (k = 1 \/ (k - 1 \in DOMAIN t /\ t[k - 1] = q[k]))
  <2>1. ASSUME NEW k \in DOMAIN q, k # 1 PROVE k - 1 \in DOMAIN t /\ k \in Nat /\ (k - 1) + 1 = k
    BY <1>1, <1>2, <2>1
  <2>2. QED
    BY <1>1, <1>2, <2>1
<1>4. 1 \in DOMAIN q
  BY <1>1, <1>2
<1>5. ASSUME Settles(q, None, l, C, a, sh, tr) PROVE Settles(t, h, l, C, a, sh, tr)
  <2> SUFFICES ASSUME NEW r \in C
               PROVE  /\ \A i \in DOMAIN t : LastToName(t, l, r, i) => t[i].val[r] = a[r]
                      /\ NamedIn(t, l, r) = {} =>
                           IF h # None /\ Names(h, l, r) THEN h.val[r] = a[r] ELSE r \notin tr => sh[r] = a[r]
    BY DEF Settles
  <2>0. /\ \A i \in DOMAIN q : LastToName(q, l, r, i) => q[i].val[r] = a[r]
        /\ NamedIn(q, l, r) = {} => (r \notin tr => sh[r] = a[r])
    BY <1>5 DEF Settles
  <2>1. ASSUME NEW i \in DOMAIN t, LastToName(t, l, r, i) PROVE t[i].val[r] = a[r]
    <3>1. i + 1 \in NamedIn(q, l, r)
      BY <1>1, <2>1 DEF LastToName, NamedIn
    <3>2. ASSUME NEW k \in NamedIn(q, l, r) PROVE k <= i + 1
      <4>1. CASE k = 1
        BY <1>1, <4>1
      <4>2. CASE k # 1
        <5>1. k - 1 \in NamedIn(t, l, r) /\ k \in Nat /\ i \in Nat
          BY <1>1, <1>3, <4>2 DEF NamedIn
        <5>2. k - 1 <= i
          BY <2>1, <5>1 DEF LastToName
        <5>3. QED
          BY <5>1, <5>2
      <4>3. QED
        BY <4>1, <4>2
    <3>3. LastToName(q, l, r, i + 1)
      BY <3>1, <3>2 DEF LastToName
    <3>4. QED
      BY <1>1, <2>0, <3>3
  <2>2. ASSUME NamedIn(t, l, r) = {}, NEW k \in NamedIn(q, l, r) PROVE k = 1
    BY <1>3, <2>2 DEF NamedIn
  <2>3. ASSUME NamedIn(t, l, r) = {}, Names(h, l, r) PROVE h.val[r] = a[r]
    <3>1. LastToName(q, l, r, 1)
      BY <1>1, <1>4, <2>2, <2>3 DEF LastToName, NamedIn
    <3>2. QED
      BY <1>1, <1>4, <2>0, <3>1
  <2>4. ASSUME NamedIn(t, l, r) = {}, ~Names(h, l, r) PROVE NamedIn(q, l, r) = {}
    BY <1>1, <2>2, <2>4 DEF NamedIn
  <2>5. QED
    BY <1>1, <2>0, <2>1, <2>3, <2>4
<1>6. ASSUME Darkens(q, None, l, sh, tr) PROVE Darkens(t, h, l, sh, tr)
  <2>1. ASSUME NEW i \in DOMAIN t, Paints(t[i], l), ~Blackens(t[i]) PROVE \E k \in OffsIn(t, l) : k > i
    <3>1. PICK k \in OffsIn(q, l) : k > i + 1
      BY <1>1, <1>6, <2>1 DEF Darkens
    <3>2. k # 1 /\ k \in DOMAIN q /\ k \in Nat /\ i \in Nat
      BY <1>1, <1>3, <3>1 DEF OffsIn
    <3>3. k - 1 \in OffsIn(t, l)
      BY <1>3, <3>1, <3>2 DEF OffsIn
    <3>4. k - 1 > i
      BY <3>1, <3>2
    <3>5. QED
      BY <3>3, <3>4
  <2>2. ASSUME OffsIn(t, l) = {}, NEW k \in OffsIn(q, l) PROVE k = 1
    BY <1>3, <2>2 DEF OffsIn
  <2>3. ASSUME OffsIn(t, l) = {}, Paints(h, l) PROVE Blackens(h)
    <3>1. Blackens(q[1]) \/ \E k \in OffsIn(q, l) : k > 1
      BY <1>1, <1>4, <1>6, <2>3 DEF Darkens
    <3>2. QED
      BY <1>1, <2>2, <2>3, <3>1
  <2>4. ASSUME OffsIn(t, l) = {}, NEW r \in Regions, ~Names(h, l, r), r \notin tr PROVE sh[r] = Dark
    <3>1. OffsIn(q, l) = {}
      <4>1. SUFFICES ASSUME 1 \in OffsIn(q, l) PROVE FALSE
        BY <2>2, <2>4
      <4>2. h.dev = l /\ h.verb = "off" /\ h.val = AllDark
        BY <1>1, <4>1 DEF OffsIn, Blank
      <4>3. QED
        BY <2>4, <4>2 DEF Names, Paints, AllDark
    <3>2. QED
      BY <1>6, <2>4, <3>1 DEF Darkens
  <2>5. QED
    BY <1>1, <2>1, <2>3, <2>4 DEF Darkens
<1>7. QED
  BY <1>5, <1>6 DEF t, h

\* So the pump settles and darkens what was settled and dark before it.
LEMMA PumpKeeps ==
  ASSUME NEW e, ElcOK(e), NEW l, NEW C, NEW a, NEW sh, NEW tr
  PROVE  /\ Settles(e.queue, e.writing, l, C, a, sh, tr) => Settles(Pump(e).queue, Pump(e).writing, l, C, a, sh, tr)
         /\ Darkens(e.queue, e.writing, l, sh, tr) => Darkens(Pump(e).queue, Pump(e).writing, l, sh, tr)
<1>1. QueueOf(e.queue)
  BY DEF ElcOK, Sound
<1>2. CASE Starts(e, Pump(e))
  BY <1>1, <1>2, StartKeeps DEF Starts
<1>3. QED
  BY <1>2, PumpOK

-----------------------------------------------------------------------------
(***************************************************************************)
(* Several jobs, one after the other.                                      *)
(***************************************************************************)

\* The queue after each of the jobs, and what was said after each.
Enqueuing(x, jobs, n, g) ==
  g = [i \in 0..n |-> IF i = 0 THEN x ELSE Enqueue(g[i - 1], jobs[i])]

LEMMA EnqueuingExists ==
  ASSUME NEW x, NEW jobs, NEW n \in Nat
  PROVE  \E g : Enqueuing(x, jobs, n, g)
<1> DEFINE Q(m) == \E g : Enqueuing(x, jobs, m, g)
           T == {m \in Nat : ~Q(m)}
<1>1. SUFFICES ASSUME T # {} PROVE FALSE
  OBVIOUS
<1>2. PICK m \in T : \A y \in T : m <= y
  BY <1>1, LeastNat
<1>3. Q(0)
  <2>1. Enqueuing(x, jobs, 0, [i \in 0..0 |-> x])
    BY DEF Enqueuing
  <2>2. QED
    BY <2>1
<1>4. m \in Nat \ {0} /\ m - 1 \in Nat /\ Q(m - 1)
  BY <1>2, <1>3
<1>5. PICK g : Enqueuing(x, jobs, m - 1, g)
  BY <1>4
<1> DEFINE step(i, p) == Enqueue(p, jobs[i])
           h == [i \in 0..m |-> IF i = m THEN step(m, g[m - 1]) ELSE g[i]]
<1>6. \A i \in 0..(m - 1) : g[i] = IF i = 0 THEN x ELSE step(i, g[i - 1])
  BY <1>5 DEF Enqueuing
<1> HIDE DEF step
<1>7. \A i \in 0..m : h[i] = IF i = 0 THEN x ELSE step(i, h[i - 1])
  <2>1. ASSUME NEW i \in 0..m, i # m PROVE h[i] = IF i = 0 THEN x ELSE step(i, h[i - 1])
    <3>1. i \in 0..(m - 1) /\ (i # 0 => i - 1 \in 0..m /\ i - 1 # m)
      BY <1>4, <2>1
    <3>2. QED
      BY <1>6, <2>1, <3>1
  <2>2. h[m] = step(m, h[m - 1]) /\ m # 0
    <3>1. m \in 0..m /\ m - 1 \in 0..m /\ m - 1 # m /\ m # 0
      BY <1>4
    <3>2. QED
      BY <3>1
  <2>3. QED
    BY <2>1, <2>2
<1>8. h = [i \in 0..m |-> h[i]]
  OBVIOUS
<1> HIDE DEF h
<1>9. Enqueuing(x, jobs, m, h)
  BY <1>7, <1>8 DEF Enqueuing, step
<1>10. QED
  BY <1>2, <1>9

Enqueued(x, jobs, n, g) == g[0] = x /\ \A i \in 1..n : g[i] = Enqueue(g[i - 1], jobs[i])

LEMMA EnqueuingRuns ==
  ASSUME NEW x, NEW jobs, Len(jobs) \in Nat
  PROVE  \E g : Enqueued(x, jobs, Len(jobs), g) /\ EnqueueAll(x, jobs) = g[Len(jobs)]
<1> DEFINE n == Len(jobs)
           run[i \in 0..n] == IF i = 0 THEN x ELSE Enqueue(run[i - 1], jobs[i])
<1>1. EnqueueAll(x, jobs) = run[n]
  BY DEF EnqueueAll
<1>2. run = CHOOSE g : g = [i \in 0..n |-> IF i = 0 THEN x ELSE Enqueue(g[i - 1], jobs[i])]
  BY DEF run
<1> HIDE DEF run
<1>3. Enqueuing(x, jobs, n, run)
  <2>1. PICK g : Enqueuing(x, jobs, n, g)
    BY EnqueuingExists
  <2> HIDE DEF n
  <2>2. \E h : h = [i \in 0..n |-> IF i = 0 THEN x ELSE Enqueue(h[i - 1], jobs[i])]
    BY <2>1 DEF Enqueuing
  <2>3. QED
    BY <1>2, <2>2 DEF Enqueuing
<1> HIDE DEF n
<1>4. n \in Nat
  BY DEF n
<1>5. \A i \in 0..n : run[i] = IF i = 0 THEN x ELSE Enqueue(run[i - 1], jobs[i])
  BY <1>3 DEF Enqueuing
<1>6. 0 \in 0..n /\ \A i \in 1..n : i \in 0..n /\ i # 0
  BY <1>4
<1>7. Enqueued(x, jobs, n, run)
  BY <1>5, <1>6 DEF Enqueued
<1>8. QED
  BY <1>1, <1>7 DEF n

SaidOneByOne(x, jobs, n, g) == g[0] = x /\ \A i \in 1..n : g[i] = SaidBy(jobs[i], g[i - 1])

Saying(x, jobs, n, g) ==
  g = [i \in 0..n |-> IF i = 0 THEN x ELSE SaidBy(jobs[i], g[i - 1])]

LEMMA SayingExists ==
  ASSUME NEW x, NEW jobs, NEW n \in Nat
  PROVE  \E g : Saying(x, jobs, n, g)
<1> DEFINE Q(m) == \E g : Saying(x, jobs, m, g)
           T == {m \in Nat : ~Q(m)}
<1>1. SUFFICES ASSUME T # {} PROVE FALSE
  OBVIOUS
<1>2. PICK m \in T : \A y \in T : m <= y
  BY <1>1, LeastNat
<1>3. Q(0)
  <2>1. Saying(x, jobs, 0, [i \in 0..0 |-> x])
    BY DEF Saying
  <2>2. QED
    BY <2>1
<1>4. m \in Nat \ {0} /\ m - 1 \in Nat /\ Q(m - 1)
  BY <1>2, <1>3
<1>5. PICK g : Saying(x, jobs, m - 1, g)
  BY <1>4
<1> DEFINE step(i, p) == SaidBy(jobs[i], p)
           h == [i \in 0..m |-> IF i = m THEN step(m, g[m - 1]) ELSE g[i]]
<1>6. \A i \in 0..(m - 1) : g[i] = IF i = 0 THEN x ELSE step(i, g[i - 1])
  BY <1>5 DEF Saying
<1> HIDE DEF step
<1>7. \A i \in 0..m : h[i] = IF i = 0 THEN x ELSE step(i, h[i - 1])
  <2>1. ASSUME NEW i \in 0..m, i # m PROVE h[i] = IF i = 0 THEN x ELSE step(i, h[i - 1])
    <3>1. i \in 0..(m - 1) /\ (i # 0 => i - 1 \in 0..m /\ i - 1 # m)
      BY <1>4, <2>1
    <3>2. QED
      BY <1>6, <2>1, <3>1
  <2>2. h[m] = step(m, h[m - 1]) /\ m # 0
    <3>1. m \in 0..m /\ m - 1 \in 0..m /\ m - 1 # m /\ m # 0
      BY <1>4
    <3>2. QED
      BY <3>1
  <2>3. QED
    BY <2>1, <2>2
<1>8. h = [i \in 0..m |-> h[i]]
  OBVIOUS
<1> HIDE DEF h
<1>9. Saying(x, jobs, m, h)
  BY <1>7, <1>8 DEF Saying, step
<1>10. QED
  BY <1>2, <1>9

LEMMA SayingRuns ==
  ASSUME NEW x, NEW jobs, Len(jobs) \in Nat
  PROVE  \E g : SaidOneByOne(x, jobs, Len(jobs), g) /\ Said(x, jobs) = g[Len(jobs)]
<1> DEFINE n == Len(jobs)
           run[i \in 0..n] == IF i = 0 THEN x ELSE SaidBy(jobs[i], run[i - 1])
<1>1. Said(x, jobs) = run[n]
  BY DEF Said
<1>2. run = CHOOSE g : g = [i \in 0..n |-> IF i = 0 THEN x ELSE SaidBy(jobs[i], g[i - 1])]
  BY DEF run
<1> HIDE DEF run
<1>3. Saying(x, jobs, n, run)
  <2>1. PICK g : Saying(x, jobs, n, g)
    BY SayingExists
  <2> HIDE DEF n
  <2>2. \E h : h = [i \in 0..n |-> IF i = 0 THEN x ELSE SaidBy(jobs[i], h[i - 1])]
    BY <2>1 DEF Saying
  <2>3. QED
    BY <1>2, <2>2 DEF Saying
<1> HIDE DEF n
<1>4. n \in Nat
  BY DEF n
<1>5. \A i \in 0..n : run[i] = IF i = 0 THEN x ELSE SaidBy(jobs[i], run[i - 1])
  BY <1>3 DEF Saying
<1>6. 0 \in 0..n /\ \A i \in 1..n : i \in 0..n /\ i # 0
  BY <1>4
<1>7. SaidOneByOne(x, jobs, n, run)
  BY <1>5, <1>6 DEF SaidOneByOne
<1>8. QED
  BY <1>1, <1>7 DEF n

-----------------------------------------------------------------------------
(***************************************************************************)
(* What the queue e promises of lamp l, while the lights are on or off: to *)
(* settle the regions C on al, or to darken the lamp, al being dark too.   *)
(***************************************************************************)
Promise(e, l, C, al, sh, tr, on) ==
  IF on THEN Settles(e.queue, e.writing, l, C, al, sh, tr)
  ELSE Darkens(e.queue, e.writing, l, sh, tr) /\ al = AllDark

\* Some regions D[l] of each lamp l.
Spoken == [Lamps -> SUBSET Regions]

\* The jobs the code makes while the lights are on name every region that it
\* speaks for, and while they are off they only blacken.
Fits(D, on) ==
  {job \in JobSet : /\ Blank(job)
                    /\ \A l \in Lamps : Paints(job, l) => IF on THEN D[l] \subseteq DOMAIN job.val ELSE Blackens(job)}

\* A job that makes the promise good, whatever went before.
Claims(job, l, on) == Paints(job, l) /\ (on \/ job.verb = "off")

\* Lights that went dark settle on the dark: they may be switched on.
LEMMA DarkSettles ==
  ASSUME NEW q, QueueOf(q), NEW w, NEW l, NEW C \in SUBSET Regions, NEW sh, NEW tr, Darkens(q, w, l, sh, tr)
  PROVE  Settles(q, w, l, C, AllDark, sh, tr)
<1> SUFFICES ASSUME NEW r \in C
             PROVE  /\ \A i \in DOMAIN q : LastToName(q, l, r, i) => q[i].val[r] = AllDark[r]
                    /\ NamedIn(q, l, r) = {} =>
                         IF w # None /\ Names(w, l, r) THEN w.val[r] = AllDark[r] ELSE r \notin tr => sh[r] = AllDark[r]
  BY DEF Settles
<1>0. r \in Regions /\ AllDark[r] = Dark /\ DOMAIN AllDark = Regions
  BY DEF AllDark
<1>1. q \in Seq(JobSet) /\ \A i \in DOMAIN q : Blank(q[i]) /\ i \in Nat
  BY DEF QueueOf
<1>2. ASSUME NEW k \in OffsIn(q, l) PROVE k \in NamedIn(q, l, r)
  BY <1>0, <1>1 DEF OffsIn, NamedIn, Names, Paints, Blank
<1>3. ASSUME NEW i \in DOMAIN q, LastToName(q, l, r, i) PROVE q[i].val[r] = Dark
  <2>1. r \in DOMAIN q[i].val /\ Paints(q[i], l)
    BY <1>3 DEF LastToName, NamedIn, Names
  <2>2. ASSUME NEW k \in OffsIn(q, l), k > i PROVE FALSE
    <3>1. k <= i
      BY <1>2, <1>3 DEF LastToName
    <3>2. k \in Nat /\ i \in Nat
      BY <1>1 DEF OffsIn
    <3>3. QED
      BY <2>2, <3>1, <3>2
  <2>3. Blackens(q[i])
    BY <2>1, <2>2 DEF Darkens
  <2>4. QED
    BY <2>1, <2>3 DEF Blackens
<1>4. ASSUME NamedIn(q, l, r) = {}
      PROVE  IF w # None /\ Names(w, l, r) THEN w.val[r] = Dark ELSE r \notin tr => sh[r] = Dark
  <2>1. OffsIn(q, l) = {}
    BY <1>2, <1>4
  <2>2. QED
    BY <1>0, <2>1 DEF Darkens, Names, Blackens
<1>5. QED
  BY <1>0, <1>3, <1>4

LEMMA SaidKept ==
  ASSUME NEW job \in JobSet, NEW a \in [Lamps -> ColourMaps]
  PROVE  SaidBy(job, a) \in [Lamps -> ColourMaps]
<1>1. ASSUME NEW l \in Lamps PROVE (IF Paints(job, l) THEN Painted(job.val, a[l]) ELSE a[l]) \in ColourMaps
  <2>1. a[l] \in [Regions -> Hues]
    BY DEF ColourMaps
  <2>2. \A r \in Regions : (IF r \in DOMAIN job.val THEN job.val[r] ELSE a[l][r]) \in Hues
    BY <2>1, JobFacts
  <2>3. Painted(job.val, a[l]) \in [Regions -> Hues]
    BY <2>2 DEF Painted
  <2>4. QED
    BY <2>1, <2>3 DEF ColourMaps
<1>2. QED
  BY <1>1 DEF SaidBy

\* A job that blackens leaves the dark dark, and off makes it.
LEMMA SaidDark ==
  ASSUME NEW job \in JobSet, NEW a, NEW l \in Lamps, Paints(job, l), Blank(job), Blackens(job),
         a[l] = AllDark \/ job.verb = "off"
  PROVE  SaidBy(job, a)[l] = AllDark
<1>1. \A r \in Regions : (IF r \in DOMAIN job.val THEN job.val[r] ELSE a[l][r]) = Dark
  <2>1. CASE a[l] = AllDark
    BY <2>1 DEF Blackens, AllDark
  <2>2. CASE job.verb = "off"
    BY <2>2 DEF Blank, AllDark
  <2>3. QED
    BY <2>1, <2>2
<1>2. SaidBy(job, a)[l] = Painted(job.val, a[l])
  BY DEF SaidBy
<1>3. QED
  BY <1>1, <1>2 DEF Painted, AllDark

\* Enqueue keeps the promise for a, or makes it.
LEMMA EnqueueKeeps ==
  ASSUME NEW e, ElcOK(e), NEW on \in BOOLEAN, NEW D \in Spoken, NEW job \in Fits(D, on)
  PROVE  /\ ElcOK(Enqueue(e, job)) /\ Pumped(Enqueue(e, job))
         /\ Enqueue(e, job).reading = e.reading /\ Enqueue(e, job).pending = e.pending
         /\ \A l \in Lamps : \A a, sh, tr :
              Promise(e, l, D[l], a[l], sh, tr, on) \/ Claims(job, l, on)
                => Promise(Enqueue(e, job), l, D[l], SaidBy(job, a)[l], sh, tr, on)
<1> DEFINE p == [e EXCEPT !.queue = Coalesce(@, job)]
<1>1. Enqueue(e, job) = Pump(p)
  BY DEF Enqueue
<1>2. IsElc(e) /\ QueueOf(e.queue) /\ job \in JobSet /\ Blank(job)
  BY DEF ElcOK, Sound, Fits
<1>3. p = [e EXCEPT !.queue = Coalesce(e.queue, job)]
  OBVIOUS
<1> HIDE DEF p
<1>4. /\ IsElc(p) /\ p.queue = Coalesce(e.queue, job) /\ p.writing = e.writing /\ p.reading = e.reading
      /\ p.pending = e.pending /\ p.retry = e.retry
  BY <1>2, <1>3 DEF IsElc
<1>5. QueueOf(p.queue)
  BY <1>2, <1>4, CoalesceOK
<1>6. ElcOK(p)
  BY <1>4, <1>5 DEF ElcOK, Sound
<1>7. ASSUME NEW l \in Lamps, NEW a, NEW sh, NEW tr, Promise(e, l, D[l], a[l], sh, tr, on) \/ Claims(job, l, on)
      PROVE  Promise(p, l, D[l], SaidBy(job, a)[l], sh, tr, on)
  <2>1. CASE ~Paints(job, l)
    <3>1. SaidBy(job, a)[l] = a[l] /\ Promise(e, l, D[l], a[l], sh, tr, on)
      BY <1>7, <2>1 DEF SaidBy, Claims
    <3>2. /\ Settles(e.queue, e.writing, l, D[l], a[l], sh, tr) => Settles(p.queue, p.writing, l, D[l], a[l], sh, tr)
          /\ Darkens(e.queue, e.writing, l, sh, tr) => Darkens(p.queue, p.writing, l, sh, tr)
      BY <1>2, <1>4, <2>1, CoalesceOther
    <3>3. QED
      BY <3>1, <3>2 DEF Promise
  <2>2. CASE Paints(job, l) /\ on
    <3>1. D[l] \subseteq DOMAIN job.val /\ D[l] \subseteq Regions
      BY <2>2 DEF Fits, Spoken
    <3>2. SaidBy(job, a)[l] = Painted(job.val, a[l])
      BY <2>2 DEF SaidBy
    <3>3. Settles(p.queue, p.writing, l, D[l], Painted(job.val, a[l]), sh, tr)
      <4> DEFINE C == D[l]
                 b == a[l]
      <4>1. C \subseteq DOMAIN job.val /\ C \subseteq Regions
        BY <3>1
      <4> HIDE DEF C, b
      <4>2. Settles(Coalesce(e.queue, job), p.writing, l, C, Painted(job.val, b), sh, tr)
        BY <1>2, <2>2, <4>1, CoalesceOwn
      <4>3. QED
        BY <1>4, <4>2 DEF C, b
    <3>4. QED
      BY <2>2, <3>2, <3>3 DEF Promise
  <2>3. CASE Paints(job, l) /\ ~on
    <3>0. {} \subseteq Regions
      OBVIOUS
    <3>1. Blackens(job)
      BY <2>3 DEF Fits
    <3>2. SaidBy(job, a)[l] = AllDark
      BY <1>2, <1>7, <2>3, <3>1, SaidDark DEF Promise, Claims
    <3>3. Darkens(p.queue, p.writing, l, sh, tr)
      <4>1. CASE job.verb = "off"
        BY <1>2, <1>4, <2>3, <3>0, <4>1, CoalesceOwn
      <4>2. CASE Darkens(e.queue, e.writing, l, sh, tr)
        BY <1>2, <1>4, <2>3, <3>0, <3>1, <4>2, CoalesceOwn
      <4>3. QED
        BY <1>7, <2>3, <4>1, <4>2 DEF Promise, Claims
    <3>4. QED
      BY <2>3, <3>2, <3>3 DEF Promise
  <2>4. QED
    BY <2>1, <2>2, <2>3
<1>8. ASSUME NEW l, NEW C, NEW al, NEW sh, NEW tr, Promise(p, l, C, al, sh, tr, on)
      PROVE  Promise(Pump(p), l, C, al, sh, tr, on)
  BY <1>6, <1>8, PumpKeeps DEF Promise
<1>9. /\ ElcOK(Pump(p)) /\ Pumped(Pump(p)) /\ Pump(p).reading = e.reading /\ Pump(p).pending = e.pending
  BY <1>4, <1>6, PumpOK
<1>10. QED
  BY <1>1, <1>7, <1>8, <1>9

\* The promises of queue e for a are kept or made by queue f for b.
Keeps(e, a, f, b, jobs, D, on) ==
  \A l \in Lamps : \A sh, tr :
    Promise(e, l, D[l], a[l], sh, tr, on) \/ (\E i \in DOMAIN jobs : Claims(jobs[i], l, on))
      => Promise(f, l, D[l], b[l], sh, tr, on)

\* So do several jobs, of which one that claims the lamp is enough.
LEMMA EnqueueAllKeeps ==
  ASSUME NEW e, ElcOK(e), NEW on \in BOOLEAN, NEW D \in Spoken, NEW jobs \in Seq(Fits(D, on)), NEW a \in [Lamps -> ColourMaps]
  PROVE  /\ ElcOK(EnqueueAll(e, jobs)) /\ (Pumped(e) => Pumped(EnqueueAll(e, jobs)))
         /\ EnqueueAll(e, jobs).reading = e.reading /\ EnqueueAll(e, jobs).pending = e.pending
         /\ Said(a, jobs) \in [Lamps -> ColourMaps]
         /\ Keeps(e, a, EnqueueAll(e, jobs), Said(a, jobs), jobs, D, on)
<1>1. Len(jobs) \in Nat /\ DOMAIN jobs = 1..Len(jobs) /\ \A i \in 1..Len(jobs) : jobs[i] \in Fits(D, on)
  OBVIOUS
<1>2. PICK g : Enqueued(e, jobs, Len(jobs), g) /\ EnqueueAll(e, jobs) = g[Len(jobs)]
  BY <1>1, EnqueuingRuns
<1>3. PICK s : SaidOneByOne(a, jobs, Len(jobs), s) /\ Said(a, jobs) = s[Len(jobs)]
  BY <1>1, SayingRuns
<1> DEFINE n == Len(jobs)
           Kept1(i) == /\ ElcOK(g[i]) /\ (Pumped(e) => Pumped(g[i])) /\ g[i].reading = e.reading /\ g[i].pending = e.pending
                       /\ s[i] \in [Lamps -> ColourMaps]
           Kept2(i) == \A l \in Lamps : \A sh, tr :
                         Promise(e, l, D[l], a[l], sh, tr, on) \/ (\E j \in 1..i : Claims(jobs[j], l, on))
                           => Promise(g[i], l, D[l], s[i][l], sh, tr, on)
           T == {i \in 0..n : ~(Kept1(i) /\ Kept2(i))}
<1>4. T = {}
  <2>1. SUFFICES ASSUME T # {} PROVE FALSE
    OBVIOUS
  <2>2. PICK k \in T : \A y \in T : k <= y
    <3>1. T \in SUBSET Nat
      BY <1>1
    <3> HIDE DEF T
    <3>2. QED
      BY <2>1, <3>1, LeastNat
  <2>3. Kept1(0) /\ Kept2(0)
    <3>1. 1..0 = {}
      OBVIOUS
    <3>2. QED
      BY <1>2, <1>3, <3>1 DEF Enqueued, SaidOneByOne
  <2>4. k \in 1..n /\ k - 1 \in 0..n /\ k - 1 \notin T /\ k - 1 \in Nat /\ k # 0
    <3>1. k \in 0..n /\ ~(Kept1(k) /\ Kept2(k))
      BY <2>2
    <3> HIDE DEF Kept1, Kept2
    <3>2. k # 0
      BY <2>3, <3>1
    <3>3. k \in 1..n /\ k - 1 \in 0..n /\ k - 1 \in Nat /\ ~(k <= k - 1)
      BY <1>1, <3>1, <3>2
    <3> HIDE DEF T
    <3>4. QED
      BY <2>2, <3>2, <3>3
  <2>5. Kept1(k - 1) /\ Kept2(k - 1)
    BY <2>4
  <2> DEFINE job == jobs[k]
             d == g[k - 1]
             b == s[k - 1]
  <2>6. job \in Fits(D, on) /\ job \in JobSet /\ g[k] = Enqueue(d, job) /\ s[k] = SaidBy(job, b)
    BY <1>1, <1>2, <1>3, <2>4 DEF Fits, Enqueued, SaidOneByOne
  <2>7. ElcOK(d) /\ b \in [Lamps -> ColourMaps] /\ d.reading = e.reading /\ d.pending = e.pending
    BY <2>5
  <2>8. \A l \in Lamps : \A sh, tr :
          Promise(e, l, D[l], a[l], sh, tr, on) \/ (\E j \in 1..(k - 1) : Claims(jobs[j], l, on))
            => Promise(d, l, D[l], b[l], sh, tr, on)
    BY <2>5
  <2>9. \A j \in 1..k : j = k \/ j \in 1..(k - 1)
    BY <2>4
  <2>10. \A l \in Lamps : (\E j \in 1..k : Claims(jobs[j], l, on))
           => Claims(job, l, on) \/ (\E j \in 1..(k - 1) : Claims(jobs[j], l, on))
    BY <2>9
  <2> HIDE DEF job, d, b, T, Kept1, Kept2
  <2>16. /\ ElcOK(Enqueue(d, job)) /\ Pumped(Enqueue(d, job))
         /\ Enqueue(d, job).reading = d.reading /\ Enqueue(d, job).pending = d.pending
         /\ \A l \in Lamps : \A x, sh, tr :
              Promise(d, l, D[l], x[l], sh, tr, on) \/ Claims(job, l, on)
                => Promise(Enqueue(d, job), l, D[l], SaidBy(job, x)[l], sh, tr, on)
    BY <2>6, <2>7, EnqueueKeeps
  <2>11. /\ ElcOK(g[k]) /\ Pumped(g[k]) /\ g[k].reading = d.reading /\ g[k].pending = d.pending
         /\ \A l \in Lamps : \A sh, tr :
              Promise(d, l, D[l], b[l], sh, tr, on) \/ Claims(job, l, on) => Promise(g[k], l, D[l], s[k][l], sh, tr, on)
    BY <2>6, <2>16
  <2>12. s[k] \in [Lamps -> ColourMaps]
    BY <2>6, <2>7, SaidKept
  <2>13. Kept1(k)
    BY <2>7, <2>11, <2>12 DEF Kept1
  <2>14. Kept2(k)
    BY <2>8, <2>10, <2>11 DEF Kept2
  <2>15. QED
    BY <2>2, <2>13, <2>14 DEF T
<1>5. Kept1(n) /\ Kept2(n)
  <2>1. n \in 0..n
    BY <1>1
  <2> HIDE DEF Kept1, Kept2
  <2>2. QED
    BY <1>4, <2>1
<1>6. QED
  BY <1>1, <1>2, <1>3, <1>5 DEF Keeps

-----------------------------------------------------------------------------
(***************************************************************************)
(* Reads and timers.                                                       *)
(***************************************************************************)

\* A read that is asked for is started or kept pending, and disturbs no job.
LEMMA RefreshRgbKeeps ==
  ASSUME NEW e, Sound(e), NEW look \in {"ready", "absent"}
  PROVE  /\ ElcOK(RefreshRgb(e, look)) /\ Pumped(RefreshRgb(e, look))
         /\ RefreshRgb(e, look).queue = e.queue /\ RefreshRgb(e, look).writing = e.writing
<1>0. IsElc(e)
  BY DEF Sound
<1>1. CASE ElcReadAction(e) = "running"
  <2> DEFINE p == [e EXCEPT !.pending = FALSE]
  <2>1. RefreshRgb(e, look) = p
    BY <1>1 DEF RefreshRgb
  <2>2. p = [e EXCEPT !.pending = FALSE]
    OBVIOUS
  <2> HIDE DEF p
  <2>3. /\ IsElc(p) /\ p.queue = e.queue /\ p.writing = e.writing /\ p.reading = e.reading
        /\ p.pending = FALSE /\ p.retry = e.retry
    BY <1>0, <2>2 DEF IsElc
  <2>4. e.reading # "no"
    BY <1>1 DEF ElcReadAction
  <2>5. QED
    BY <2>1, <2>3, <2>4 DEF ElcOK, Sound, Pumped
<1>2. CASE ElcReadAction(e) = "defer"
  <2> DEFINE p == [e EXCEPT !.pending = TRUE, !.retry = TRUE]
  <2>1. RefreshRgb(e, look) = p
    BY <1>2 DEF RefreshRgb
  <2>2. p = [e EXCEPT !.pending = TRUE, !.retry = TRUE]
    OBVIOUS
  <2> HIDE DEF p
  <2>3. /\ IsElc(p) /\ p.queue = e.queue /\ p.writing = e.writing /\ p.reading = e.reading
        /\ p.pending = TRUE /\ p.retry = TRUE
    BY <1>0, <2>2 DEF IsElc
  <2>4. QED
    BY <2>1, <2>3 DEF ElcOK, Sound, Pumped
<1>3. CASE ElcReadAction(e) = "start"
  <2> DEFINE p == [e EXCEPT !.pending = FALSE, !.reading = look]
  <2>1. RefreshRgb(e, look) = p
    BY <1>3 DEF RefreshRgb
  <2>2. p = [e EXCEPT !.pending = FALSE, !.reading = look]
    OBVIOUS
  <2>3. e.writing = None /\ e.queue = <<>>
    BY <1>3 DEF ElcReadAction
  <2> HIDE DEF p
  <2>4. /\ IsElc(p) /\ p.queue = e.queue /\ p.writing = e.writing /\ p.reading = look
        /\ p.pending = FALSE /\ p.retry = e.retry
    BY <1>0, <2>2 DEF IsElc
  <2>5. QED
    BY <2>1, <2>3, <2>4 DEF ElcOK, Sound, Pumped
<1>4. QED
  BY <1>1, <1>2, <1>3 DEF ElcReadAction

\* elcRetry: what was pending is asked for again, and the queue is pumped.
LEMMA RetryKeeps ==
  ASSUME NEW e, ElcOK(e), NEW look \in {"ready", "absent"}
  PROVE  /\ ElcOK(Retry(e, look)) /\ Pumped(Retry(e, look))
         /\ ~e.pending => Retry(e, look).reading = e.reading /\ ~Retry(e, look).pending
         /\ \A l, C, al, sh, tr : \A on \in BOOLEAN :
              Promise(e, l, C, al, sh, tr, on) => Promise(Retry(e, look), l, C, al, sh, tr, on)
<1> DEFINE fired == [e EXCEPT !.retry = FALSE]
           p == IF e.pending THEN RefreshRgb(fired, look) ELSE fired
<1>1. Retry(e, look) = Pump(p)
  BY DEF Retry
<1>2. fired = [e EXCEPT !.retry = FALSE]
  OBVIOUS
<1> HIDE DEF fired
<1>3. /\ IsElc(fired) /\ fired.queue = e.queue /\ fired.writing = e.writing /\ fired.reading = e.reading
      /\ fired.pending = e.pending /\ fired.retry = FALSE
  BY <1>2 DEF ElcOK, Sound, IsElc
<1>4. Sound(fired)
  BY <1>3 DEF ElcOK, Sound
<1>5. ElcOK(RefreshRgb(fired, look)) /\ RefreshRgb(fired, look).queue = e.queue /\ RefreshRgb(fired, look).writing = e.writing
  BY <1>3, <1>4, RefreshRgbKeeps
<1>6. /\ ElcOK(p) /\ p.queue = e.queue /\ p.writing = e.writing
      /\ ~e.pending => p.reading = e.reading /\ ~p.pending
  BY <1>3, <1>4, <1>5 DEF ElcOK
<1> HIDE DEF p
<1>7. ASSUME NEW l, NEW C, NEW al, NEW sh, NEW tr, NEW on \in BOOLEAN, Promise(e, l, C, al, sh, tr, on)
      PROVE  Promise(Pump(p), l, C, al, sh, tr, on)
  BY <1>6, <1>7, PumpKeeps DEF Promise
<1>8. ElcOK(Pump(p)) /\ Pumped(Pump(p)) /\ Pump(p).reading = p.reading /\ Pump(p).pending = p.pending
  BY <1>6, PumpOK
<1>9. QED
  BY <1>1, <1>6, <1>7, <1>8

\* rgbProc has exited and left some jobs.
LEMMA ReadDoneKeeps ==
  ASSUME NEW e, ElcOK(e), e.reading # "no", NEW on \in BOOLEAN, NEW D \in Spoken, NEW jobs \in Seq(Fits(D, on)),
         NEW a \in [Lamps -> ColourMaps]
  PROVE  /\ ElcOK(ReadDone(e, jobs)) /\ Pumped(ReadDone(e, jobs)) /\ ReadDone(e, jobs).reading = "no"
         /\ Said(a, jobs) \in [Lamps -> ColourMaps]
         /\ Keeps(e, a, ReadDone(e, jobs), Said(a, jobs), jobs, D, on)
<1> DEFINE d == [e EXCEPT !.reading = "no"]
           p == EnqueueAll(d, jobs)
<1>1. ReadDone(e, jobs) = Pump(p)
  BY DEF ReadDone
<1>2. d = [e EXCEPT !.reading = "no"]
  OBVIOUS
<1> HIDE DEF d
<1>3. /\ IsElc(d) /\ d.queue = e.queue /\ d.writing = e.writing /\ d.reading = "no"
      /\ d.pending = e.pending /\ d.retry = e.retry
  BY <1>2 DEF ElcOK, Sound, IsElc
<1>4. ElcOK(d)
  BY <1>3 DEF ElcOK, Sound
<1> HIDE DEF p
<1>5. /\ ElcOK(EnqueueAll(d, jobs)) /\ (Pumped(d) => Pumped(EnqueueAll(d, jobs)))
      /\ EnqueueAll(d, jobs).reading = d.reading /\ EnqueueAll(d, jobs).pending = d.pending
      /\ Said(a, jobs) \in [Lamps -> ColourMaps]
      /\ Keeps(d, a, EnqueueAll(d, jobs), Said(a, jobs), jobs, D, on)
  BY <1>4, EnqueueAllKeeps
<1>6. ASSUME NEW l, NEW C, NEW al, NEW sh, NEW tr
      PROVE  Promise(e, l, C, al, sh, tr, on) => Promise(d, l, C, al, sh, tr, on)
  BY <1>3 DEF Promise
<1>7. ElcOK(p)
  BY <1>5 DEF p
<1>8. ASSUME NEW l, NEW C, NEW al, NEW sh, NEW tr, Promise(p, l, C, al, sh, tr, on)
      PROVE  Promise(Pump(p), l, C, al, sh, tr, on)
  BY <1>7, <1>8, PumpKeeps DEF Promise
<1>9. ElcOK(Pump(p)) /\ Pumped(Pump(p)) /\ Pump(p).reading = p.reading
  BY <1>7, PumpOK
<1>10. ASSUME NEW l \in Lamps, NEW sh, NEW tr,
              Promise(e, l, D[l], a[l], sh, tr, on) \/ (\E i \in DOMAIN jobs : Claims(jobs[i], l, on))
       PROVE  Promise(Pump(p), l, D[l], Said(a, jobs)[l], sh, tr, on)
  BY <1>5, <1>6, <1>8, <1>10 DEF p, Keeps
<1>11. QED
  BY <1>1, <1>3, <1>5, <1>9, <1>10 DEF p, Keeps

\* writeProc has exited; sx and tx are what the lamp shows and the regions whose
\* writes are lost after it.  A write is lost unless it took effect, and what was
\* lost of a region is made good by painting it only.
Recorded(w, l, effect, tr, tx) ==
  \A r \in Regions : /\ Names(w, l, r) /\ ~effect => r \in tx
                     /\ r \in tr /\ r \notin tx => effect /\ Names(w, l, r)

LEMMA WriteDoneKeeps ==
  ASSUME NEW e, ElcOK(e), e.writing # None, NEW effect \in BOOLEAN
  PROVE  /\ ElcOK(WriteDone(e)) /\ Pumped(WriteDone(e))
         /\ WriteDone(e).reading = e.reading /\ WriteDone(e).pending = e.pending
         /\ \A l, al, sh, tr, sx, tx : \A C \in SUBSET Regions : \A on \in BOOLEAN :
              /\ Promise(e, l, C, al, sh, tr, on)
              /\ sx = IF effect /\ Paints(e.writing, l) THEN Painted(e.writing.val, sh) ELSE sh
              /\ Recorded(e.writing, l, effect, tr, tx)
              => Promise(WriteDone(e), l, C, al, sx, tx, on)
<1> DEFINE d == [e EXCEPT !.writing = None]
           w == e.writing
<1>1. WriteDone(e) = Pump(d)
  BY DEF WriteDone
<1>2. d = [e EXCEPT !.writing = None]
  OBVIOUS
<1> HIDE DEF d
<1>3. /\ IsElc(d) /\ d.queue = e.queue /\ d.writing = None /\ d.reading = e.reading
      /\ d.pending = e.pending /\ d.retry = e.retry
  BY <1>2 DEF ElcOK, Sound, IsElc
<1>4. ElcOK(d)
  BY <1>3 DEF ElcOK, Sound
<1>5. ASSUME NEW l, NEW al, NEW sh, NEW tr, NEW sx, NEW tx, NEW C \in SUBSET Regions, NEW on \in BOOLEAN,
             Promise(e, l, C, al, sh, tr, on),
             sx = IF effect /\ Paints(w, l) THEN Painted(w.val, sh) ELSE sh,
             Recorded(w, l, effect, tr, tx)
      PROVE  Promise(d, l, C, al, sx, tx, on)
  <2>1. \A r \in Regions : effect /\ Paints(w, l) => sx[r] = IF r \in DOMAIN w.val THEN w.val[r] ELSE sh[r]
    BY <1>5 DEF Painted
  <2>2. ASSUME Settles(e.queue, w, l, C, al, sh, tr) PROVE Settles(e.queue, None, l, C, al, sx, tx)
    <3> SUFFICES ASSUME NEW r \in C, NamedIn(e.queue, l, r) = {}, r \notin tx PROVE sx[r] = al[r]
      BY <2>2 DEF Settles
    <3>0. r \in Regions
      OBVIOUS
    <3>1. CASE Names(w, l, r)
      <4>1. effect /\ Paints(w, l) /\ r \in DOMAIN w.val /\ w.val[r] = al[r]
        BY <1>5, <2>2, <3>0, <3>1 DEF Settles, Names, Recorded
      <4>2. QED
        BY <2>1, <3>0, <4>1
    <3>2. CASE ~Names(w, l, r)
      <4>1. r \notin tr
        BY <1>5, <3>0, <3>2 DEF Recorded
      <4>2. sh[r] = al[r]
        BY <2>2, <3>2, <4>1 DEF Settles
      <4>3. CASE effect /\ Paints(w, l)
        BY <2>1, <3>2, <4>2, <4>3 DEF Names
      <4>4. QED
        BY <1>5, <4>2, <4>3
    <3>3. QED
      BY <3>1, <3>2
  <2>3. ASSUME Darkens(e.queue, w, l, sh, tr) PROVE Darkens(e.queue, None, l, sx, tx)
    <3> SUFFICES ASSUME OffsIn(e.queue, l) = {}, NEW r \in Regions, r \notin tx PROVE sx[r] = Dark
      BY <2>3 DEF Darkens
    <3>1. CASE Names(w, l, r)
      <4>1. effect /\ Paints(w, l) /\ r \in DOMAIN w.val
        BY <1>5, <3>1 DEF Names, Recorded
      <4>2. Blackens(w)
        BY <2>3, <4>1 DEF Darkens
      <4>3. QED
        BY <2>1, <4>1, <4>2 DEF Blackens
    <3>2. CASE ~Names(w, l, r)
      <4>1. r \notin tr
        BY <1>5, <3>2 DEF Recorded
      <4>2. sh[r] = Dark
        BY <2>3, <3>2, <4>1 DEF Darkens
      <4>3. CASE effect /\ Paints(w, l)
        BY <2>1, <3>2, <4>2, <4>3 DEF Names
      <4>4. QED
        BY <1>5, <4>2, <4>3
    <3>3. QED
      BY <3>1, <3>2
  <2>4. QED
    BY <1>3, <1>5, <2>2, <2>3 DEF Promise
<1>6. ASSUME NEW l, NEW C, NEW al, NEW sx, NEW tx, NEW on \in BOOLEAN, Promise(d, l, C, al, sx, tx, on)
      PROVE  Promise(Pump(d), l, C, al, sx, tx, on)
  BY <1>4, <1>6, PumpKeeps DEF Promise
<1>7. ElcOK(Pump(d)) /\ Pumped(Pump(d)) /\ Pump(d).reading = d.reading /\ Pump(d).pending = d.pending
  BY <1>4, PumpOK
<1>8. QED
  BY <1>1, <1>3, <1>5, <1>6, <1>7

-----------------------------------------------------------------------------
(***************************************************************************)
(* The jobs the plugin makes.                                              *)
(***************************************************************************)

\* The regions that a repaint of each lamp names.
Speaks(s) == [l \in Lamps |-> DOMAIN Lit(s, l)]

LEMMA SavedFacts ==
  ASSUME NEW s \in Saved, NEW l \in Lamps
  PROVE  /\ s.on \in BOOLEAN /\ s.lit[l] \subseteq Regions
         /\ \E R \in SUBSET Regions : Effective(s, l) \in [R -> Hues]
<1>1. s.on \in BOOLEAN /\ s.colour[l] \in PartialMaps(Colours) /\ s.lit[l] \subseteq Regions
  BY DEF Saved
<1>2. PICK R \in SUBSET Regions : s.colour[l] \in [R -> Colours]
  BY <1>1 DEF PartialMaps
<1> DEFINE D == (Regions \ s.lit[l]) \cup R
           map == [r \in D |-> IF r \in s.lit[l] THEN s.colour[l][r] ELSE Dark]
<1>3. Effective(s, l) = map /\ D \in SUBSET Regions
  BY <1>2 DEF Effective
<1>4. \A r \in D : (IF r \in s.lit[l] THEN s.colour[l][r] ELSE Dark) \in Hues
  BY <1>2 DEF Hues
<1> HIDE DEF D
<1>5. map \in [D -> Hues]
  BY <1>4
<1>6. QED
  BY <1>1, <1>3, <1>5

\* A map with the overlay on it.
LEMMA OverlayFacts ==
  ASSUME NEW s, NEW l, NEW R \in SUBSET Regions, NEW map \in [R -> Hues]
  PROVE  \E D \in SUBSET Regions : R \subseteq D /\ Overlay(s, l, map) \in [D -> Hues] /\ (~s.on => Overlay(s, l, map) = map)
<1>1. CASE s.on /\ s.marked[l]
  <2> DEFINE D == R \cup {Special}
  <2>1. D \in SUBSET Regions /\ DOMAIN map = R
    OBVIOUS
  <2>2. \A r \in D : (IF r = Special THEN Mark ELSE map[r]) \in Hues
    BY DEF Hues
  <2>3. Overlay(s, l, map) = [r \in D |-> IF r = Special THEN Mark ELSE map[r]]
    BY <1>1, <2>1 DEF Overlay
  <2>4. Overlay(s, l, map) \in [D -> Hues]
    BY <2>2, <2>3
  <2>5. QED
    BY <1>1, <2>1, <2>4
<1>2. CASE ~(s.on /\ s.marked[l])
  BY <1>2 DEF Overlay
<1>3. QED
  BY <1>1, <1>2

LEMMA PaintIsJob ==
  ASSUME NEW l \in Lamps, NEW D \in SUBSET Regions, NEW map \in [D -> Hues]
  PROVE  /\ SetMap(l, map) \in JobSet /\ SetMap(l, map).val = map /\ DOMAIN map = D
         /\ SetMap(l, map).verb = "set-map" /\ SetMap(l, map).dev = l
<1>1. l \in {"rgb", "kbd"}
  OBVIOUS
<1>2. map \in PartialMaps(Hues)
  BY DEF PartialMaps
<1>3. SetMap(l, map) = [dev |-> l, verb |-> "set-map", val |-> map]
  BY DEF SetMap, Job
<1>4. SetMap(l, map) \in LightJobs
  BY <1>1, <1>2, <1>3 DEF LightJobs
<1>5. QED
  BY <1>3, <1>4 DEF JobSet

\* A map of all the regions that a repaint names.
LEMMA LitFacts ==
  ASSUME NEW s \in Saved
  PROVE  /\ Speaks(s) \in Spoken
         /\ \A l \in Lamps : /\ Speaks(s)[l] = DOMAIN Lit(s, l) /\ Speaks(s)[l] \in SUBSET Regions
                             /\ Lit(s, l) \in [Speaks(s)[l] -> Hues]
<1>1. ASSUME NEW l \in Lamps PROVE DOMAIN Lit(s, l) \in SUBSET Regions /\ Lit(s, l) \in [DOMAIN Lit(s, l) -> Hues]
  <2>1. PICK R \in SUBSET Regions : Effective(s, l) \in [R -> Hues]
    BY SavedFacts
  <2>2. PICK D \in SUBSET Regions : Overlay(s, l, Effective(s, l)) \in [D -> Hues]
    BY <2>1, OverlayFacts
  <2>3. Lit(s, l) \in [D -> Hues]
    BY <2>2 DEF Lit
  <2>4. QED
    BY <2>3
<1>2. QED
  BY <1>1 DEF Speaks, Spoken

LEMMA RepaintFits ==
  ASSUME NEW s \in Saved, NEW l \in Lamps
  PROVE  Repaint(s, l) \in Fits(Speaks(s), TRUE) /\ Claims(Repaint(s, l), l, TRUE)
<1> DEFINE map == Lit(s, l)
           D == Speaks(s)[l]
<1>1. D \in SUBSET Regions /\ map \in [D -> Hues]
  BY LitFacts
<1>2. Repaint(s, l) = SetMap(l, map)
  BY DEF Repaint
<1> HIDE DEF map
<1>3. /\ SetMap(l, map) \in JobSet /\ SetMap(l, map).val = map /\ DOMAIN map = D
      /\ SetMap(l, map).verb = "set-map" /\ SetMap(l, map).dev = l
  BY <1>1, PaintIsJob
<1>4. \A k \in Lamps : Paints(SetMap(l, map), k) => Speaks(s)[k] \subseteq DOMAIN SetMap(l, map).val
  BY <1>3 DEF Paints
<1>5. QED
  BY <1>2, <1>3, <1>4 DEF Fits, Claims, Paints, Blank

LEMMA OffFits ==
  ASSUME NEW l \in Lamps, NEW D \in Spoken, NEW on \in BOOLEAN
  PROVE  Off(l) \in Fits(D, on) /\ Claims(Off(l), l, on)
<1>1. l \in {"rgb", "kbd"}
  OBVIOUS
<1>2. AllDark \in [Regions -> Hues] /\ DOMAIN AllDark = Regions /\ \A r \in Regions : AllDark[r] = Dark
  BY DEF AllDark, Hues
<1>3. AllDark \in PartialMaps(Hues)
  BY <1>2 DEF PartialMaps
<1>4. Off(l) = [dev |-> l, verb |-> "off", val |-> AllDark]
  BY DEF Off, Job
<1>5. Off(l) \in LightJobs
  BY <1>1, <1>3, <1>4 DEF LightJobs
<1>6. Off(l).dev = l /\ Off(l).verb = "off" /\ Off(l).val = AllDark
  BY <1>4
<1>7. Off(l) \in JobSet
  BY <1>5, <1>6 DEF JobSet
<1>8. Blackens(Off(l))
  BY <1>2, <1>6 DEF Blackens
<1>9. QED
  BY <1>2, <1>6, <1>7, <1>8 DEF Fits, Spoken, Claims, Paints, Blank

LEMMA BrightnessFits ==
  ASSUME NEW D \in Spoken, NEW on \in BOOLEAN
  PROVE  Brightness \in Fits(D, on)
<1>1. Brightness = [dev |-> "rgb", verb |-> "brightness", val |-> Nothing]
  BY DEF Brightness, Job
<1>2. Brightness \in LightJobs
  BY <1>1 DEF LightJobs
<1>3. QED
  BY <1>1, <1>2 DEF Fits, Paints, JobSet, Blank

\* A region's switch: a repaint while the lights are on, else dark regions.
LEMMA PowerFits ==
  ASSUME NEW s \in Saved, NEW l \in Lamps, NEW R \in SUBSET Regions
  PROVE  SetMap(l, Overlay(s, l, PowerPayload(s, l, R))) \in Fits(Speaks(s), s.on)
<1>1. CASE s.on
  <2>1. SetMap(l, Overlay(s, l, PowerPayload(s, l, R))) = Repaint(s, l)
    BY <1>1 DEF PowerPayload, Repaint, Lit
  <2>2. s.on = TRUE
    BY <1>1, SavedFacts
  <2>3. QED
    BY <2>1, <2>2, RepaintFits
<1>2. CASE ~s.on
  <2> DEFINE map == [r \in R |-> Dark]
  <2>1. Overlay(s, l, PowerPayload(s, l, R)) = map
    BY <1>2 DEF PowerPayload, Overlay
  <2>2. map \in [R -> Hues] /\ \A r \in R : map[r] = Dark
    BY DEF Hues
  <2> HIDE DEF map
  <2>3. /\ SetMap(l, map) \in JobSet /\ SetMap(l, map).val = map /\ DOMAIN map = R
        /\ SetMap(l, map).verb = "set-map" /\ SetMap(l, map).dev = l
    BY <2>2, PaintIsJob
  <2>4. QED
    BY <1>2, <2>1, <2>2, <2>3 DEF Fits, Blank, Blackens
<1>3. QED
  BY <1>1, <1>2

\* Short lists of jobs.
LEMMA OneJob ==
  ASSUME NEW S, NEW job \in S
  PROVE  <<job>> \in Seq(S) /\ 1 \in DOMAIN <<job>> /\ <<job>>[1] = job
  OBVIOUS

LEMMA Both ==
  ASSUME NEW S, NEW s \in Seq(S), NEW t \in Seq(S)
  PROVE  /\ s \o t \in Seq(S)
         /\ \A i \in DOMAIN s : i \in DOMAIN (s \o t) /\ (s \o t)[i] = s[i]
         /\ \A i \in DOMAIN t : \E j \in DOMAIN (s \o t) : (s \o t)[j] = t[i]
<1> DEFINE u == s \o t
<1>1. /\ u \in Seq(S) /\ Len(u) = Len(s) + Len(t)
      /\ \A i \in 1..Len(s) : u[i] = s[i]
      /\ \A i \in 1..Len(t) : u[Len(s) + i] = t[i]
  BY Joined
<1> HIDE DEF u
<1>2. Len(s) \in Nat /\ Len(t) \in Nat /\ DOMAIN s = 1..Len(s) /\ DOMAIN t = 1..Len(t) /\ DOMAIN u = 1..Len(u)
  BY <1>1
<1>3. (\A i \in DOMAIN s : i \in DOMAIN u) /\ \A i \in DOMAIN t : Len(s) + i \in DOMAIN u
  BY <1>1, <1>2
<1>4. QED
  BY <1>1, <1>2, <1>3 DEF u

-----------------------------------------------------------------------------
(***************************************************************************)
(* The invariant.                                                          *)
(***************************************************************************)

Typed ==
  /\ saved \in Saved
  /\ seen \in BOOLEAN /\ locked \in BOOLEAN /\ woken \in BOOLEAN
  /\ kreading \in {"no", "ready", "absent"}
  /\ restored \in [Lamps -> BOOLEAN] /\ tries \in [Lamps -> 0..MaxTries]
  /\ shown \in [Lamps -> ColourMaps] /\ asked \in [Lamps -> ColourMaps]
  /\ present \subseteq Lamps /\ trouble \in [Lamps -> SUBSET Regions]
  /\ ops \in 0..MaxOps /\ sleeps \in 0..MaxSleeps

\* A lamp the machine has not got is not read, and the keyboard was seen before
\* it was restored.
Fitted ==
  /\ "rgb" \notin Lamps => elc.reading = "no" /\ ~elc.pending
  /\ "kbd" \notin Lamps => kreading = "no" /\ ~seen
  /\ "kbd" \in Lamps /\ restored["kbd"] => kreading = "no" /\ seen

\* Until the plugin has heard that the machine woke up, what is shown is lost.
Lost(l) == IF woken THEN Regions ELSE trouble[l]

Promised ==
  \A l \in Lamps : restored[l] => Promise(elc, l, Speaks(saved)[l], asked[l], shown[l], Lost(l), saved.on)

LInv == Typed /\ ElcOK(elc) /\ Pumped(elc) /\ Fitted /\ Promised

LEMMA LookReads ==
  ASSUME NEW l PROVE Look(l) \in {"ready", "absent"}
  BY DEF Look

LEMMA LInvInit == Init => LInv
<1> SUFFICES ASSUME Init PROVE LInv
  OBVIOUS
<1>1. IsElc(Idle) /\ Idle.queue = <<>> /\ Idle.writing = None /\ Idle.reading = "no" /\ ~Idle.pending /\ Idle.retry \in BOOLEAN
      /\ Idle.pending \in BOOLEAN
  BY DEF Idle, IsElc
<1>2. QueueOf(<<>>)
  <2>1. <<>> \in Seq(JobSet) /\ DOMAIN <<>> = {}
    OBVIOUS
  <2>2. QED
    BY <2>1 DEF QueueOf, KeysApart
<1>3. Sound(Idle) /\ ElcOK(Idle) /\ Pumped(Idle)
  BY <1>1, <1>2 DEF Sound, ElcOK, Pumped
<1>4. ElcOK(RefreshRgb(Idle, Look("rgb"))) /\ Pumped(RefreshRgb(Idle, Look("rgb")))
  BY <1>3, LookReads, RefreshRgbKeeps
<1>5. ElcOK(elc) /\ Pumped(elc)
  BY <1>3, <1>4 DEF Init
<1>6. saved \in Saved
  <2>1. /\ saved.on \in BOOLEAN /\ saved.marked \in {[l \in Lamps |-> FALSE]} /\ saved.lit \in [Lamps -> SUBSET Regions]
        /\ saved.colour \in [Lamps -> PartialMaps(Colours)]
        /\ saved = [on |-> saved.on, colour |-> saved.colour, lit |-> saved.lit, marked |-> saved.marked]
    BY DEF Init
  <2>2. saved.marked \in [Lamps -> BOOLEAN]
    BY <2>1
  <2>3. QED
    BY <2>1, <2>2 DEF Saved
<1>7. [r \in Regions |-> Firmware] \in ColourMaps
  BY DEF ColourMaps, Hues
<1>8. Typed
  <2>1. kreading \in {"no", "ready", "absent"}
    BY LookReads DEF Init
  <2>2. tries \in [Lamps -> 0..MaxTries] /\ ops \in 0..MaxOps /\ sleeps \in 0..MaxSleeps
    BY DEF Init
  <2>3. shown \in [Lamps -> ColourMaps] /\ asked \in [Lamps -> ColourMaps]
    BY <1>7 DEF Init
  <2>4. restored \in [Lamps -> BOOLEAN] /\ present \subseteq Lamps /\ trouble \in [Lamps -> SUBSET Regions]
    BY DEF Init
  <2>5. seen \in BOOLEAN /\ locked \in BOOLEAN /\ woken \in BOOLEAN
    BY DEF Init
  <2>6. QED
    BY <1>6, <2>1, <2>2, <2>3, <2>4, <2>5 DEF Typed
<1>9. Fitted
  BY <1>1 DEF Init, Fitted
<1>10. Promised
  BY DEF Init, Promised
<1>11. QED
  BY <1>5, <1>8, <1>9, <1>10 DEF LInv

\* A promise for more regions holds for fewer, one of the dark when the lights
\* are switched on, and one for no region whatever.
LEMMA PromiseWeakens ==
  ASSUME NEW e, ElcOK(e), NEW l, NEW C, NEW K \in SUBSET Regions, NEW al, NEW sh, NEW tr,
         NEW on \in BOOLEAN, NEW new \in BOOLEAN,
         Promise(e, l, C, al, sh, tr, on), on => new /\ K \subseteq C
  PROVE  Promise(e, l, K, al, sh, tr, new)
<1>1. CASE on
  <2>1. Settles(e.queue, e.writing, l, C, al, sh, tr)
    BY <1>1 DEF Promise
  <2>2. Settles(e.queue, e.writing, l, K, al, sh, tr)
    BY <1>1, <2>1 DEF Settles
  <2>3. QED
    BY <1>1, <2>2 DEF Promise
<1>2. CASE ~on
  BY <1>2, DarkSettles DEF Promise, ElcOK, Sound
<1>3. QED
  BY <1>1, <1>2

LEMMA NothingPromised ==
  ASSUME NEW e, NEW l, NEW al, NEW sh, NEW tr
  PROVE  Promise(e, l, {}, al, sh, tr, TRUE)
  BY DEF Promise, Settles

\* Every request keeps the invariant whose jobs fit and, when it switches the
\* lights off or speaks for more regions of a restored lamp while they are on,
\* claim that lamp.
LEMMA RequestKeeps ==
  ASSUME LInv, NEW s \in Saved, NEW jobs \in Seq(Fits(Speaks(s), s.on)), Request(s, jobs),
         \A l \in Lamps : saved.on /\ restored[l] =>
           \/ s.on /\ Speaks(s)[l] \subseteq Speaks(saved)[l]
           \/ \E i \in DOMAIN jobs : Claims(jobs[i], l, s.on)
  PROVE  LInv'
<1>0. Typed /\ ElcOK(elc) /\ Pumped(elc) /\ Fitted /\ Promised
  BY DEF LInv
<1>1. /\ s.on \in BOOLEAN /\ saved.on \in BOOLEAN /\ asked \in [Lamps -> ColourMaps] /\ ops \in 0..MaxOps
      /\ Speaks(s) \in Spoken
  BY <1>0, LitFacts DEF Typed, Saved
<1>2. /\ ElcOK(EnqueueAll(elc, jobs)) /\ (Pumped(elc) => Pumped(EnqueueAll(elc, jobs)))
      /\ EnqueueAll(elc, jobs).reading = elc.reading /\ EnqueueAll(elc, jobs).pending = elc.pending
      /\ Said(asked, jobs) \in [Lamps -> ColourMaps]
      /\ Keeps(elc, asked, EnqueueAll(elc, jobs), Said(asked, jobs), jobs, Speaks(s), s.on)
  BY <1>0, <1>1, EnqueueAllKeeps
<1>3. /\ elc' = EnqueueAll(elc, jobs) /\ asked' = Said(asked, jobs) /\ saved' = s /\ ops < MaxOps /\ ops' = ops + 1
      /\ UNCHANGED <<seen, kreading, restored, tries, shown, present, locked, woken, trouble, sleeps>>
  BY DEF Request, worldVars
<1>4. ElcOK(elc') /\ Pumped(elc')
  BY <1>0, <1>2, <1>3
<1>5. ops' \in 0..MaxOps
  BY <1>1, <1>3
<1>6. Typed'
  BY <1>0, <1>2, <1>3, <1>5 DEF Typed
<1>7. Fitted'
  BY <1>0, <1>2, <1>3 DEF Fitted
<1>8. Promised'
  <2>0. Speaks(saved)' = Speaks(s)
    BY <1>3 DEF Speaks, Lit, Overlay, Effective
  <2> SUFFICES ASSUME NEW l \in Lamps, restored[l]
               PROVE  Promise(elc', l, Speaks(s)[l], asked'[l], shown[l], Lost(l), s.on)
    BY <1>3, <2>0 DEF Promised, Lost
  <2>1. Promise(elc, l, Speaks(saved)[l], asked[l], shown[l], Lost(l), saved.on)
    BY <1>0 DEF Promised
  <2>2. \/ Promise(elc, l, Speaks(s)[l], asked[l], shown[l], Lost(l), s.on)
        \/ \E i \in DOMAIN jobs : Claims(jobs[i], l, s.on)
    <3>1. Speaks(s)[l] \in SUBSET Regions
      BY LitFacts
    <3>2. CASE saved.on => s.on /\ Speaks(s)[l] \subseteq Speaks(saved)[l]
      BY <1>0, <1>1, <2>1, <3>1, <3>2, PromiseWeakens
    <3>3. QED
      BY <3>2
  <2>3. QED
    BY <1>2, <1>3, <2>2 DEF Keeps
<1>9. QED
  BY <1>4, <1>6, <1>7, <1>8 DEF LInv

\* A list of jobs has one that claims lamp l.
Claimed(jobs, l, on) == \E i \in DOMAIN jobs : Claims(jobs[i], l, on)

LEMMA ForFits ==
  ASSUME NEW l, NEW job, NEW D, NEW on \in BOOLEAN, l \in Lamps => job \in Fits(D, on)
  PROVE  For(l, job) \in Seq(Fits(D, on)) /\ (l \in Lamps /\ Claims(job, l, on) => Claimed(For(l, job), l, on))
<1>1. CASE l \in Lamps
  BY <1>1, OneJob DEF For, Claimed
<1>2. CASE l \notin Lamps
  BY <1>2 DEF For
<1>3. QED
  BY <1>1, <1>2

LEMMA RepaintAnyFits ==
  ASSUME NEW s \in Saved, s.on, NEW l, NEW map
  PROVE  /\ RepaintAny(s, l, map) \in Seq(Fits(Speaks(s), s.on))
         /\ l \in Lamps /\ (l = "kbd" => seen) /\ DOMAIN map # {} => Claimed(RepaintAny(s, l, map), l, s.on)
<1>1. CASE l \in Lamps /\ (l = "kbd" => seen) /\ DOMAIN map # {}
  <2>1. s.on = TRUE
    BY DEF Saved
  <2>2. Repaint(s, l) \in Fits(Speaks(s), TRUE) /\ Claims(Repaint(s, l), l, TRUE)
    BY <1>1, RepaintFits
  <2>3. <<Repaint(s, l)>> \in Seq(Fits(Speaks(s), TRUE)) /\ Claimed(<<Repaint(s, l)>>, l, TRUE)
    BY <2>2, OneJob DEF Claimed
  <2>4. RepaintAny(s, l, map) = <<Repaint(s, l)>>
    BY <1>1 DEF RepaintAny
  <2>5. QED
    BY <2>1, <2>3, <2>4
<1>2. CASE ~(l \in Lamps /\ (l = "kbd" => seen) /\ DOMAIN map # {})
  <2>1. RepaintAny(s, l, map) = <<>>
    BY <1>2 DEF RepaintAny
  <2>2. <<>> \in Seq(Fits(Speaks(s), s.on))
    OBVIOUS
  <2>3. QED
    BY <1>2, <2>1, <2>2
<1>3. QED
  BY <1>1, <1>2

LEMMA PushFits ==
  ASSUME NEW s \in Saved, NEW l
  PROVE  /\ Push(s, l) \in Seq(Fits(Speaks(s), s.on))
         /\ s.on /\ l \in Lamps /\ (l = "kbd" => seen) /\ Speaks(s)[l] # {} => Claimed(Push(s, l), l, s.on)
<1>1. CASE s.on
  <2>1. Push(s, l) = RepaintAny(s, l, Lit(s, l)) /\ (l \in Lamps => Speaks(s)[l] = DOMAIN Lit(s, l))
    BY <1>1, LitFacts DEF Push
  <2>2. QED
    BY <1>1, <2>1, RepaintAnyFits
<1>2. CASE ~s.on
  <2>1. Push(s, l) = <<>>
    BY <1>2 DEF Push
  <2>2. <<>> \in Seq(Fits(Speaks(s), s.on))
    OBVIOUS
  <2>3. QED
    BY <1>2, <2>1, <2>2
<1>3. QED
  BY <1>1, <1>2

\* Two lists, one after the other.
LEMMA BothFit ==
  ASSUME NEW D, NEW on \in BOOLEAN, NEW s \in Seq(Fits(D, on)), NEW t \in Seq(Fits(D, on))
  PROVE  /\ s \o t \in Seq(Fits(D, on))
         /\ \A l : Claimed(s, l, on) \/ Claimed(t, l, on) => Claimed(s \o t, l, on)
<1> DEFINE u == s \o t
<1>1. /\ u \in Seq(Fits(D, on))
      /\ \A i \in DOMAIN s : i \in DOMAIN u /\ u[i] = s[i]
      /\ \A i \in DOMAIN t : \E j \in DOMAIN u : u[j] = t[i]
  BY Both
<1> HIDE DEF u
<1>2. ASSUME NEW l, Claimed(s, l, on) PROVE Claimed(u, l, on)
  BY <1>1, <1>2 DEF Claimed
<1>3. ASSUME NEW l, Claimed(t, l, on) PROVE Claimed(u, l, on)
  BY <1>1, <1>3 DEF Claimed
<1>4. QED
  BY <1>1, <1>2, <1>3 DEF u

LEMMA OffJobsFit ==
  ASSUME seen => "kbd" \in Lamps, NEW D \in Spoken, NEW on \in BOOLEAN
  PROVE  /\ OffJobs \in Seq(Fits(D, on))
         /\ "rgb" \in Lamps => Claimed(OffJobs, "rgb", on)
         /\ seen => Claimed(OffJobs, "kbd", on)
<1>1. For("rgb", Off("rgb")) \in Seq(Fits(D, on)) /\ ("rgb" \in Lamps => Claimed(For("rgb", Off("rgb")), "rgb", on))
  BY OffFits, ForFits
<1>2. IfSeen(Off("kbd")) \in Seq(Fits(D, on)) /\ (seen => Claimed(IfSeen(Off("kbd")), "kbd", on))
  <2>1. CASE seen
    <3>1. Off("kbd") \in Fits(D, on) /\ Claims(Off("kbd"), "kbd", on)
      BY <2>1, OffFits
    <3>2. IfSeen(Off("kbd")) = <<Off("kbd")>>
      BY <2>1 DEF IfSeen
    <3>3. QED
      BY <3>1, <3>2, OneJob DEF Claimed
  <2>2. CASE ~seen
    BY <2>2 DEF IfSeen
  <2>3. QED
    BY <2>1, <2>2
<1>3. QED
  BY <1>1, <1>2, BothFit DEF OffJobs

-----------------------------------------------------------------------------
(***************************************************************************)
(* The requests.                                                           *)
(***************************************************************************)

LEMMA InvFacts ==
  ASSUME LInv
  PROVE  /\ saved \in Saved /\ saved.on \in BOOLEAN /\ (seen => "kbd" \in Lamps)
         /\ saved.colour \in [Lamps -> PartialMaps(Colours)]
         /\ saved.lit \in [Lamps -> SUBSET Regions] /\ saved.marked \in [Lamps -> BOOLEAN]
  BY DEF LInv, Typed, Fitted, Saved

LEMMA SavedChanges ==
  ASSUME NEW s, s = [on |-> s.on, colour |-> s.colour, lit |-> s.lit, marked |-> s.marked], s.on \in BOOLEAN,
         s.colour \in [Lamps -> PartialMaps(Colours)],
         s.lit \in [Lamps -> SUBSET Regions], s.marked \in [Lamps -> BOOLEAN]
  PROVE  s \in Saved
  BY DEF Saved

\* What a request leaves alone of lamp k is spoken for as before.
Alike(s, t, k) == s.on = t.on /\ s.colour[k] = t.colour[k] /\ s.lit[k] = t.lit[k] /\ s.marked[k] = t.marked[k]

LEMMA AlikeSpeak ==
  ASSUME NEW s, NEW t, NEW k \in Lamps, Alike(s, t, k)
  PROVE  Speaks(s)[k] = Speaks(t)[k]
  BY DEF Alike, Speaks, Lit, Overlay, Effective

\* A request for one lamp, whose job claims it.
LEMMA LampRequestKeeps ==
  ASSUME LInv, NEW s \in Saved, NEW l \in Lamps, NEW job \in Fits(Speaks(s), s.on), Request(s, <<job>>),
         saved.on => Claims(job, l, s.on) /\ \A k \in Lamps : k # l => Alike(s, saved, k)
  PROVE  LInv'
<1>1. <<job>> \in Seq(Fits(Speaks(s), s.on)) /\ 1 \in DOMAIN <<job>> /\ <<job>>[1] = job
  BY OneJob
<1>2. ASSUME NEW k \in Lamps, saved.on
      PROVE  \/ s.on /\ Speaks(s)[k] \subseteq Speaks(saved)[k]
             \/ \E i \in DOMAIN <<job>> : Claims(<<job>>[i], k, s.on)
  <2>1. CASE k = l
    BY <1>1, <1>2, <2>1
  <2>2. CASE k # l
    <3>1. Alike(s, saved, k)
      BY <1>2, <2>2
    <3>2. Speaks(s)[k] = Speaks(saved)[k]
      BY <3>1, AlikeSpeak
    <3>3. s.on
      BY <1>2, <3>1 DEF Alike
    <3>4. QED
      BY <3>2, <3>3
  <2>3. QED
    BY <2>1, <2>2
<1>3. QED
  BY <1>1, <1>2, RequestKeeps

LEMMA SetColorKeeps ==
  ASSUME LInv, NEW c \in Colours, SetColor(c) PROVE LInv'
<1> DEFINE map == [r \in Regions |-> c]
           s == [saved EXCEPT !.on = TRUE, !.colour["rgb"] = map]
<1>1. "rgb" \in Lamps /\ Request(s, <<Repaint(s, "rgb")>>)
  BY DEF SetColor
<1>2. saved \in Saved
  BY InvFacts
<1>3. map \in PartialMaps(Colours)
  BY DEF PartialMaps
<1> HIDE DEF map
<1>4. s \in Saved /\ s.on = TRUE /\ \A k \in Lamps : k # "rgb" /\ saved.on => Alike(s, saved, k)
  BY <1>1, <1>2, <1>3 DEF Saved, Alike
<1> HIDE DEF s
<1>5. Repaint(s, "rgb") \in Fits(Speaks(s), s.on) /\ Claims(Repaint(s, "rgb"), "rgb", s.on)
  BY <1>1, <1>4, RepaintFits
<1>6. QED
  BY <1>1, <1>4, <1>5, LampRequestKeeps

LEMMA ColouredFacts ==
  ASSUME NEW map \in PartialMaps(Colours), NEW R \in SUBSET Regions, NEW c \in Colours
  PROVE  Coloured(map, R, c) \in PartialMaps(Colours)
<1>1. PICK D \in SUBSET Regions : map \in [D -> Colours]
  BY DEF PartialMaps
<1> DEFINE E == D \cup R
<1>2. \A r \in E : (IF r \in R THEN c ELSE map[r]) \in Colours
  BY <1>1
<1>3. Coloured(map, R, c) = [r \in E |-> IF r \in R THEN c ELSE map[r]] /\ E \in SUBSET Regions
  BY <1>1 DEF Coloured
<1> HIDE DEF E
<1>4. Coloured(map, R, c) \in [E -> Colours]
  BY <1>2, <1>3
<1>5. QED
  BY <1>3, <1>4 DEF PartialMaps

\* The settings with another switch and colours for lamp l.
Changed(s, l, on, lit, map) == s = [saved EXCEPT !.on = on, !.lit[l] = lit, !.colour[l] = map]

LEMMA LampChanges ==
  ASSUME LInv, NEW l \in Lamps, NEW on \in BOOLEAN, NEW lit \in SUBSET Regions, NEW map \in PartialMaps(Colours),
         NEW s, Changed(s, l, on, lit, map)
  PROVE  /\ s \in Saved /\ s.on = on
         /\ saved.on /\ on => \A k \in Lamps : k # l => Alike(s, saved, k)
<1>1. /\ saved \in Saved /\ saved.colour \in [Lamps -> PartialMaps(Colours)]
      /\ saved.lit \in [Lamps -> SUBSET Regions] /\ saved.marked \in [Lamps -> BOOLEAN]
  BY InvFacts
<1> DEFINE lits == [saved.lit EXCEPT ![l] = lit]
           colours == [saved.colour EXCEPT ![l] = map]
<1>2. /\ lits \in [Lamps -> SUBSET Regions] /\ colours \in [Lamps -> PartialMaps(Colours)]
      /\ \A k \in Lamps : k # l => lits[k] = saved.lit[k] /\ colours[k] = saved.colour[k]
  BY <1>1
<1>3. s = [saved EXCEPT !.on = on, !.lit = lits, !.colour = colours]
  BY DEF Changed
<1> HIDE DEF lits, colours
<1>4. /\ s = [on |-> s.on, colour |-> s.colour, lit |-> s.lit, marked |-> s.marked]
      /\ s.on = on /\ s.colour = colours /\ s.lit = lits /\ s.marked = saved.marked
  BY <1>1, <1>3 DEF Saved
<1>5. s \in Saved
  BY <1>1, <1>2, <1>4, SavedChanges
<1>6. ASSUME saved.on, on, NEW k \in Lamps, k # l PROVE Alike(s, saved, k)
  <2>1. saved.on = TRUE /\ on = TRUE
    BY <1>6, InvFacts
  <2>2. QED
    BY <1>2, <1>4, <1>6, <2>1 DEF Alike
<1>7. QED
  BY <1>4, <1>5, <1>6

LEMMA SetColorsKeeps ==
  ASSUME LInv, NEW l \in Lamps, NEW R \in SUBSET Regions, NEW c \in Colours, SetColors(l, R, c) PROVE LInv'
<1> DEFINE s == [saved EXCEPT !.on = TRUE, !.lit[l] = @ \cup R, !.colour[l] = Coloured(@, R, c)]
           lit == saved.lit[l] \cup R
           map == Coloured(saved.colour[l], R, c)
<1>1. Request(s, <<Repaint(s, l)>>)
  BY DEF SetColors
<1>2. saved.colour[l] \in PartialMaps(Colours) /\ saved.lit[l] \in SUBSET Regions
  BY InvFacts
<1>3. lit \in SUBSET Regions /\ map \in PartialMaps(Colours)
  BY <1>2, ColouredFacts
<1>4. Changed(s, l, TRUE, lit, map)
  BY DEF Changed
<1> HIDE DEF s, lit, map
<1>5. s \in Saved /\ s.on = TRUE /\ (saved.on /\ TRUE => \A k \in Lamps : k # l => Alike(s, saved, k))
  BY <1>3, <1>4, LampChanges
<1>6. Repaint(s, l) \in Fits(Speaks(s), s.on) /\ Claims(Repaint(s, l), l, s.on)
  BY <1>5, RepaintFits
<1>7. QED
  BY <1>1, <1>5, <1>6, LampRequestKeeps

LEMMA SetRegionOnKeeps ==
  ASSUME LInv, NEW l \in Lamps, NEW R \in SUBSET Regions, NEW on \in BOOLEAN, NEW last \in Colours,
         SetRegionOn(l, R, on, last)
  PROVE  LInv'
<1> DEFINE new == IF on THEN R \ DOMAIN saved.colour[l] ELSE {}
           s == [saved EXCEPT !.on = @ \/ on, !.lit[l] = IF on THEN @ \cup R ELSE @ \ R,
                              !.colour[l] = Coloured(@, new, last)]
           either == saved.on \/ on
           lit == IF on THEN saved.lit[l] \cup R ELSE saved.lit[l] \ R
           map == Coloured(saved.colour[l], new, last)
           job(x) == SetMap(l, Overlay(x, l, PowerPayload(x, l, R)))
<1>1. Request(s, <<job(s)>>)
  BY DEF SetRegionOn
<1>2. saved.colour[l] \in PartialMaps(Colours) /\ saved.lit[l] \in SUBSET Regions /\ saved.on \in BOOLEAN
  BY InvFacts
<1>3. lit \in SUBSET Regions /\ map \in PartialMaps(Colours) /\ either \in BOOLEAN
  <2>1. new \in SUBSET Regions
    OBVIOUS
  <2>2. QED
    BY <1>2, <2>1, ColouredFacts
<1>4. Changed(s, l, either, lit, map)
  BY DEF Changed
<1>5. saved.on => either
  OBVIOUS
<1> HIDE DEF new, s, lit, map, either
<1>6. s \in Saved /\ s.on = either /\ (saved.on /\ either => \A k \in Lamps : k # l => Alike(s, saved, k))
  BY <1>3, <1>4, LampChanges
<1>7. job(s) \in Fits(Speaks(s), s.on)
  BY <1>6, PowerFits
<1>8. Claims(job(s), l, s.on) \/ ~saved.on
  <2>1. Paints(job(s), l)
    BY DEF Paints, SetMap, Job
  <2>2. QED
    BY <1>5, <1>6, <2>1 DEF Claims
<1> HIDE DEF job
<1>9. QED
  BY <1>1, <1>5, <1>6, <1>7, <1>8, LampRequestKeeps

LEMMA SetBrightnessKeeps ==
  ASSUME LInv, NEW percent \in {0, 100}, SetBrightness(percent) PROVE LInv'
<1> DEFINE s == [saved EXCEPT !.on = @ \/ percent > 0]
<1>1. Request(s, <<Brightness>>)
  BY DEF SetBrightness
<1>2. saved \in Saved
  BY InvFacts
<1>3. s \in Saved /\ s.on \in BOOLEAN /\ (saved.on => s.on /\ \A k \in Lamps : Alike(s, saved, k))
  BY <1>2 DEF Saved, Alike
<1> HIDE DEF s
<1>4. <<Brightness>> \in Seq(Fits(Speaks(s), s.on))
  BY <1>3, BrightnessFits, LitFacts, OneJob
<1>5. \A k \in Lamps : saved.on => s.on /\ Speaks(s)[k] = Speaks(saved)[k]
  BY <1>3, AlikeSpeak
<1>6. QED
  BY <1>1, <1>3, <1>4, <1>5, RequestKeeps

LEMMA LightsOffKeeps ==
  ASSUME LInv, LightsOff PROVE LInv'
<1> DEFINE s == [saved EXCEPT !.on = FALSE]
<1>1. Request(s, OffJobs)
  BY DEF LightsOff
<1>2. saved \in Saved /\ (seen => "kbd" \in Lamps)
  BY InvFacts
<1>3. s \in Saved /\ s.on = FALSE
  BY <1>2 DEF Saved
<1> HIDE DEF s
<1>4. /\ OffJobs \in Seq(Fits(Speaks(s), s.on))
      /\ "rgb" \in Lamps => Claimed(OffJobs, "rgb", s.on)
      /\ seen => Claimed(OffJobs, "kbd", s.on)
  BY <1>2, <1>3, OffJobsFit, LitFacts
<1>5. ASSUME NEW l \in Lamps, restored[l] PROVE \E i \in DOMAIN OffJobs : Claims(OffJobs[i], l, s.on)
  <2>1. l = "kbd" => seen
    BY <1>5 DEF LInv, Fitted
  <2>2. l \in {"rgb", "kbd"}
    OBVIOUS
  <2>3. QED
    BY <1>4, <2>1, <2>2 DEF Claimed
<1>6. QED
  BY <1>1, <1>3, <1>4, <1>5, RequestKeeps

LEMMA RestoreLightsKeeps ==
  ASSUME LInv, RestoreLights PROVE LInv'
<1> DEFINE s == [saved EXCEPT !.on = TRUE]
           a == For("rgb", Brightness)
           b(l) == RepaintAny(s, l, Effective(s, l))
<1>1. Request(s, a \o b("rgb") \o b("kbd"))
  BY DEF RestoreLights
<1>2. saved \in Saved
  BY InvFacts
<1>3. s \in Saved /\ s.on = TRUE /\ (saved.on => \A k \in Lamps : Alike(s, saved, k))
  BY <1>2 DEF Saved, Alike
<1> HIDE DEF s
<1>4. a \in Seq(Fits(Speaks(s), s.on))
  BY <1>3, BrightnessFits, LitFacts, ForFits
<1>5. b("rgb") \in Seq(Fits(Speaks(s), s.on)) /\ b("kbd") \in Seq(Fits(Speaks(s), s.on))
  BY <1>3, RepaintAnyFits
<1> HIDE DEF a, b
<1>6. a \o b("rgb") \o b("kbd") \in Seq(Fits(Speaks(s), s.on))
  BY <1>3, <1>4, <1>5, BothFit
<1>7. \A k \in Lamps : saved.on => s.on /\ Speaks(s)[k] = Speaks(saved)[k]
  BY <1>3, AlikeSpeak
<1>8. QED
  BY <1>1, <1>3, <1>6, <1>7, RequestKeeps

\* A push claims its lamp if it was restored, unless there is nothing to say.
LEMMA PushSpeaks ==
  ASSUME LInv, NEW s \in Saved, s.on, NEW l \in Lamps, restored[l]
  PROVE  Speaks(s)[l] = {} \/ Claimed(Push(s, l), l, s.on)
<1>1. l = "kbd" => seen
  BY DEF LInv, Fitted
<1>2. QED
  BY <1>1, PushFits

LEMMA ApplyThemeColorKeeps ==
  ASSUME LInv, NEW c \in Colours, ApplyThemeColor(c) PROVE LInv'
<1> DEFINE map == [r \in Regions |-> c]
           s == [saved EXCEPT !.colour = [l \in Lamps |-> map]]
           a == Push(s, "rgb")
           b == Push(s, "kbd")
<1>1. Request(s, a \o b)
  BY DEF ApplyThemeColor
<1>2. saved \in Saved
  BY InvFacts
<1>3. map \in PartialMaps(Colours)
  BY DEF PartialMaps
<1> HIDE DEF map
<1>4. s \in Saved /\ s.on = saved.on /\ s.on \in BOOLEAN
  BY <1>2, <1>3 DEF Saved
<1> HIDE DEF s
<1>5. a \in Seq(Fits(Speaks(s), s.on)) /\ b \in Seq(Fits(Speaks(s), s.on))
  BY <1>4, PushFits
<1>6. ASSUME NEW l \in Lamps, saved.on, restored[l]
      PROVE  Speaks(s)[l] = {} \/ Claimed(a, l, s.on) \/ Claimed(b, l, s.on)
  <2>1. Speaks(s)[l] = {} \/ Claimed(Push(s, l), l, s.on)
    BY <1>4, <1>6, PushSpeaks
  <2>2. l = "rgb" \/ l = "kbd"
    OBVIOUS
  <2>3. QED
    BY <2>1, <2>2
<1> HIDE DEF a, b
<1>7. a \o b \in Seq(Fits(Speaks(s), s.on)) /\ \A l : Claimed(a, l, s.on) \/ Claimed(b, l, s.on) => Claimed(a \o b, l, s.on)
  BY <1>4, <1>5, BothFit
<1>8. \A l \in Lamps : saved.on /\ restored[l] => Speaks(s)[l] = {} \/ \E i \in DOMAIN (a \o b) : Claims((a \o b)[i], l, s.on)
  BY <1>6, <1>7 DEF Claimed
<1>9. QED
  BY <1>1, <1>4, <1>7, <1>8, RequestKeeps

LEMMA OverlayReadKeeps ==
  ASSUME LInv, NEW l \in Lamps, NEW marked \in BOOLEAN, OverlayRead(l, marked) PROVE LInv'
<1> DEFINE s == [saved EXCEPT !.marked[l] = marked]
<1>1. Request(s, Push(s, l))
  BY DEF OverlayRead
<1>2. saved \in Saved
  BY InvFacts
<1>3. s \in Saved /\ s.on = saved.on /\ s.on \in BOOLEAN /\ \A k \in Lamps : k # l => Alike(s, saved, k)
  BY <1>2 DEF Saved, Alike
<1> HIDE DEF s
<1>4. Push(s, l) \in Seq(Fits(Speaks(s), s.on))
  BY <1>3, PushFits
<1>5. ASSUME NEW k \in Lamps, saved.on, restored[k]
      PROVE  Speaks(s)[k] \subseteq Speaks(saved)[k] \/ Claimed(Push(s, l), k, s.on)
  <2>1. CASE k = l
    BY <1>3, <1>5, <2>1, PushSpeaks
  <2>2. CASE k # l
    BY <1>3, <2>2, AlikeSpeak
  <2>3. QED
    BY <2>1, <2>2
<1>6. QED
  BY <1>1, <1>3, <1>4, <1>5, RequestKeeps DEF Claimed

-----------------------------------------------------------------------------
(***************************************************************************)
(* The reads, the timers and the machine.                                  *)
(***************************************************************************)

LEMMA RestoreSavedFits ==
  ASSUME LInv, "rgb" \in Lamps
  PROVE  /\ RestoreSavedLights \in Seq(Fits(Speaks(saved), saved.on))
         /\ Claimed(RestoreSavedLights, "rgb", saved.on) \/ (saved.on /\ Speaks(saved)["rgb"] = {})
<1> DEFINE D == Speaks(saved)
<1>1. saved \in Saved /\ saved.on \in BOOLEAN /\ (seen => "kbd" \in Lamps) /\ D \in Spoken
  BY InvFacts, LitFacts
<1>2. CASE saved.on
  <2> DEFINE a == <<Brightness>>
             b == Push(saved, "rgb")
  <2>1. RestoreSavedLights = a \o b
    BY <1>2 DEF RestoreSavedLights
  <2>2. a \in Seq(Fits(D, saved.on))
    BY <1>1, BrightnessFits, OneJob
  <2>3. b \in Seq(Fits(D, saved.on)) /\ (D["rgb"] # {} => Claimed(b, "rgb", saved.on))
    BY <1>1, <1>2, PushFits
  <2> HIDE DEF a, b, D
  <2>4. a \o b \in Seq(Fits(D, saved.on)) /\ (Claimed(b, "rgb", saved.on) => Claimed(a \o b, "rgb", saved.on))
    BY <1>1, <2>2, <2>3, BothFit
  <2>5. QED
    BY <1>2, <2>1, <2>3, <2>4 DEF D
<1>3. CASE ~saved.on
  <2>1. RestoreSavedLights = OffJobs
    BY <1>3 DEF RestoreSavedLights
  <2>2. OffJobs \in Seq(Fits(D, saved.on)) /\ Claimed(OffJobs, "rgb", saved.on)
    BY <1>1, OffJobsFit
  <2>3. QED
    BY <2>1, <2>2
<1>4. QED
  BY <1>2, <1>3

LEMMA RestoreSavedKeyboardFits ==
  ASSUME LInv, "kbd" \in Lamps
  PROVE  /\ RestoreSavedKeyboard \in Seq(Fits(Speaks(saved), saved.on))
         /\ Claimed(RestoreSavedKeyboard, "kbd", saved.on) \/ (saved.on /\ Speaks(saved)["kbd"] = {})
<1> DEFINE D == Speaks(saved)
<1>1. saved \in Saved /\ saved.on \in BOOLEAN /\ D \in Spoken /\ D["kbd"] = DOMAIN Lit(saved, "kbd")
  BY InvFacts, LitFacts
<1>2. ASSUME NEW job \in Fits(D, saved.on), Claims(job, "kbd", saved.on), RestoreSavedKeyboard = <<job>>
      PROVE  RestoreSavedKeyboard \in Seq(Fits(D, saved.on)) /\ Claimed(RestoreSavedKeyboard, "kbd", saved.on)
  BY <1>2, OneJob DEF Claimed
<1>3. CASE ~saved.on
  <2>1. Off("kbd") \in Fits(D, saved.on) /\ Claims(Off("kbd"), "kbd", saved.on)
    BY <1>1, OffFits
  <2>2. RestoreSavedKeyboard = <<Off("kbd")>>
    BY <1>3 DEF RestoreSavedKeyboard
  <2>3. QED
    BY <1>2, <2>1, <2>2
<1>4. CASE saved.on /\ D["kbd"] # {}
  <2>1. Repaint(saved, "kbd") \in Fits(D, saved.on) /\ Claims(Repaint(saved, "kbd"), "kbd", saved.on)
    <3>1. saved.on = TRUE
      BY <1>1, <1>4
    <3>2. QED
      BY <1>1, <3>1, RepaintFits
  <2>2. RestoreSavedKeyboard = <<Repaint(saved, "kbd")>>
    BY <1>1, <1>4 DEF RestoreSavedKeyboard
  <2>3. QED
    BY <1>2, <2>1, <2>2
<1>5. CASE saved.on /\ D["kbd"] = {}
  <2>1. RestoreSavedKeyboard = <<>>
    BY <1>1, <1>5 DEF RestoreSavedKeyboard
  <2>2. <<>> \in Seq(Fits(D, saved.on))
    OBVIOUS
  <2>3. QED
    BY <1>5, <2>1, <2>2
<1>6. QED
  BY <1>3, <1>4, <1>5

\* The lamps that are restored have promises, a lamp that is restored now gets one.
LEMMA RestoredPromise ==
  ASSUME LInv, NEW f, NEW b, NEW jobs, Keeps(elc, asked, f, b, jobs, Speaks(saved), saved.on),
         NEW l \in Lamps, restored[l] \/ Claimed(jobs, l, saved.on) \/ (saved.on /\ Speaks(saved)[l] = {})
  PROVE  Promise(f, l, Speaks(saved)[l], b[l], shown[l], Lost(l), saved.on)
<1>1. CASE restored[l]
  <2>1. Promise(elc, l, Speaks(saved)[l], asked[l], shown[l], Lost(l), saved.on)
    BY <1>1 DEF LInv, Promised
  <2>2. QED
    BY <2>1 DEF Keeps
<1>2. CASE Claimed(jobs, l, saved.on)
  BY <1>2 DEF Keeps, Claimed
<1>3. CASE saved.on /\ Speaks(saved)[l] = {}
  BY <1>3 DEF Promise, Settles
<1>4. QED
  BY <1>1, <1>2, <1>3

LEMMA RgbReadExitsKeeps ==
  ASSUME LInv, RgbReadExits PROVE LInv'
<1>0. Typed /\ ElcOK(elc) /\ Pumped(elc) /\ Fitted /\ Promised
  BY DEF LInv
<1>1. /\ elc.reading # "no"
      /\ UNCHANGED <<saved, seen, kreading, tries, shown, present, locked, woken, trouble, ops, sleeps>>
  BY DEF RgbReadExits, worldVars
<1>2. "rgb" \in Lamps
  BY <1>0, <1>1 DEF Fitted
<1>3. PICK ok \in {elc.reading = "ready", "rgb" \in present} \cup MayFail :
        LET restores == ok /\ ~restored["rgb"]
            jobs == IF restores THEN RestoreSavedLights ELSE <<>>
        IN  /\ restored' = [restored EXCEPT !["rgb"] = @ \/ ok]
            /\ elc' = ReadDone(elc, jobs)
            /\ asked' = Said(asked, jobs)
  BY DEF RgbReadExits
<1> DEFINE restores == ok /\ ~restored["rgb"]
           jobs == IF restores THEN RestoreSavedLights ELSE <<>>
<1>4. restored' = [restored EXCEPT !["rgb"] = @ \/ ok] /\ elc' = ReadDone(elc, jobs) /\ asked' = Said(asked, jobs)
  BY <1>3
<1>5. ok \in BOOLEAN
  <2>1. MayFail \subseteq {FALSE}
    BY DEF MayFail
  <2>2. (elc.reading = "ready") \in BOOLEAN /\ ("rgb" \in present) \in BOOLEAN
    OBVIOUS
  <2>3. QED
    BY <2>1, <2>2
<1>6. /\ jobs \in Seq(Fits(Speaks(saved), saved.on))
      /\ restores => Claimed(jobs, "rgb", saved.on) \/ (saved.on /\ Speaks(saved)["rgb"] = {})
  <2>1. <<>> \in Seq(Fits(Speaks(saved), saved.on))
    OBVIOUS
  <2>2. QED
    BY <1>2, <2>1, RestoreSavedFits
<1>7. /\ saved.on \in BOOLEAN /\ asked \in [Lamps -> ColourMaps] /\ restored \in [Lamps -> BOOLEAN]
      /\ Speaks(saved) \in Spoken
  BY <1>0, InvFacts, LitFacts DEF Typed
<1>8. \A l \in Lamps : restored'[l] => restored[l] \/ (l = "rgb" /\ restores)
  BY <1>4, <1>5, <1>7
<1>9. restored' \in [Lamps -> BOOLEAN]
  BY <1>4, <1>5, <1>7
<1>10. \A l \in Lamps : l # "rgb" => restored'[l] = restored[l]
  BY <1>4, <1>7
<1> HIDE DEF jobs, restores
<1>11. /\ ElcOK(ReadDone(elc, jobs)) /\ Pumped(ReadDone(elc, jobs)) /\ ReadDone(elc, jobs).reading = "no"
       /\ Said(asked, jobs) \in [Lamps -> ColourMaps]
       /\ Keeps(elc, asked, ReadDone(elc, jobs), Said(asked, jobs), jobs, Speaks(saved), saved.on)
  BY <1>0, <1>1, <1>6, <1>7, ReadDoneKeeps
<1>12. Typed'
  BY <1>0, <1>1, <1>4, <1>9, <1>11 DEF Typed
<1>13. Fitted'
  BY <1>0, <1>1, <1>2, <1>10 DEF Fitted
<1>14. Promised'
  <2>0. Speaks(saved)' = Speaks(saved)
    BY <1>1 DEF Speaks, Lit, Overlay, Effective
  <2> SUFFICES ASSUME NEW l \in Lamps, restored'[l]
               PROVE  Promise(elc', l, Speaks(saved)[l], asked'[l], shown[l], Lost(l), saved.on)
    BY <1>1, <2>0 DEF Promised, Lost
  <2>1. restored[l] \/ Claimed(jobs, l, saved.on) \/ (saved.on /\ Speaks(saved)[l] = {})
    BY <1>6, <1>8
  <2>2. QED
    BY <1>4, <1>11, <2>1, RestoredPromise
<1>15. QED
  BY <1>4, <1>11, <1>12, <1>13, <1>14 DEF LInv

LEMMA KbdReadExitsKeeps ==
  ASSUME LInv, KbdReadExits PROVE LInv'
<1>0. Typed /\ ElcOK(elc) /\ Pumped(elc) /\ Fitted /\ Promised
  BY DEF LInv
<1>1. /\ kreading # "no" /\ kreading' = "no"
      /\ UNCHANGED <<saved, tries, shown, present, locked, woken, trouble, ops, sleeps>>
  BY DEF KbdReadExits, worldVars
<1>2. "kbd" \in Lamps
  BY <1>0, <1>1 DEF Fitted
<1>3. ~restored["kbd"]
  BY <1>0, <1>1, <1>2 DEF Fitted
<1>4. CASE UNCHANGED <<elc, seen, restored, asked>>
  <2>1. Typed' /\ Promised'
    BY <1>0, <1>1, <1>4 DEF Typed, Promised, Lost, Speaks, Lit, Overlay, Effective
  <2>2. Fitted'
    BY <1>0, <1>1, <1>3, <1>4 DEF Fitted
  <2>3. QED
    BY <1>0, <1>4, <2>1, <2>2 DEF LInv
<1>5. CASE \E found \in {kreading = "ready", "kbd" \in present} :
             LET restores == found /\ ~restored["kbd"]
                 jobs == IF restores THEN RestoreSavedKeyboard ELSE <<>>
             IN  /\ seen' = found
                 /\ restored' = [restored EXCEPT !["kbd"] = @ \/ found]
                 /\ elc' = EnqueueAll(elc, jobs)
                 /\ asked' = Said(asked, jobs)
  <2>1. PICK found \in {kreading = "ready", "kbd" \in present} :
          LET restores == found /\ ~restored["kbd"]
              jobs == IF restores THEN RestoreSavedKeyboard ELSE <<>>
          IN  /\ seen' = found
              /\ restored' = [restored EXCEPT !["kbd"] = @ \/ found]
              /\ elc' = EnqueueAll(elc, jobs)
              /\ asked' = Said(asked, jobs)
    BY <1>5
  <2> DEFINE restores == found /\ ~restored["kbd"]
             jobs == IF restores THEN RestoreSavedKeyboard ELSE <<>>
  <2>2. /\ seen' = found /\ restored' = [restored EXCEPT !["kbd"] = @ \/ found]
        /\ elc' = EnqueueAll(elc, jobs) /\ asked' = Said(asked, jobs)
    BY <2>1
  <2>13. found \in BOOLEAN
    <3>1. (kreading = "ready") \in BOOLEAN /\ ("kbd" \in present) \in BOOLEAN
      OBVIOUS
    <3>2. QED
      BY <3>1
  <2>3. /\ saved \in Saved /\ saved.on \in BOOLEAN /\ asked \in [Lamps -> ColourMaps] /\ restored \in [Lamps -> BOOLEAN]
        /\ Speaks(saved) \in Spoken
    BY <1>0, InvFacts, LitFacts DEF Typed
  <2>4. /\ jobs \in Seq(Fits(Speaks(saved), saved.on))
        /\ restores => Claimed(jobs, "kbd", saved.on) \/ (saved.on /\ Speaks(saved)["kbd"] = {})
    <3>1. <<>> \in Seq(Fits(Speaks(saved), saved.on))
      OBVIOUS
    <3>2. QED
      BY <1>2, <3>1, RestoreSavedKeyboardFits
  <2>5. restored' \in [Lamps -> BOOLEAN]
    BY <2>2, <2>3, <2>13
  <2>6. \A l \in Lamps : restored'[l] => restored[l] \/ (l = "kbd" /\ restores)
    BY <2>2, <2>3, <2>13
  <2>7. restored'["kbd"] => seen'
    BY <1>2, <1>3, <2>2, <2>3, <2>13
  <2> HIDE DEF jobs, restores
  <2>8. /\ ElcOK(EnqueueAll(elc, jobs)) /\ (Pumped(elc) => Pumped(EnqueueAll(elc, jobs)))
        /\ EnqueueAll(elc, jobs).reading = elc.reading /\ EnqueueAll(elc, jobs).pending = elc.pending
        /\ Said(asked, jobs) \in [Lamps -> ColourMaps]
        /\ Keeps(elc, asked, EnqueueAll(elc, jobs), Said(asked, jobs), jobs, Speaks(saved), saved.on)
    BY <1>0, <2>3, <2>4, EnqueueAllKeeps
  <2>9. Typed'
    BY <1>0, <1>1, <2>2, <2>5, <2>8, <2>13 DEF Typed
  <2>10. Fitted'
    BY <1>0, <1>1, <1>2, <2>2, <2>7, <2>8 DEF Fitted
  <2>11. Promised'
    <3>0. Speaks(saved)' = Speaks(saved)
      BY <1>1 DEF Speaks, Lit, Overlay, Effective
    <3> SUFFICES ASSUME NEW l \in Lamps, restored'[l]
                 PROVE  Promise(elc', l, Speaks(saved)[l], asked'[l], shown[l], Lost(l), saved.on)
      BY <1>1, <3>0 DEF Promised, Lost
    <3>1. restored[l] \/ Claimed(jobs, l, saved.on) \/ (saved.on /\ Speaks(saved)[l] = {})
      BY <2>4, <2>6
    <3>2. QED
      BY <2>2, <2>8, <3>1, RestoredPromise
  <2>12. QED
    BY <1>0, <2>2, <2>8, <2>9, <2>10, <2>11 DEF LInv
<1>6. QED
  BY <1>4, <1>5 DEF KbdReadExits

LEMMA ElcRetryKeeps ==
  ASSUME LInv, ElcRetry PROVE LInv'
<1>0. Typed /\ ElcOK(elc) /\ Pumped(elc) /\ Fitted /\ Promised
  BY DEF LInv
<1>1. /\ elc' = Retry(elc, Look("rgb"))
      /\ UNCHANGED <<saved, seen, kreading, restored, tries, shown, present, locked, woken, asked, trouble, ops, sleeps>>
  BY DEF ElcRetry, worldVars
<1>2. Look("rgb") \in {"ready", "absent"} /\ saved.on \in BOOLEAN
  BY LookReads, InvFacts
<1>3. /\ ElcOK(Retry(elc, Look("rgb"))) /\ Pumped(Retry(elc, Look("rgb")))
      /\ ~elc.pending => Retry(elc, Look("rgb")).reading = elc.reading /\ ~Retry(elc, Look("rgb")).pending
      /\ \A l, C, al, sh, tr : \A on \in BOOLEAN :
           Promise(elc, l, C, al, sh, tr, on) => Promise(Retry(elc, Look("rgb")), l, C, al, sh, tr, on)
  BY <1>0, <1>2, RetryKeeps
<1>4. Typed'
  BY <1>0, <1>1 DEF Typed
<1>5. Fitted'
  BY <1>0, <1>1, <1>3 DEF Fitted
<1>6. Promised'
  <2>1. Speaks(saved)' = Speaks(saved)
    BY <1>1 DEF Speaks, Lit, Overlay, Effective
  <2>2. QED
    BY <1>0, <1>1, <1>2, <1>3, <2>1 DEF Promised, Lost
<1>7. QED
  BY <1>1, <1>3, <1>4, <1>5, <1>6 DEF LInv

LEMMA RestoreTickKeeps ==
  ASSUME LInv, NEW l \in Lamps, RestoreTick(l) PROVE LInv'
<1>0. Typed /\ ElcOK(elc) /\ Pumped(elc) /\ Fitted /\ Promised
  BY DEF LInv
<1>1. /\ ~restored[l] /\ tries[l] < MaxTries /\ tries' = [tries EXCEPT ![l] = @ + 1] /\ RefreshLamp(l)
      /\ UNCHANGED <<saved, seen, restored, shown, present, locked, woken, asked, trouble, ops, sleeps>>
  BY DEF RestoreTick, worldVars
<1>2. tries' \in [Lamps -> 0..MaxTries]
  <2>1. tries[l] + 1 \in 0..MaxTries /\ tries \in [Lamps -> 0..MaxTries]
    BY <1>0, <1>1 DEF Typed
  <2>2. QED
    BY <1>1, <2>1
<1>3. Look("rgb") \in {"ready", "absent"} /\ Look("kbd") \in {"ready", "absent"} /\ Sound(elc)
  BY <1>0, LookReads DEF ElcOK
<1>4. /\ ElcOK(RefreshRgb(elc, Look("rgb"))) /\ Pumped(RefreshRgb(elc, Look("rgb")))
      /\ RefreshRgb(elc, Look("rgb")).queue = elc.queue /\ RefreshRgb(elc, Look("rgb")).writing = elc.writing
  BY <1>3, RefreshRgbKeeps
<1>5. l = "rgb" \/ l = "kbd"
  OBVIOUS
<1>6. /\ ElcOK(elc') /\ Pumped(elc') /\ elc'.queue = elc.queue /\ elc'.writing = elc.writing
      /\ kreading' \in {"no", "ready", "absent"}
      /\ l # "rgb" => elc' = elc
      /\ l # "kbd" => kreading' = kreading
  BY <1>0, <1>1, <1>3, <1>4, <1>5 DEF RefreshLamp, Typed
<1>7. Typed'
  BY <1>0, <1>1, <1>2, <1>6 DEF Typed
<1>8. Fitted'
  BY <1>0, <1>1, <1>5, <1>6 DEF Fitted
<1>9. Promised'
  <2>1. Speaks(saved)' = Speaks(saved)
    BY <1>1 DEF Speaks, Lit, Overlay, Effective
  <2>2. QED
    BY <1>0, <1>1, <1>6, <2>1 DEF Promised, Lost, Promise
<1>10. QED
  BY <1>6, <1>7, <1>8, <1>9 DEF LInv

\* A reload forgets the latches and the tries; what else a step of it changes of
\* the machine keeps its type.
LEMMA ReloadKeeps ==
  ASSUME LInv, Reload, shown' = shown, present' = present, locked' = locked, woken' \in BOOLEAN,
         ops' \in 0..MaxOps, sleeps' = sleeps
  PROVE  LInv'
<1>0. Typed /\ ElcOK(elc) /\ Pumped(elc) /\ Fitted /\ Promised
  BY DEF LInv
<1>1. Look("rgb") \in {"ready", "absent"} /\ Look("kbd") \in {"ready", "absent"} /\ Sound(elc)
  BY <1>0, LookReads DEF ElcOK
<1>2. ElcOK(RefreshRgb(elc, Look("rgb"))) /\ Pumped(RefreshRgb(elc, Look("rgb")))
  BY <1>1, RefreshRgbKeeps
<1>3. /\ restored' = [l \in Lamps |-> FALSE] /\ tries' = [l \in Lamps |-> 0]
      /\ elc' = IF "rgb" \in Lamps THEN RefreshRgb(elc, Look("rgb")) ELSE elc
      /\ kreading' = IF "kbd" \in Lamps /\ kreading = "no" THEN Look("kbd") ELSE kreading
      /\ UNCHANGED <<saved, seen, asked, trouble>>
  BY DEF Reload
<1>4. ElcOK(elc') /\ Pumped(elc')
  BY <1>0, <1>2, <1>3
<1>5. restored' \in [Lamps -> BOOLEAN] /\ tries' \in [Lamps -> 0..MaxTries] /\ \A l \in Lamps : ~restored'[l]
  BY <1>3
<1>6. kreading' \in {"no", "ready", "absent"}
  BY <1>0, <1>1, <1>3 DEF Typed
<1>7. Typed'
  BY <1>0, <1>3, <1>5, <1>6 DEF Typed
<1>8. Fitted'
  BY <1>0, <1>3, <1>5 DEF Fitted
<1>9. Promised'
  BY <1>5 DEF Promised
<1>10. QED
  BY <1>4, <1>7, <1>8, <1>9 DEF LInv

LEMMA AskReloadKeeps ==
  ASSUME LInv, AskReload PROVE LInv'
<1>1. /\ ops \in 0..MaxOps /\ woken \in BOOLEAN
  BY DEF LInv, Typed
<1>2. /\ Reload /\ UNCHANGED <<shown, present, locked, woken, sleeps>> /\ ops < MaxOps /\ ops' = ops + 1
  BY DEF AskReload, worldVars
<1>3. ops' \in 0..MaxOps
  BY <1>1, <1>2
<1>4. QED
  BY <1>1, <1>2, <1>3, ReloadKeeps

LEMMA ResumeKeeps ==
  ASSUME LInv, Resume PROVE LInv'
<1>1. Reload /\ UNCHANGED <<shown, present, locked, ops, sleeps>> /\ woken' = FALSE
  BY DEF Resume
<1>2. ops' \in 0..MaxOps
  BY <1>1 DEF LInv, Typed
<1>3. QED
  BY <1>1, <1>2, ReloadKeeps

\* A write that ends.  One that had no effect lost its word, unless polkit denied
\* it and the keyboard's restore is armed again.
LEMMA WriteEndsKeeps ==
  ASSUME LInv, elc.writing # None, NEW rearm \in BOOLEAN, NEW effect \in BOOLEAN, NEW lost \in BOOLEAN,
         WriteEnds(rearm, effect, lost),
         \A l \in Lamps : Paints(elc.writing, l) /\ ~effect => lost \/ (l = "kbd" /\ (rearm \/ ~seen))
  PROVE  LInv'
<1>0. Typed /\ ElcOK(elc) /\ Pumped(elc) /\ Fitted /\ Promised
  BY DEF LInv
<1> DEFINE troubled(l) == LET written == {r \in Regions : Names(elc.writing, l, r)}
                          IN  IF lost THEN trouble[l] \cup written
                              ELSE IF effect THEN trouble[l] \ written ELSE trouble[l]
<1>1. /\ elc' = WriteDone(elc)
      /\ restored' = [l \in Lamps |-> restored[l] /\ ~(l = "kbd" /\ rearm)]
      /\ tries' = [l \in Lamps |-> IF l = "kbd" /\ rearm THEN 0 ELSE tries[l]]
      /\ shown' = [l \in Lamps |-> IF effect /\ Paints(elc.writing, l)
                                   THEN Painted(elc.writing.val, shown[l]) ELSE shown[l]]
      /\ trouble' = [l \in Lamps |-> troubled(l)]
      /\ UNCHANGED <<saved, seen, kreading, present, locked, woken, asked, ops, sleeps>>
  BY DEF WriteEnds
<1>2. elc.writing \in JobSet /\ saved.on \in BOOLEAN /\ Speaks(saved) \in Spoken
  BY <1>0, InvFacts, LitFacts DEF ElcOK, Sound
<1>3. /\ ElcOK(WriteDone(elc)) /\ Pumped(WriteDone(elc))
      /\ WriteDone(elc).reading = elc.reading /\ WriteDone(elc).pending = elc.pending
      /\ \A l, al, sh, tr, sx, tx : \A C \in SUBSET Regions : \A on \in BOOLEAN :
           /\ Promise(elc, l, C, al, sh, tr, on)
           /\ sx = IF effect /\ Paints(elc.writing, l) THEN Painted(elc.writing.val, sh) ELSE sh
           /\ Recorded(elc.writing, l, effect, tr, tx)
           => Promise(WriteDone(elc), l, C, al, sx, tx, on)
  BY <1>0, WriteDoneKeeps
<1>11. ASSUME NEW l \in Lamps
       PROVE  /\ troubled(l) \in SUBSET Regions
              /\ \A r \in Regions : r \in troubled(l) <=> IF Names(elc.writing, l, r) THEN lost \/ (r \in trouble[l] /\ ~effect)
                                                          ELSE r \in trouble[l]
  BY <1>0 DEF Typed
<1> HIDE DEF troubled
<1>4. shown' \in [Lamps -> ColourMaps]
  <2>1. ASSUME NEW l \in Lamps
        PROVE  (IF effect /\ Paints(elc.writing, l) THEN Painted(elc.writing.val, shown[l]) ELSE shown[l]) \in ColourMaps
    <3>1. shown[l] \in [Regions -> Hues]
      BY <1>0 DEF Typed, ColourMaps
    <3>2. \A r \in Regions : (IF r \in DOMAIN elc.writing.val THEN elc.writing.val[r] ELSE shown[l][r]) \in Hues
      BY <1>2, <3>1, JobFacts
    <3>3. Painted(elc.writing.val, shown[l]) \in [Regions -> Hues]
      BY <3>2 DEF Painted
    <3>4. QED
      BY <3>1, <3>3 DEF ColourMaps
  <2>2. QED
    BY <1>1, <2>1
<1>5. restored' \in [Lamps -> BOOLEAN] /\ \A l \in Lamps : restored'[l] => restored[l] /\ ~(l = "kbd" /\ rearm)
  BY <1>0, <1>1 DEF Typed
<1>6. tries' \in [Lamps -> 0..MaxTries]
  BY <1>0, <1>1 DEF Typed
<1>7. Typed'
  <2>1. trouble' \in [Lamps -> SUBSET Regions]
    BY <1>1, <1>11
  <2>2. QED
    BY <1>0, <1>1, <1>4, <1>5, <1>6, <2>1 DEF Typed
<1>8. Fitted'
  BY <1>0, <1>1, <1>3, <1>5 DEF Fitted
<1>9. Promised'
  <2>0. Speaks(saved)' = Speaks(saved)
    BY <1>1 DEF Speaks, Lit, Overlay, Effective
  <2> SUFFICES ASSUME NEW l \in Lamps, restored'[l]
               PROVE  Promise(elc', l, Speaks(saved)[l], asked[l], shown'[l], Lost(l)', saved.on)
    BY <1>1, <2>0 DEF Promised
  <2>1. Promise(elc, l, Speaks(saved)[l], asked[l], shown[l], Lost(l), saved.on) /\ (l = "kbd" => seen /\ ~rearm)
    BY <1>0, <1>5 DEF Promised, Fitted
  <2>2. shown'[l] = IF effect /\ Paints(elc.writing, l) THEN Painted(elc.writing.val, shown[l]) ELSE shown[l]
    BY <1>1
  <2>3. Lost(l)' = IF woken THEN Regions ELSE troubled(l)
    BY <1>1 DEF Lost
  <2>4. Recorded(elc.writing, l, effect, Lost(l), Lost(l)')
    <3>1. ASSUME NEW r \in Regions, Names(elc.writing, l, r), ~effect PROVE r \in Lost(l)'
      <4>1. lost
        BY <2>1, <3>1 DEF Names
      <4>2. QED
        BY <1>11, <2>3, <3>1, <4>1
    <3>2. ASSUME NEW r \in Regions, r \in Lost(l), r \notin Lost(l)' PROVE effect /\ Names(elc.writing, l, r)
      BY <1>11, <2>3, <3>2 DEF Lost
    <3>3. QED
      BY <3>1, <3>2 DEF Recorded
  <2>5. Speaks(saved)[l] \in SUBSET Regions
    BY <1>2 DEF Spoken
  <2>6. QED
    BY <1>1, <1>2, <1>3, <2>1, <2>2, <2>4, <2>5
<1>10. QED
  BY <1>1, <1>3, <1>7, <1>8, <1>9 DEF LInv

LEMMA WriteExitsKeeps ==
  ASSUME LInv, WriteExits PROVE LInv'
<1>1. elc.writing # None
  BY DEF WriteExits, WriteApplied, WriteDenied, WriteFailed, WriteKilled
<1>2. seen \in BOOLEAN
  BY DEF LInv, Typed
<1>3. CASE WriteApplied
  <2>1. WriteEnds(FALSE, TRUE, FALSE)
    BY <1>3 DEF WriteApplied
  <2>2. QED
    BY <1>1, <2>1, WriteEndsKeeps
<1>4. CASE WriteDenied
  <2>1. WriteEnds(seen, FALSE, FALSE) /\ elc.writing.dev = "kbd"
    BY <1>4 DEF WriteDenied, Declined
  <2>2. \A l \in Lamps : Paints(elc.writing, l) => l = "kbd"
    BY <2>1 DEF Paints
  <2>3. QED
    BY <1>1, <1>2, <2>1, <2>2, WriteEndsKeeps
<1>5. CASE WriteFailed
  <2>1. WriteEnds(FALSE, FALSE, TRUE)
    BY <1>5 DEF WriteFailed
  <2>2. QED
    BY <1>1, <2>1, WriteEndsKeeps
<1>6. CASE WriteKilled
  <2>1. PICK effect \in BOOLEAN : WriteEnds(FALSE, effect, TRUE)
    BY <1>6 DEF WriteKilled
  <2>2. QED
    BY <1>1, <2>1, WriteEndsKeeps
<1>7. QED
  BY <1>3, <1>4, <1>5, <1>6 DEF WriteExits

\* A command whose frame was lost in a suspend paints nothing any more.
LEMMA WakeKeeps ==
  ASSUME LInv, Wake PROVE LInv'
<1>0. Typed /\ ElcOK(elc) /\ Pumped(elc) /\ Fitted /\ Promised
  BY DEF LInv
<1>1. /\ sleeps < MaxSleeps /\ ~woken /\ sleeps' = sleeps + 1 /\ woken' = TRUE
      /\ shown' = [l \in Lamps |-> [r \in Regions |-> Firmware]]
      /\ present' \in SUBSET Lamps /\ locked' \in BOOLEAN
      /\ elc' = elc \/ (elc.writing # None /\ elc' = [elc EXCEPT !.writing.val = Nothing])
      /\ UNCHANGED <<saved, seen, kreading, restored, tries, asked, trouble, ops>>
  BY DEF Wake
<1>2. [r \in Regions |-> Firmware] \in ColourMaps
  BY DEF ColourMaps, Hues
<1>3. shown' \in [Lamps -> ColourMaps]
  BY <1>1, <1>2
<1>4. sleeps' \in 0..MaxSleeps
  BY <1>0, <1>1 DEF Typed
<1>5. Typed'
  BY <1>0, <1>1, <1>3, <1>4 DEF Typed
<1>6. /\ ElcOK(elc') /\ Pumped(elc') /\ elc'.queue = elc.queue /\ elc'.reading = elc.reading /\ elc'.pending = elc.pending
      /\ \/ elc'.writing = elc.writing
         \/ elc.writing # None /\ elc'.writing # None /\ Blackens(elc'.writing) /\ DOMAIN elc'.writing.val = {}
  <2>1. CASE elc' = elc
    BY <1>0, <2>1
  <2>2. CASE elc.writing # None /\ elc' = [elc EXCEPT !.writing.val = Nothing]
    <3> DEFINE w == elc.writing
               v == [w EXCEPT !.val = Nothing]
               e == [elc EXCEPT !.writing = v]
    <3>1. elc' = e
      BY <2>2
    <3>2. w \in JobSet /\ w \in LightJobs
      BY <1>0, <2>2 DEF ElcOK, Sound, JobSet
    <3>3. Nothing \in PartialMaps(Hues) /\ DOMAIN Nothing = {}
      <4>1. {} \in SUBSET Regions /\ Nothing \in [{} -> Hues]
        BY DEF Nothing
      <4>2. QED
        BY <4>1 DEF PartialMaps
    <3>4. v \in LightJobs /\ v.val = Nothing /\ v.dev = w.dev
      <4>1. v = [w EXCEPT !.val = Nothing]
        OBVIOUS
      <4> HIDE DEF w, v
      <4>2. w = [dev |-> w.dev, verb |-> w.verb, val |-> w.val]
        BY <3>2 DEF LightJobs
      <4>3. v = [dev |-> w.dev, verb |-> w.verb, val |-> Nothing]
        BY <4>1, <4>2
      <4>4. \/ w.dev \in {"rgb", "kbd"} /\ w.verb \in {"set-map", "off"}
            \/ w.dev \in {"rgb"} /\ w.verb \in {"brightness"}
        BY <3>2 DEF LightJobs
      <4>5. QED
        BY <3>3, <4>3, <4>4 DEF LightJobs
    <3>5. v \in JobSet
      BY <3>2, <3>4 DEF JobSet
    <3> HIDE DEF v
    <3>6. v # None /\ Blackens(v) /\ DOMAIN v.val = {}
      BY <3>3, <3>4, <3>5, JobFacts DEF Blackens
    <3>7. IsElc(elc)
      BY <1>0 DEF ElcOK, Sound
    <3>8. e = [elc EXCEPT !.writing = v]
      OBVIOUS
    <3> HIDE DEF e
    <3>9. /\ IsElc(e) /\ e.queue = elc.queue /\ e.writing = v /\ e.reading = elc.reading
          /\ e.pending = elc.pending /\ e.retry = elc.retry
      BY <3>7, <3>8 DEF IsElc
    <3>10. ElcOK(e) /\ Pumped(e)
      BY <1>0, <2>2, <3>5, <3>6, <3>9 DEF ElcOK, Sound, Pumped
    <3>11. QED
      BY <2>2, <3>1, <3>6, <3>9, <3>10
  <2>3. QED
    BY <1>1, <2>1, <2>2
<1>7. Fitted'
  BY <1>0, <1>1, <1>6 DEF Fitted
<1>8. Promised'
  <2>0. Speaks(saved)' = Speaks(saved) /\ \A l \in Lamps : Speaks(saved)[l] \in SUBSET Regions
    BY <1>1, InvFacts, LitFacts DEF Speaks, Lit, Overlay, Effective
  <2> SUFFICES ASSUME NEW l \in Lamps, restored[l]
               PROVE  Promise(elc', l, Speaks(saved)[l], asked[l], shown'[l], Regions, saved.on)
    BY <1>1, <2>0 DEF Promised, Lost
  <2> DEFINE C == Speaks(saved)[l]
  <2>1. Promise(elc, l, C, asked[l], shown[l], trouble[l], saved.on) /\ C \in SUBSET Regions
    BY <1>0, <1>1, <2>0 DEF Promised, Lost
  <2> HIDE DEF C
  <2>2. ASSUME Settles(elc.queue, elc.writing, l, C, asked[l], shown[l], trouble[l])
        PROVE  Settles(elc'.queue, elc'.writing, l, C, asked[l], shown'[l], Regions)
    <3>1. ASSUME NEW r \in C, NamedIn(elc.queue, l, r) = {}, elc'.writing # None, Names(elc'.writing, l, r)
          PROVE  elc'.writing.val[r] = asked[l][r]
      <4>1. elc'.writing = elc.writing
        BY <1>6, <3>1 DEF Names
      <4>2. QED
        BY <2>2, <3>1, <4>1 DEF Settles
    <3>2. QED
      BY <1>6, <2>1, <2>2, <3>1 DEF Settles
  <2>3. ASSUME Darkens(elc.queue, elc.writing, l, shown[l], trouble[l])
        PROVE  Darkens(elc'.queue, elc'.writing, l, shown'[l], Regions)
    BY <1>6, <2>3 DEF Darkens
  <2>4. QED
    BY <2>1, <2>2, <2>3 DEF Promise, C
<1>9. QED
  BY <1>5, <1>6, <1>7, <1>8 DEF LInv

LEMMA AppearKeeps ==
  ASSUME LInv, NEW l \in Lamps, Appear(l) PROVE LInv'
<1>1. /\ present' = present \cup {l}
      /\ UNCHANGED <<elc, saved, seen, kreading, restored, tries, shown, locked, woken, asked, trouble, ops, sleeps>>
  BY DEF Appear, pluginVars
<1>2. present' \subseteq Lamps
  BY <1>1 DEF LInv, Typed
<1>3. QED
  BY <1>1, <1>2 DEF LInv, Typed, Fitted, Promised, Lost, Speaks, Lit, Overlay, Effective

LEMMA UnlockKeeps ==
  ASSUME LInv, Unlock PROVE LInv'
<1>1. /\ locked' = FALSE
      /\ UNCHANGED <<elc, saved, seen, kreading, restored, tries, shown, present, woken, asked, trouble, ops, sleeps>>
  BY DEF Unlock, pluginVars
<1>2. QED
  BY <1>1 DEF LInv, Typed, Fitted, Promised, Lost, Speaks, Lit, Overlay, Effective

LEMMA StutterKeeps ==
  ASSUME LInv, UNCHANGED vars PROVE LInv'
  BY DEF vars, pluginVars, worldVars, LInv, Typed, Fitted, Promised, Lost, Speaks, Lit, Overlay, Effective

LEMMA RepaintsKeep ==
  ASSUME LInv, Repaints PROVE LInv'
<1>1. CASE \E c \in Colours : SetColor(c) \/ ApplyThemeColor(c)
  BY <1>1, SetColorKeeps, ApplyThemeColorKeeps
<1>2. CASE \E l \in Lamps, R \in SUBSET Regions \ {{}}, c \in Colours : SetColors(l, R, c)
  BY <1>2, SetColorsKeeps
<1>3. CASE \E l \in Lamps, R \in SUBSET Regions \ {{}}, on \in BOOLEAN, last \in Colours : SetRegionOn(l, R, on, last)
  BY <1>3, SetRegionOnKeeps
<1>4. CASE \E percent \in {0, 100} : SetBrightness(percent)
  BY <1>4, SetBrightnessKeeps
<1>5. CASE LightsOff
  BY <1>5, LightsOffKeeps
<1>6. CASE RestoreLights
  BY <1>6, RestoreLightsKeeps
<1>7. CASE \E l \in Lamps, marked \in BOOLEAN : OverlayRead(l, marked)
  BY <1>7, OverlayReadKeeps
<1>8. CASE AskReload
  BY <1>8, AskReloadKeeps
<1>9. QED
  BY <1>1, <1>2, <1>3, <1>4, <1>5, <1>6, <1>7, <1>8 DEF Repaints

LEMMA LInvNext == LInv /\ [Next]_vars => LInv'
<1> SUFFICES ASSUME LInv, [Next]_vars PROVE LInv'
  OBVIOUS
<1>1. CASE Repaints
  BY <1>1, RepaintsKeep
<1>2. CASE RgbReadExits \/ KbdReadExits \/ ElcRetry
  BY <1>2, RgbReadExitsKeeps, KbdReadExitsKeeps, ElcRetryKeeps
<1>3. CASE \E l \in Lamps : RestoreTick(l)
  BY <1>3, RestoreTickKeeps
<1>4. CASE WriteExits
  BY <1>4, WriteExitsKeeps
<1>5. CASE Wake \/ Resume \/ Unlock
  BY <1>5, WakeKeeps, ResumeKeeps, UnlockKeeps
<1>6. CASE \E l \in Lamps : Appear(l)
  BY <1>6, AppearKeeps
<1>7. CASE UNCHANGED vars
  BY <1>7, StutterKeeps
<1>8. QED
  BY <1>1, <1>2, <1>3, <1>4, <1>5, <1>6, <1>7 DEF Next

LEMMA LightsInvariant == Spec => []LInv
<1>1. Init => LInv
  BY LInvInit
<1>2. LInv /\ [Next]_vars => LInv'
  BY LInvNext
<1>3. QED
  BY <1>1, <1>2, PTL DEF Spec

-----------------------------------------------------------------------------
(***************************************************************************)
(* What follows.                                                           *)
(***************************************************************************)

\* Every variable keeps its type, the jobs of the queue are for lamps the
\* machine has got and no two of them share a key (enqueue in Service.qml).
THEOREM LightsTyped == Spec => []TypeOK
<1>1. LInv => TypeOK
  <2> SUFFICES ASSUME LInv PROVE TypeOK
    OBVIOUS
  <2>1. Typed /\ Sound(elc)
    BY DEF LInv, ElcOK
  <2>2. \A i \in DOMAIN elc.queue : elc.queue[i] \in JobSet
    BY <2>1 DEF Sound, QueueOf
  <2>3. ASSUME NEW job \in Jobs(elc) PROVE job.dev \in Lamps \cup {"rgb"}
    <3>1. job \in JobSet
      BY <2>1, <2>2 DEF Jobs, Sound
    <3>2. QED
      BY <3>1, JobFacts
  <2>4. \A i, j \in DOMAIN elc.queue : QueueKey(elc.queue[i]) = QueueKey(elc.queue[j]) => i = j
    BY <2>1 DEF Sound, QueueOf, KeysApart
  <2>5. QED
    BY <2>1, <2>3, <2>4 DEF TypeOK, Typed, Sound
<1>2. QED
  BY <1>1, LightsInvariant, PTL

\* rgbProc and a writeProc never have the controller open together: the gate of
\* elcReadAction and elcWriteAction holds whatever the handlers do in between.
THEOREM OneOpener == Spec => []OneAtTheController
<1>1. LInv => OneAtTheController
  BY DEF LInv, ElcOK, Sound, OneAtTheController
<1>2. QED
  BY <1>1, LightsInvariant, PTL

\* No job and no deferred read is left with nobody to look at it again: every
\* exit pumps, and every deferral starts the elcRetry timer.
THEOREM QueuePumped == Spec => []SomebodyPumps
<1>1. LInv => SomebodyPumps
  BY DEF LInv, ElcOK, Pumped, SomebodyPumps
<1>2. QED
  BY <1>1, LightsInvariant, PTL

\* A lamp that no job concerns any more shows, in every region that the plugin
\* speaks for and that lost no write, what the last job to name it said: enqueue
\* may drop a waiting job and put the new one at the end without changing the
\* outcome, though a map leaves out the regions that have no colour.
THEOREM LastWordStands == Spec => []LastWordShown
<1>1. LInv => LastWordShown
  <2> SUFFICES ASSUME LInv, NEW l \in Lamps, Quiet(l), NEW r \in Told(l) \ trouble[l]
               PROVE  shown[l][r] = asked[l][r]
    BY DEF LastWordShown
  <2>1. Typed /\ ElcOK(elc) /\ Promised /\ saved \in Saved
    BY InvFacts DEF LInv
  <2>2. (\A job \in Jobs(elc) : job.dev # l) /\ restored[l] /\ Lost(l) = trouble[l]
    BY DEF Quiet, Lost
  <2>3. QueueOf(elc.queue) /\ elc.writing \in JobSet \cup {None}
    BY <2>1 DEF ElcOK, Sound
  <2>4. \A i \in DOMAIN elc.queue : elc.queue[i] # None /\ elc.queue[i] \in Jobs(elc)
    <3>1. \A i \in DOMAIN elc.queue : elc.queue[i] \in JobSet
      BY <2>3 DEF QueueOf
    <3>2. QED
      BY <3>1, JobFacts DEF Jobs
  <2>5. \A i \in DOMAIN elc.queue : ~Paints(elc.queue[i], l) /\ elc.queue[i].dev # l
    BY <2>2, <2>4 DEF Paints
  <2>6. elc.writing # None => ~Paints(elc.writing, l)
    BY <2>2 DEF Jobs, Paints
  <2>7. Promise(elc, l, Speaks(saved)[l], asked[l], shown[l], trouble[l], saved.on)
    BY <2>1, <2>2 DEF Promised
  <2>8. PICK C : r \in C /\ Settles(elc.queue, elc.writing, l, C, asked[l], shown[l], trouble[l])
    <3>1. CASE saved.on
      <4>1. r \in Speaks(saved)[l]
        BY <3>1 DEF Told, Speaks
      <4>2. QED
        BY <2>7, <3>1, <4>1 DEF Promise
    <3>2. CASE ~saved.on
      <4>1. r \in Regions /\ Regions \in SUBSET Regions
        BY <3>2 DEF Told
      <4>2. Darkens(elc.queue, elc.writing, l, shown[l], trouble[l]) /\ asked[l] = AllDark
        BY <2>7, <3>2 DEF Promise
      <4>3. Settles(elc.queue, elc.writing, l, Regions, asked[l], shown[l], trouble[l])
        BY <2>3, <4>1, <4>2, DarkSettles
      <4>4. QED
        BY <4>1, <4>3
    <3>3. QED
      BY <3>1, <3>2
  <2>9. NamedIn(elc.queue, l, r) = {}
    BY <2>5 DEF NamedIn, Names
  <2>10. QED
    BY <2>6, <2>8, <2>9 DEF Settles, Names
<1>2. QED
  BY <1>1, LightsInvariant, PTL

\* Lights that are off stay off: nothing the plugin says of a restored lamp,
\* in any order of jobs, reads, timers and resumes, lights a region of it.
THEOREM OffIsOff == Spec => []OffStaysOff
<1>1. LInv => OffStaysOff
  BY DEF LInv, Promised, Promise, OffStaysOff
<1>2. QED
  BY <1>1, LightsInvariant, PTL
=============================================================================
