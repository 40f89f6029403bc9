---------------------------- MODULE RelayProofs ----------------------------
(***************************************************************************)
(* What is proved of the way a setting takes, for any number of goroutines *)
(* and calls, any trees and any numbers typed: nothing unfit for the       *)
(* hardware is written, what was printed as done stays done, and the       *)
(* status foretells what a write will come to.                             *)
(***************************************************************************)
EXTENDS Relay, TLAPS, WellFoundedInduction

USE RelayAssumption

-----------------------------------------------------------------------------
(***************************************************************************)
(* Trees.                                                                  *)
(***************************************************************************)

\* A tree's fields.
LEMMA Fields ==
  ASSUME NEW t, Sound(t)
  PROVE  /\ t = [hwmon |-> t.hwmon, attr |-> t.attr, rapl |-> t.rapl, readonly |-> t.readonly,
                 refuses |-> t.refuses, gpu |-> t.gpu]
         /\ t.hwmon = [i \in DOMAIN t.hwmon |-> t.hwmon[i]]
         /\ t.attr = [a \in DOMAIN t.attr |-> t.attr[a]]
<1> DEFINE h == [i \in DOMAIN t.hwmon |-> t.hwmon[i]]
           f == [a \in DOMAIN t.attr |-> t.attr[a]]
<1>1. t = [hwmon |-> h, attr |-> f, rapl |-> t.rapl, readonly |-> t.readonly, refuses |-> t.refuses,
           gpu |-> t.gpu]
  BY DEF Sound
<1> HIDE DEF h, f
<1>2. t.hwmon = h /\ t.attr = f
  BY <1>1
<1>3. QED
  BY <1>1, <1>2 DEF h, f

\* The smallest of some numbers is one of them: the first hwmon directory of a name.
LEMMA NatMin ==
  ASSUME NEW T \in SUBSET Nat, T # {}
  PROVE  Min(T) \in T /\ \A y \in T : Min(T) <= y
<1> DEFINE R == OpToRel(<, Nat)
<1>1. PICK x \in T : \A y \in T : ~(<<y, x>> \in R)
  <2>1. IsWellFoundedOn(R, Nat)
    BY NatLessThanWellFounded
  <2> HIDE DEF R
  <2>2. QED
    BY <2>1, WFMin
<1>2. \A a, b \in Nat : a < b => <<a, b>> \in R
  BY DEF OpToRel
<1> HIDE DEF R
<1>3. ASSUME NEW y \in T PROVE x <= y
  <2>1. x \in Nat /\ y \in Nat /\ ~(y < x)
    BY <1>1, <1>2
  <2>2. QED
    BY <2>1
<1>4. QED
  BY <1>3 DEF Min

OnFans(t, a) == Has(t, Alienware(t), a)
FanValue(t, a) == Get(t, Alienware(t), a, 0)

\* The fans' directory is 0 or one of the tree's, and calls itself by their name.
LEMMA AlienwareFound ==
  ASSUME NEW t, Sound(t), Alienware(t) # 0
  PROVE  Alienware(t) \in DOMAIN t.hwmon /\ t.hwmon[Alienware(t)].name = AlienwareHwmonName
<1> DEFINE found == {i \in DOMAIN t.hwmon : t.hwmon[i].name = AlienwareHwmonName}
<1>1. Alienware(t) = IF found = {} THEN 0 ELSE Min(found)
  BY DEF Alienware, FindHwmon
<1>2. found \in SUBSET Nat
  BY DEF Sound
<1>3. found # {} => Min(found) \in found
  BY <1>2, NatMin
<1> HIDE DEF found
<1>4. Alienware(t) \in found
  BY <1>1, <1>3
<1>5. QED
  BY <1>4 DEF found

\* What the fans' directory holds is named and valued as its driver names it.
LEMMA FansSound ==
  ASSUME NEW t, Sound(t), NEW a, OnFans(t, a)
  PROVE  /\ Alienware(t) # 0 /\ Alienware(t) \in DOMAIN t.hwmon
         /\ a \in HwmonAttrs /\ FanValue(t, a) \in Int
         /\ a[1] = "fan_boost" => FanValue(t, a) \in 0..255
<1>1. Alienware(t) # 0 /\ a \in DOMAIN t.hwmon[Alienware(t)].attr
  BY DEF OnFans, Has
<1>2. Alienware(t) \in DOMAIN t.hwmon /\ SoundDir(t.hwmon[Alienware(t)])
  BY <1>1, AlienwareFound DEF Sound
<1>3. FanValue(t, a) = t.hwmon[Alienware(t)].attr[a]
  BY <1>1 DEF FanValue, Get, Has
<1>4. QED
  BY <1>1, <1>2, <1>3 DEF SoundDir

\* No attribute is both a directory's and one elsewhere.
LEMMA NamesApart ==
  ASSUME NEW t, NEW u, Sound(t), Sound(u), NEW a, OnFans(t, a)
  PROVE  a \notin DOMAIN u.attr
<1>1. a \in HwmonAttrs
  BY FansSound
<1>2. HwmonAttrs \cap PlainAttrs = {}
  BY DEF HwmonAttrs, PlainAttrs
<1>3. QED
  BY <1>1, <1>2 DEF Sound

\* Trees that name their directories alike have the same one for the fans.
LEMMA SameNames ==
  ASSUME NEW t, NEW u, DOMAIN u.hwmon = DOMAIN t.hwmon,
         \A i \in DOMAIN t.hwmon : u.hwmon[i].name = t.hwmon[i].name
  PROVE  Alienware(u) = Alienware(t)
<1>1. {i \in DOMAIN u.hwmon : u.hwmon[i].name = AlienwareHwmonName} = {i \in DOMAIN t.hwmon : t.hwmon[i].name = AlienwareHwmonName}
  OBVIOUS
<1>2. QED
  BY <1>1 DEF Alienware, FindHwmon

BoostCall(c) ==
  /\ c.verb = "boost" /\ c = [verb |-> "boost", fan |-> c.fan, value |-> c.value]
  /\ c.fan \in Fans /\ c.value \in 0..255

\* A boost that is written changes that attribute and nothing else.
LEMMA BoostWritten ==
  ASSUME NEW t, Sound(t), NEW c, BoostCall(c), WriteError(t, c) = "none"
  PROVE  LET u == Written(t, c)
             b == <<"fan_boost", c.fan>>
         IN  /\ Sound(u) /\ u.attr = t.attr /\ DOMAIN u.hwmon = DOMAIN t.hwmon
             /\ \A a : OnFans(u, a) <=> OnFans(t, a)
             /\ OnFans(u, b) /\ FanValue(u, b) = c.value
             /\ \A a : a # b => FanValue(u, a) = FanValue(t, a)
<1> DEFINE u == Written(t, c)
           b == <<"fan_boost", c.fan>>
           i == Alienware(t)
           d == t.hwmon[i]
           e == [d EXCEPT !.attr = [d.attr EXCEPT ![b] = c.value]]
<1>1. c.verb = "boost" /\ Target(c) = b /\ Value(c) = c.value
  BY DEF BoostCall, Target, Value
<1>2. OnFans(t, b)
  BY <1>1 DEF WriteError, Exists, OnFans
<1>3. i # 0 /\ i \in DOMAIN t.hwmon /\ b \in DOMAIN d.attr /\ SoundDir(d)
  BY <1>2, FansSound DEF OnFans, Has, Sound
<1>4. u = [t EXCEPT !.hwmon[i].attr[b] = c.value]
  BY <1>1 DEF Written
<1> HIDE DEF u
<1>5. d = [name |-> d.name, attr |-> d.attr] /\ d.attr = [a \in DOMAIN d.attr |-> d.attr[a]]
  BY <1>3 DEF SoundDir
<1>6. /\ e.name = d.name /\ DOMAIN e.attr = DOMAIN d.attr /\ e.attr[b] = c.value
      /\ \A a \in DOMAIN d.attr : a # b => e.attr[a] = d.attr[a]
      /\ e = [name |-> e.name, attr |-> [a \in DOMAIN e.attr |-> e.attr[a]]]
  BY <1>3, <1>5
<1>7. /\ u = [hwmon |-> u.hwmon, attr |-> t.attr, rapl |-> t.rapl, readonly |-> t.readonly,
              refuses |-> t.refuses, gpu |-> t.gpu]
      /\ u.hwmon = [t.hwmon EXCEPT ![i] = e]
  BY <1>4 DEF Sound
<1> HIDE DEF e
<1>8. /\ u.attr = t.attr /\ DOMAIN u.hwmon = DOMAIN t.hwmon
      /\ u.hwmon = [j \in DOMAIN u.hwmon |-> u.hwmon[j]]
      /\ u.hwmon[i] = e
      /\ \A j \in DOMAIN t.hwmon : j # i => u.hwmon[j] = t.hwmon[j]
  <2> DEFINE h == t.hwmon
  <2>1. h = [j \in DOMAIN h |-> h[j]]
    BY Fields
  <2> HIDE DEF i
  <2>3. i \in DOMAIN h /\ u.hwmon = [h EXCEPT ![i] = e] /\ u.attr = t.attr
    BY <1>3, <1>7
  <2> HIDE DEF h
  <2>2. QED
    BY <2>1, <2>3 DEF h
<1>9. Alienware(u) = i
  BY <1>6, <1>8, SameNames
<1>10. c.value \in 0..255 /\ c.fan \in Nat /\ b \in HwmonAttrs
  BY DEF BoostCall, Fans, HwmonAttrs
<1>11. SoundDir(e)
  <2>1. ASSUME NEW a \in DOMAIN e.attr
        PROVE  a \in HwmonAttrs /\ e.attr[a] \in Int /\ (a[1] = "fan_boost" => e.attr[a] \in 0..255)
    <3>1. CASE a = b
      BY <1>6, <1>10, <3>1
    <3>2. CASE a # b
      <4>1. a \in DOMAIN d.attr /\ e.attr[a] = d.attr[a]
        BY <1>6, <3>2
      <4>2. QED
        BY <1>3, <4>1 DEF SoundDir
    <3>3. QED
      BY <3>1, <3>2
  <2>2. QED
    BY <1>6, <2>1 DEF SoundDir
<1>12. Sound(u)
  <2>1. \A j \in DOMAIN u.hwmon : SoundDir(u.hwmon[j])
    BY <1>8, <1>11 DEF Sound
  <2>2. u = [hwmon |-> [j \in DOMAIN u.hwmon |-> u.hwmon[j]], attr |-> [a \in DOMAIN u.attr |-> u.attr[a]],
             rapl |-> u.rapl, readonly |-> u.readonly, refuses |-> u.refuses, gpu |-> u.gpu]
    <3>1. t.attr = [a \in DOMAIN t.attr |-> t.attr[a]] /\ u.attr = t.attr
      BY <1>8, Fields
    <3>2. /\ u = [hwmon |-> u.hwmon, attr |-> u.attr, rapl |-> u.rapl, readonly |-> u.readonly,
                  refuses |-> u.refuses, gpu |-> u.gpu]
          /\ u.rapl = t.rapl
      BY <1>7
    <3>3. QED
      BY <1>8, <3>1, <3>2
  <2>3. u.rapl = t.rapl
    BY <1>7
  <2>4. QED
    BY <1>8, <2>1, <2>2, <2>3 DEF Sound
<1>13. \A a : (OnFans(u, a) <=> OnFans(t, a)) /\ (a # b => FanValue(u, a) = FanValue(t, a))
  BY <1>3, <1>6, <1>8, <1>9 DEF OnFans, FanValue, Get, Has
<1>14. OnFans(u, b) /\ FanValue(u, b) = c.value
  BY <1>3, <1>6, <1>8, <1>9 DEF OnFans, FanValue, Get, Has
<1>15. QED
  BY <1>8, <1>12, <1>13, <1>14 DEF u

PlainCall(c) == c.verb \in {"profile", "turbo", "pl"}

\* So does a setting elsewhere.
LEMMA PlainWritten ==
  ASSUME NEW t, Sound(t), NEW c, PlainCall(c), WriteError(t, c) = "none"
  PROVE  LET u == Written(t, c)
         IN  /\ Sound(u) /\ u.hwmon = t.hwmon /\ DOMAIN u.attr = DOMAIN t.attr
             /\ \A a : (OnFans(u, a) <=> OnFans(t, a)) /\ FanValue(u, a) = FanValue(t, a)
             /\ Target(c) \in DOMAIN t.attr /\ u.attr[Target(c)] = Value(c)
             /\ \A a \in DOMAIN t.attr : a # Target(c) => u.attr[a] = t.attr[a]
             /\ Target(c) # profileChoicesPath
<1> DEFINE u == Written(t, c)
           p == Target(c)
<1>1. p \in DOMAIN t.attr
  BY DEF PlainCall, WriteError, Exists, Readable
<1>2. u = [t EXCEPT !.attr[p] = Value(c)]
  BY DEF PlainCall, Written
<1>3. p # profileChoicesPath
  BY DEF PlainCall, Target, profilePath, noTurboPath, constraintPath, profileChoicesPath
<1> HIDE DEF u, p
<1>4. u = [hwmon |-> t.hwmon, attr |-> [t.attr EXCEPT ![p] = Value(c)], rapl |-> t.rapl,
           readonly |-> t.readonly, refuses |-> t.refuses, gpu |-> t.gpu]
  BY <1>2 DEF Sound
<1>5. /\ u.hwmon = t.hwmon /\ DOMAIN u.attr = DOMAIN t.attr /\ u.attr[p] = Value(c)
      /\ \A a \in DOMAIN t.attr : a # p => u.attr[a] = t.attr[a]
  BY <1>1, <1>4 DEF Sound
<1>6. Alienware(u) = Alienware(t)
  BY <1>5, SameNames
<1>7. \A a : (OnFans(u, a) <=> OnFans(t, a)) /\ FanValue(u, a) = FanValue(t, a)
  BY <1>5, <1>6 DEF OnFans, FanValue, Get, Has
<1>8. Sound(u)
  <2> DEFINE f == [t.attr EXCEPT ![p] = Value(c)]
  <2>1. f = [a \in DOMAIN f |-> f[a]] /\ t.hwmon = [i \in DOMAIN t.hwmon |-> t.hwmon[i]]
    BY Fields
  <2> HIDE DEF f
  <2>2. /\ u = [hwmon |-> t.hwmon, attr |-> f, rapl |-> t.rapl, readonly |-> t.readonly,
                refuses |-> t.refuses, gpu |-> t.gpu]
        /\ u.attr = f /\ u.rapl = t.rapl /\ u.hwmon = t.hwmon
    BY <1>4 DEF f
  <2>3. u = [hwmon |-> [i \in DOMAIN u.hwmon |-> u.hwmon[i]], attr |-> [a \in DOMAIN u.attr |-> u.attr[a]],
             rapl |-> u.rapl, readonly |-> u.readonly, refuses |-> u.refuses, gpu |-> u.gpu]
    BY <2>1, <2>2
  <2>4. QED
    BY <1>3, <1>5, <2>2, <2>3 DEF Sound
<1>9. QED
  BY <1>1, <1>3, <1>5, <1>7, <1>8 DEF u, p
\* The firmware takes the fans back: no attribute comes or goes.
LEMMA ResetKeeps ==
  ASSUME NEW t, Sound(t)
  PROVE  LET u == ResetBoost(t)
         IN  Sound(u) /\ u.attr = t.attr /\ \A a : OnFans(u, a) <=> OnFans(t, a)
<1> DEFINE call0(i) == [verb |-> "boost", fan |-> i, value |-> 0]
           reset(v, i) == IF WriteError(v, call0(i)) = "none" THEN Written(v, call0(i)) ELSE v
           Like(u, v) == Sound(u) /\ u.attr = v.attr /\ \A a : OnFans(u, a) <=> OnFans(v, a)
<1>1. ASSUME NEW v, Sound(v), NEW i \in Fans PROVE Like(reset(v, i), v)
  <2>1. BoostCall(call0(i))
    BY DEF BoostCall, Fans
  <2> HIDE DEF call0
  <2>2. CASE WriteError(v, call0(i)) = "none"
    BY <1>1, <2>1, <2>2, BoostWritten
  <2>3. CASE WriteError(v, call0(i)) # "none"
    BY <1>1, <2>3
  <2>4. QED
    BY <2>2, <2>3
<1>2. ResetBoost(t) = IF Alienware(t) = 0 THEN t ELSE reset(reset(t, 1), 2)
  BY DEF ResetBoost
<1> HIDE DEF reset
<1>3. Like(reset(t, 1), t)
  BY <1>1 DEF Fans
<1>4. Like(reset(reset(t, 1), 2), reset(t, 1))
  BY <1>1, <1>3 DEF Fans
<1>5. QED
  BY <1>2, <1>3, <1>4

AttrGone(t, a) == [t EXCEPT !.attr = [b \in DOMAIN @ \ {a} |-> @[b]]]
DriverGone(t) == [t EXCEPT !.hwmon = [i \in {j \in DOMAIN @ : @[j].name # AlienwareHwmonName} |-> @[i]]]

\* An attribute elsewhere goes away with its driver.
LEMMA PlainGone ==
  ASSUME NEW t, Sound(t), NEW a, NEW u, u = AttrGone(t, a)
  PROVE  /\ Sound(u) /\ u.hwmon = t.hwmon /\ DOMAIN u.attr = DOMAIN t.attr \ {a}
         /\ \A b \in DOMAIN u.attr : u.attr[b] = t.attr[b]
         /\ \A b : (OnFans(u, b) <=> OnFans(t, b)) /\ FanValue(u, b) = FanValue(t, b)
<1> DEFINE f == [b \in DOMAIN t.attr \ {a} |-> t.attr[b]]
<1>1. u = [t EXCEPT !.attr = f]
  BY DEF AttrGone
<1>2. f = [b \in DOMAIN f |-> f[b]] /\ DOMAIN f = DOMAIN t.attr \ {a} /\ \A b \in DOMAIN f : f[b] = t.attr[b]
  OBVIOUS
<1> HIDE DEF f
<1>3. /\ u = [hwmon |-> t.hwmon, attr |-> f, rapl |-> t.rapl, readonly |-> t.readonly,
              refuses |-> t.refuses, gpu |-> t.gpu]
      /\ u.attr = f /\ u.rapl = t.rapl /\ u.hwmon = t.hwmon
  <2>1. t = [hwmon |-> t.hwmon, attr |-> t.attr, rapl |-> t.rapl, readonly |-> t.readonly,
             refuses |-> t.refuses, gpu |-> t.gpu]
    BY Fields
  <2>2. QED
    BY <1>1, <2>1
<1>4. u = [hwmon |-> [i \in DOMAIN u.hwmon |-> u.hwmon[i]], attr |-> [b \in DOMAIN u.attr |-> u.attr[b]],
           rapl |-> u.rapl, readonly |-> u.readonly, refuses |-> u.refuses, gpu |-> u.gpu]
  <2>1. t.hwmon = [i \in DOMAIN t.hwmon |-> t.hwmon[i]]
    BY Fields
  <2>2. u = [hwmon |-> u.hwmon, attr |-> u.attr, rapl |-> u.rapl, readonly |-> u.readonly,
             refuses |-> u.refuses, gpu |-> u.gpu]
    BY <1>3
  <2>3. QED
    BY <1>2, <1>3, <2>1, <2>2
<1>5. Sound(u)
  BY <1>2, <1>3, <1>4 DEF Sound
<1>6. Alienware(u) = Alienware(t)
  BY <1>3, SameNames
<1>7. \A b : (OnFans(u, b) <=> OnFans(t, b)) /\ FanValue(u, b) = FanValue(t, b)
  BY <1>3, <1>6 DEF OnFans, FanValue, Get, Has
<1>8. QED
  BY <1>2, <1>3, <1>5, <1>7

\* The fans' driver goes away with all its directories.
LEMMA FansGone ==
  ASSUME NEW t, Sound(t), NEW u, u = DriverGone(t)
  PROVE  Sound(u) /\ u.attr = t.attr /\ \A b : ~OnFans(u, b)
<1> DEFINE left == {j \in DOMAIN t.hwmon : t.hwmon[j].name # AlienwareHwmonName}
           h == [i \in left |-> t.hwmon[i]]
<1>1. u = [t EXCEPT !.hwmon = h]
  BY DEF DriverGone
<1>2. h = [i \in DOMAIN h |-> h[i]] /\ DOMAIN h = left /\ \A i \in DOMAIN h : h[i] = t.hwmon[i]
  OBVIOUS
<1> HIDE DEF h
<1>3. /\ u = [hwmon |-> h, attr |-> t.attr, rapl |-> t.rapl, readonly |-> t.readonly,
              refuses |-> t.refuses, gpu |-> t.gpu]
      /\ u.attr = t.attr /\ u.rapl = t.rapl /\ u.hwmon = h
  <2>1. t = [hwmon |-> t.hwmon, attr |-> t.attr, rapl |-> t.rapl, readonly |-> t.readonly,
             refuses |-> t.refuses, gpu |-> t.gpu]
    BY Fields
  <2>2. QED
    BY <1>1, <2>1
<1>4. u = [hwmon |-> [i \in DOMAIN u.hwmon |-> u.hwmon[i]], attr |-> [b \in DOMAIN u.attr |-> u.attr[b]],
           rapl |-> u.rapl, readonly |-> u.readonly, refuses |-> u.refuses, gpu |-> u.gpu]
  <2>1. t.attr = [a \in DOMAIN t.attr |-> t.attr[a]]
    BY Fields
  <2>2. u = [hwmon |-> u.hwmon, attr |-> u.attr, rapl |-> u.rapl, readonly |-> u.readonly,
             refuses |-> u.refuses, gpu |-> u.gpu]
    BY <1>3
  <2>3. QED
    BY <1>2, <1>3, <2>1, <2>2
<1>5. DOMAIN h \subseteq Nat \ {0} /\ \A i \in DOMAIN h : SoundDir(h[i])
  BY <1>2 DEF Sound
<1>6. Sound(u)
  BY <1>3, <1>4, <1>5 DEF Sound
<1>7. Alienware(u) = 0
  <2>1. ASSUME Alienware(u) # 0 PROVE FALSE
    <3>1. Alienware(u) \in DOMAIN u.hwmon /\ u.hwmon[Alienware(u)].name = AlienwareHwmonName
      BY <1>6, <2>1, AlienwareFound
    <3>2. QED
      BY <1>2, <1>3, <3>1
  <2>2. QED
    BY <2>1
<1>8. QED
  BY <1>3, <1>6, <1>7 DEF OnFans, Has

-----------------------------------------------------------------------------
(***************************************************************************)
(* The invariant.  A call the daemon holds is one that the command line    *)
(* let through; from its check on it is fit to be written.                 *)
(***************************************************************************)
Known == UNION {t.attr[profileChoicesPath] : t \in {u \in Trees : Readable(u, profileChoicesPath)}}

LawfulCall(c) ==
  /\ Target(c) \in Targets
  /\ \/ BoostCall(c)
     \/ c.verb = "profile" /\ c = [verb |-> "profile", name |-> c.name]
     \/ c.verb = "turbo" /\ c = [verb |-> "turbo", on |-> c.on] /\ c.on \in BOOLEAN
     \/ /\ c.verb = "pl" /\ c = [verb |-> "pl", index |-> c.index, watts |-> c.watts]
        /\ c.index \in Constraints /\ c.watts \in Nat

Fit(c) ==
  /\ c.verb = "profile" => c.name \in Known
  /\ c.verb = "pl" => c.watts \in 1..1000

CallOK(k) ==
  \/ k = Free
  \/ /\ k = [pc |-> k.pc, c |-> k.c] /\ k.pc \in {"auth", "check", "write"}
     /\ LawfulCall(k.c) /\ (k.pc = "write" => Fit(k.c))

ChoicesKept == Readable(tree, profileChoicesPath) => tree.attr[profileChoicesPath] \subseteq Known

CallPart ==
  /\ call = [g \in Handlers |-> call[g]] /\ \A g \in Handlers : CallOK(call[g])
  /\ served \in Handlers \cup {Nobody} /\ (served # Nobody => call[served].pc # "free")
  /\ up \in BOOLEAN /\ (~up => \A g \in Handlers : call[g] = Free)

TreePart == Sound(tree) /\ ChoicesKept

SaidPart == DOMAIN said \subseteq Targets /\ late \subseteq Targets

BoundPart == asked \in 0..MaxCalls /\ gone \in 0..MaxGone

RelayInv == CallPart /\ TreePart /\ SaidPart /\ BoundPart

\* The type invariant is among it.
LEMMA RelayTypes == RelayInv => TypeOK
  BY DEF RelayInv, CallPart, SaidPart, BoundPart, TypeOK, CallOK, Free

\* What is sent for what is typed is lawful (the checks of cli.go:154-212, and the
\* width a number is sent in).
LEMMA SentLawful ==
  ASSUME NEW r \in Requests, cliAccepts(r)
  PROVE  LawfulCall(Sent(r))
<1>1. CASE r.verb = "boost"
  <2>1. Sent(r) = r /\ r = [verb |-> "boost", fan |-> r.fan, value |-> r.value] /\ r.fan \in Fans /\ r.value \in 0..255
    BY <1>1, RequestsAssumption DEF Sent, cliAccepts
  <2>2. Target(r) \in Targets
    BY <2>1 DEF Targets
  <2>3. QED
    BY <1>1, <2>1, <2>2 DEF LawfulCall, BoostCall
<1>2. CASE r.verb = "profile"
  <2>1. Sent(r) = r /\ r = [verb |-> "profile", name |-> r.name] /\ Target(r) \in Targets
    BY <1>2, RequestsAssumption DEF Sent, Targets
  <2>2. QED
    BY <1>2, <2>1 DEF LawfulCall
<1>3. CASE r.verb = "turbo"
  <2>1. Sent(r) = r /\ r = [verb |-> "turbo", on |-> r.on] /\ r.on \in BOOLEAN /\ Target(r) \in Targets
    BY <1>3, RequestsAssumption DEF Sent, Targets
  <2>2. QED
    BY <1>3, <2>1 DEF LawfulCall
<1>4. CASE r.verb = "pl"
  <2> DEFINE w == r.watts % Words
  <2>1. r = [verb |-> "pl", index |-> r.index, watts |-> r.watts] /\ r.index \in Int /\ r.watts \in Int
    BY <1>4, RequestsAssumption
  <2>2. Sent(r) = [r EXCEPT !.watts = w] /\ r.index + 1 \in 1..3 /\ w \in Nat
    BY <1>4, <2>1 DEF Sent, cliAccepts
  <2> HIDE DEF w
  <2>3. Sent(r) = [verb |-> "pl", index |-> r.index, watts |-> w] /\ r.index \in Constraints
    BY <2>1, <2>2 DEF Constraints
  <2>4. Target(Sent(r)) = Target(r)
    BY <1>4, <2>3 DEF Target
  <2>5. Target(r) \in Targets
    BY <1>4 DEF Targets
  <2> DEFINE c == Sent(r)
  <2> HIDE DEF c
  <2>6. c = [verb |-> "pl", index |-> r.index, watts |-> w] /\ Target(c) \in Targets
    BY <2>3, <2>4, <2>5 DEF c
  <2>7. LawfulCall(c)
    BY <2>2, <2>3, <2>6 DEF LawfulCall
  <2>8. QED
    BY <2>7 DEF c
<1>5. QED
  BY <1>1, <1>2, <1>3, <1>4, RequestsAssumption

\* A lawful call is a boost or a setting elsewhere.
LEMMA CallKinds ==
  ASSUME NEW c, LawfulCall(c)
  PROVE  BoostCall(c) \/ PlainCall(c)
  BY DEF LawfulCall, PlainCall

\* What the check lets through is fit to be written.
LEMMA CheckFits ==
  ASSUME ChoicesKept, NEW c, LawfulCall(c), Refusal(tree, c) = "none"
  PROVE  Fit(c)
<1>1. c.verb = "profile" => c.name \in Known
  BY DEF Refusal, profileRefusal, ChoicesKept
<1>2. c.verb = "pl" => c.watts \in 1..1000
  BY DEF Refusal, limitRefusal
<1>3. QED
  BY <1>1, <1>2 DEF Fit

-----------------------------------------------------------------------------
(***************************************************************************)
(* Every step keeps it.                                                    *)
(***************************************************************************)

\* An answer frees its handler, and its command if that still waits.
LEMMA AnswerKeeps ==
  ASSUME CallPart, NEW g \in Handlers, NEW err, Answer(g, err), UNCHANGED up
  PROVE  CallPart'
<1>1. call' = [call EXCEPT ![g] = Free] /\ (served' = Nobody \/ (served' = served /\ served # g))
  BY DEF Answer
<1>2. /\ call' = [h \in Handlers |-> call'[h]] /\ call'[g] = Free
      /\ \A h \in Handlers : h # g => call'[h] = call[h]
  BY <1>1 DEF CallPart
<1>3. QED
  BY <1>1, <1>2 DEF CallPart, CallOK

\* What is written leaves the trees sound and the choices as they are.
LEMMA WriteKeepsTree ==
  ASSUME TreePart, NEW c, LawfulCall(c), WriteError(tree, c) = "none", tree' = Written(tree, c)
  PROVE  TreePart'
<1>1. CASE BoostCall(c)
  <2>1. Sound(tree') /\ tree'.attr = tree.attr
    BY <1>1, BoostWritten DEF TreePart
  <2>2. QED
    BY <2>1 DEF TreePart, ChoicesKept, Readable
<1>2. CASE PlainCall(c)
  <2>1. /\ Sound(tree') /\ DOMAIN tree'.attr = DOMAIN tree.attr /\ Target(c) # profileChoicesPath
        /\ \A a \in DOMAIN tree.attr : a # Target(c) => tree'.attr[a] = tree.attr[a]
    BY <1>2, PlainWritten DEF TreePart
  <2>2. QED
    BY <2>1 DEF TreePart, ChoicesKept, Readable
<1>3. QED
  BY <1>1, <1>2, CallKinds

LEMMA RelayInit == Init => RelayInv
<1> SUFFICES ASSUME Init PROVE RelayInv
  OBVIOUS
<1>1. CallPart
  BY DEF Init, CallPart, CallOK
<1>2. TreePart
  BY TreesAssumption DEF Init, TreePart, ChoicesKept, Known
<1>3. SaidPart /\ BoundPart
  BY DEF Init, SaidPart, BoundPart, NothingSaid
<1>4. QED
  BY <1>1, <1>2, <1>3 DEF RelayInv

LEMMA RelayStep == RelayInv /\ [Next]_vars => RelayInv'
<1> SUFFICES ASSUME RelayInv, [Next]_vars PROVE RelayInv'
  OBVIOUS
<1> USE DEF RelayInv
<1>1. ASSUME NEW r \in Requests, Ask(r) PROVE RelayInv'
  <2>1. UNCHANGED <<tree, up, said, late, gone>> /\ asked' = asked + 1 /\ asked < MaxCalls
    BY <1>1 DEF Ask
  <2>2. CallPart'
    <3>1. CASE cliAccepts(r) /\ up
      <4>1. PICK g \in Handlers : call' = [call EXCEPT ![g] = [pc |-> "auth", c |-> Sent(r)]] /\ served' = g
        BY <1>1, <3>1 DEF Ask
      <4> DEFINE k == [pc |-> "auth", c |-> Sent(r)]
      <4>2. CallOK(k) /\ k.pc # "free"
        BY <3>1, SentLawful DEF CallOK
      <4> HIDE DEF k
      <4>3. /\ call' = [h \in Handlers |-> call'[h]] /\ call'[g] = k
            /\ \A h \in Handlers : h # g => call'[h] = call[h]
        BY <4>1 DEF CallPart, k
      <4>4. QED
        BY <2>1, <3>1, <4>1, <4>2, <4>3 DEF CallPart
    <3>2. CASE ~(cliAccepts(r) /\ up)
      BY <1>1, <2>1, <3>2 DEF Ask, CallPart
    <3>3. QED
      BY <3>1, <3>2
  <2>3. TreePart' /\ SaidPart' /\ BoundPart'
    BY <2>1 DEF TreePart, ChoicesKept, SaidPart, BoundPart
  <2>4. QED
    BY <2>2, <2>3
<1>2. ASSUME NEW g \in Handlers, Authorize(g) PROVE RelayInv'
  <2>1. CallPart'
    <3>1. CASE Answer(g, "denied")
      BY <1>2, <3>1, AnswerKeeps DEF Authorize
    <3>2. CASE call' = [call EXCEPT ![g].pc = "check"] /\ UNCHANGED <<served, code>>
      <4> DEFINE k == call[g]
                 l == [k EXCEPT !.pc = "check"]
      <4>1. CallOK(k) /\ k.pc = "auth" /\ UNCHANGED up
        BY <1>2 DEF Authorize, CallPart
      <4>2. /\ call' = [h \in Handlers |-> call'[h]] /\ call'[g] = l
            /\ \A h \in Handlers : h # g => call'[h] = call[h]
        BY <3>2 DEF CallPart
      <4> HIDE DEF k
      <4>3. l.pc = "check" /\ CallOK(l)
        BY <4>1 DEF CallOK, Free
      <4>4. k # Free
        BY <4>1 DEF Free
      <4> HIDE DEF l
      <4>5. QED
        BY <3>2, <4>1, <4>2, <4>3, <4>4 DEF CallPart, k
    <3>3. QED
      BY <1>2, <3>1, <3>2 DEF Authorize
  <2>2. TreePart' /\ SaidPart' /\ BoundPart'
    BY <1>2 DEF Authorize, TreePart, ChoicesKept, SaidPart, BoundPart
  <2>3. QED
    BY <2>1, <2>2
<1>3. ASSUME NEW g \in Handlers, AuthorizeTimesOut(g) PROVE RelayInv'
  <2>1. CallPart'
    BY <1>3, AnswerKeeps DEF AuthorizeTimesOut
  <2>2. TreePart' /\ SaidPart' /\ BoundPart'
    BY <1>3 DEF AuthorizeTimesOut, TreePart, ChoicesKept, SaidPart, BoundPart
  <2>3. QED
    BY <2>1, <2>2
<1>4. ASSUME NEW g \in Handlers, Check(g) PROVE RelayInv'
  <2>1. CallPart'
    <3>1. CASE Refusal(tree, call[g].c) # "none"
      BY <1>4, <3>1, AnswerKeeps DEF Check
    <3>2. CASE Refusal(tree, call[g].c) = "none"
      <4> DEFINE k == call[g]
                 l == [k EXCEPT !.pc = "write"]
      <4>1. CallOK(k) /\ k.pc = "check" /\ UNCHANGED <<up, served>> /\ call' = [call EXCEPT ![g].pc = "write"]
        BY <1>4, <3>2 DEF Check, CallPart
      <4>2. /\ call' = [h \in Handlers |-> call'[h]] /\ call'[g] = l
            /\ \A h \in Handlers : h # g => call'[h] = call[h]
        BY <4>1 DEF CallPart
      <4>3. LawfulCall(k.c) => Fit(k.c)
        BY <3>2, CheckFits DEF TreePart
      <4> HIDE DEF k
      <4>4. l.pc = "write" /\ CallOK(l) /\ k # Free
        BY <4>1, <4>3 DEF CallOK, Free
      <4> HIDE DEF l
      <4>5. QED
        BY <4>1, <4>2, <4>4 DEF CallPart, k
    <3>3. QED
      BY <3>1, <3>2
  <2>2. TreePart' /\ SaidPart' /\ BoundPart'
    BY <1>4 DEF Check, TreePart, ChoicesKept, SaidPart, BoundPart
  <2>3. QED
    BY <2>1, <2>2
<1>5. ASSUME NEW g \in Handlers, Write(g) PROVE RelayInv'
  <2> DEFINE c == call[g].c
  <2>1. Answer(g, WriteError(tree, c)) /\ call[g].pc = "write" /\ UNCHANGED <<up, asked, gone>>
    BY <1>5 DEF Write
  <2>2. LawfulCall(c)
    BY <2>1 DEF CallPart, CallOK, Free
  <2>3. CallPart'
    BY <2>1, AnswerKeeps
  <2>4. TreePart'
    <3>1. CASE WriteError(tree, c) = "none"
      BY <1>5, <2>2, <3>1, WriteKeepsTree DEF Write
    <3>2. CASE WriteError(tree, c) # "none"
      BY <1>5, <3>2 DEF Write, TreePart, ChoicesKept
    <3>3. QED
      BY <3>1, <3>2
  <2>5. SaidPart'
    <3>1. Target(c) \in Targets
      BY <2>2 DEF LawfulCall
    <3>2. UNCHANGED said \/ Say(c)
      BY <1>5 DEF Write
    <3>3. UNCHANGED late \/ late' = late \cup {Target(c)}
      BY <1>5 DEF Write
    <3>4. DOMAIN said' = DOMAIN said \/ DOMAIN said' = DOMAIN said \cup {Target(c)}
      BY <3>2 DEF Say
    <3> HIDE DEF c
    <3>5. QED
      BY <3>1, <3>3, <3>4 DEF SaidPart
  <2>6. BoundPart'
    BY <2>1 DEF BoundPart
  <2>7. QED
    BY <2>3, <2>4, <2>5, <2>6
<1>6. CASE Kill
  BY <1>6 DEF Kill, CallPart, TreePart, ChoicesKept, SaidPart, BoundPart
<1>7. CASE Crash
  <2>1. CallPart'
    BY <1>7 DEF Crash, CallPart, CallOK
  <2>2. TreePart' /\ SaidPart' /\ BoundPart'
    BY <1>7 DEF Crash, TreePart, ChoicesKept, SaidPart, BoundPart
  <2>3. QED
    BY <2>1, <2>2
<1>8. CASE Restart
  <2>1. CallPart'
    BY <1>8 DEF Restart, CallPart
  <2>2. TreePart'
    <3>1. Sound(tree') /\ tree'.attr = tree.attr
      BY <1>8, ResetKeeps DEF Restart, TreePart
    <3>2. QED
      BY <3>1 DEF TreePart, ChoicesKept, Readable
  <2>3. SaidPart' /\ BoundPart'
    BY <1>8 DEF Restart, SaidPart, BoundPart
  <2>4. QED
    BY <2>1, <2>2, <2>3
<1>9. ASSUME NEW a \in Targets, Vanish(a) PROVE RelayInv'
  <2>1. CallPart' /\ SaidPart' /\ BoundPart'
    BY <1>9 DEF Vanish, CallPart, SaidPart, BoundPart
  <2>2. TreePart'
    <3>1. CASE tree' = AttrGone(tree, a)
      <4>1. /\ Sound(tree') /\ DOMAIN tree'.attr = DOMAIN tree.attr \ {a}
            /\ \A b \in DOMAIN tree'.attr : tree'.attr[b] = tree.attr[b]
        BY <3>1, PlainGone DEF TreePart
      <4>2. QED
        BY <4>1 DEF TreePart, ChoicesKept, Readable
    <3>2. CASE tree' = DriverGone(tree)
      <4>1. Sound(tree') /\ tree'.attr = tree.attr
        BY <3>2, FansGone DEF TreePart
      <4>2. QED
        BY <4>1 DEF TreePart, ChoicesKept, Readable
    <3>3. QED
      BY <1>9, <3>1, <3>2 DEF Vanish, AttrGone, DriverGone
  <2>3. QED
    BY <2>1, <2>2
<1>10. CASE UNCHANGED vars
  BY <1>10 DEF vars, CallPart, TreePart, ChoicesKept, SaidPart, BoundPart
<1>11. QED
  BY <1>1, <1>2, <1>3, <1>4, <1>5, <1>6, <1>7, <1>8, <1>9, <1>10 DEF Next, Handler

LEMMA RelayAlways == Spec => []RelayInv
  BY RelayInit, RelayStep, PTL DEF Spec

\* Every variable keeps its type: the handler a command waits for has a call, and a
\* daemon that is down has none (Service of daemon/service.go, runDaemonVerb of cli.go).
THEOREM RelayTyped == Spec => []TypeOK
  BY RelayAlways, RelayTypes, PTL

-----------------------------------------------------------------------------
(***************************************************************************)
(* What is written.                                                        *)
(***************************************************************************)

\* What a step makes of the attributes outside the directories: they keep their
\* values, but for the one that a handler is at the point of writing.
LEMMA AttrSteps ==
  ASSUME RelayInv, Next, NEW a \in DOMAIN tree.attr \cap DOMAIN tree'.attr, tree.attr[a] # tree'.attr[a]
  PROVE  \E g \in Handlers : /\ PlainCall(call[g].c) /\ LawfulCall(call[g].c) /\ Fit(call[g].c)
                            /\ a = Target(call[g].c) /\ tree'.attr[a] = Value(call[g].c)
<1>1. Sound(tree) /\ tree' # tree
  BY DEF RelayInv, TreePart
<1>2. ASSUME NEW g \in Handlers, Write(g)
      PROVE  /\ PlainCall(call[g].c) /\ LawfulCall(call[g].c) /\ Fit(call[g].c)
             /\ a = Target(call[g].c) /\ tree'.attr[a] = Value(call[g].c)
  <2> DEFINE c == call[g].c
  <2>1. WriteError(tree, c) = "none" /\ tree' = Written(tree, c) /\ call[g].pc = "write"
    BY <1>1, <1>2 DEF Write
  <2>2. LawfulCall(c) /\ Fit(c)
    BY <2>1 DEF RelayInv, CallPart, CallOK, Free
  <2> HIDE DEF c
  <2>3. ~BoostCall(c)
    BY <1>1, <2>1, BoostWritten
  <2>4. PlainCall(c)
    BY <2>2, <2>3, CallKinds
  <2>5. a = Target(c) /\ tree'.attr[a] = Value(c)
    BY <1>1, <2>1, <2>4, PlainWritten
  <2>6. QED
    BY <2>2, <2>4, <2>5 DEF c
<1>3. ~Restart
  BY <1>1, ResetKeeps DEF Restart
<1>4. ASSUME NEW b \in Targets, Vanish(b) PROVE FALSE
  <2>1. CASE tree' = AttrGone(tree, b)
    BY <1>1, <2>1, PlainGone
  <2>2. CASE tree' = DriverGone(tree)
    BY <1>1, <2>2, FansGone
  <2>3. QED
    BY <1>4, <2>1, <2>2 DEF Vanish, AttrGone, DriverGone
<1>5. \E g \in Handlers : Write(g)
  BY <1>1, <1>3, <1>4 DEF Next, Handler, Ask, Authorize, AuthorizeTimesOut, Check, Kill, Crash
<1>6. QED
  BY <1>2, <1>5

\* A fit setting is sane.
LEMMA FitIsSane ==
  ASSUME NEW c, LawfulCall(c), PlainCall(c), Fit(c)
  PROVE  SaneValue(Target(c), Value(c))
<1>1. CASE c.verb = "profile"
  <2>1. Target(c) = profilePath /\ Value(c) = c.name /\ c.name \in Known
    BY <1>1 DEF Fit, Target, Value
  <2>2. Target(c)[1] = "platform_profile" /\ Target(c) # noTurboPath
    BY <2>1 DEF profilePath, noTurboPath
  <2>3. QED
    BY <2>1, <2>2 DEF SaneValue, Known
<1>2. CASE c.verb = "turbo"
  <2>1. Target(c) = noTurboPath /\ Value(c) \in 0..1
    BY <1>2 DEF Target, Value
  <2>2. Target(c)[1] = "no_turbo" /\ Target(c) # profilePath
    BY <2>1 DEF profilePath, noTurboPath
  <2>3. QED
    BY <2>1, <2>2 DEF SaneValue
<1>3. CASE c.verb = "pl"
  <2>1. c.watts \in 1..1000
    BY <1>3 DEF Fit
  <2>2. Value(c) \in SaneLimits
    BY <1>3, <2>1 DEF Value, SaneLimits
  <2>3. Target(c) = <<"power_limit_uw", c.index>>
    BY <1>3 DEF Target, constraintPath
  <2>4. Target(c)[1] # "fan_boost" /\ Target(c) # profilePath /\ Target(c) # noTurboPath
    BY <2>3 DEF profilePath, noTurboPath
  <2>5. QED
    BY <2>2, <2>3, <2>4 DEF SaneValue
<1>4. QED
  BY <1>1, <1>2, <1>3 DEF PlainCall

\* The attributes that a setting may name are the four of the setters.
LEMMA TargetNames ==
  ASSUME NEW a \in Targets
  PROVE  a[1] \in {"fan_boost", "platform_profile", "no_turbo", "power_limit_uw"}
<1>1. PICK r \in Requests : a = Target(r)
  BY DEF Targets
<1>2. QED
  BY <1>1, RequestsAssumption DEF Target, profilePath, noTurboPath, constraintPath

\* A target that the fans' directory has is a boost, and one that it has not is not.
LEMMA FansTargets ==
  ASSUME NEW t, Sound(t), NEW a \in Targets
  PROVE  /\ OnFans(t, a) => a[1] = "fan_boost" /\ a \notin DOMAIN t.attr
         /\ a \in DOMAIN t.attr => a[1] # "fan_boost" /\ ~OnFans(t, a)
<1>1. OnFans(t, a) => a \in HwmonAttrs /\ a \notin DOMAIN t.attr
  BY FansSound, NamesApart
<1>2. a \in DOMAIN t.attr => a \in PlainAttrs
  BY DEF Sound
<1>3. QED
  BY <1>1, <1>2, TargetNames DEF HwmonAttrs, PlainAttrs

LEMMA SaneStep ==
  ASSUME RelayInv, RelayInv', [Next]_vars
  PROVE  \A g \in Handlers : call[g].pc = "write" /\ tree' # tree =>
           \A a \in Targets :
             /\ a \in DOMAIN tree.attr \cap DOMAIN tree'.attr /\ tree.attr[a] # tree'.attr[a] =>
                  SaneValue(a, tree'.attr[a])
             /\ Has(tree', Alienware(tree'), a) => SaneValue(a, Get(tree', Alienware(tree'), a, 0))
<1> SUFFICES ASSUME tree' # tree, NEW a \in Targets
             PROVE  /\ a \in DOMAIN tree.attr \cap DOMAIN tree'.attr /\ tree.attr[a] # tree'.attr[a] =>
                         SaneValue(a, tree'.attr[a])
                    /\ OnFans(tree', a) => SaneValue(a, FanValue(tree', a))
  BY DEF OnFans, FanValue
<1>1. Next
  BY DEF vars
<1>2. ASSUME a \in DOMAIN tree.attr \cap DOMAIN tree'.attr, tree.attr[a] # tree'.attr[a]
      PROVE  SaneValue(a, tree'.attr[a])
  BY <1>1, <1>2, AttrSteps, FitIsSane
<1>3. ASSUME OnFans(tree', a) PROVE SaneValue(a, FanValue(tree', a))
  <2>1. Sound(tree')
    BY DEF RelayInv, TreePart
  <2>2. a[1] = "fan_boost"
    BY <1>3, <2>1, FansTargets
  <2>3. FanValue(tree', a) \in 0..255
    BY <1>3, <2>1, <2>2, FansSound
  <2>4. a # profilePath /\ a # noTurboPath
    BY <2>2 DEF profilePath, noTurboPath
  <2>5. QED
    BY <2>2, <2>3, <2>4 DEF SaneValue
<1>4. QED
  BY <1>2, <1>3

\* No number or name typed, however large, reaches an attribute as anything but a boost
\* in 0..255, a profile of the list, or a limit of 1 to 1000 W (cli.go:154-212,
\* write.go:47-137), for any requests, trees and width of the numbers sent.
THEOREM NothingUnfitWritten == Spec => WritesAreSane
<1>1. RelayInv /\ RelayInv' /\ [Next]_vars =>
        [\A g \in Handlers : call[g].pc = "write" /\ tree' # tree =>
           \A a \in Targets :
             /\ a \in DOMAIN tree.attr \cap DOMAIN tree'.attr /\ tree.attr[a] # tree'.attr[a] =>
                  SaneValue(a, tree'.attr[a])
             /\ Has(tree', Alienware(tree'), a) => SaneValue(a, Get(tree', Alienware(tree'), a, 0))]_vars
  BY SaneStep
<1>2. QED
  BY <1>1, RelayAlways, PTL DEF Spec, WritesAreSane

-----------------------------------------------------------------------------
(***************************************************************************)
(* What was said.                                                          *)
(***************************************************************************)

\* The attribute a holds v, or is not there.
Stands(t, a, v) ==
  \/ a \in DOMAIN t.attr /\ t.attr[a] = v
  \/ OnFans(t, a) /\ FanValue(t, a) = v
  \/ a \notin DOMAIN t.attr /\ ~OnFans(t, a)

LEMMA SaidByStands == SaidStands <=> \A a \in DOMAIN said \ late : Stands(tree, a, said[a])
  BY DEF SaidStands, Stands, OnFans, FanValue

\* A write leaves its value, and disturbs no other.
LEMMA WrittenStands ==
  ASSUME NEW t, Sound(t), NEW c, LawfulCall(c), WriteError(t, c) = "none"
  PROVE  /\ Stands(Written(t, c), Target(c), Value(c))
         /\ \A a, v : a # Target(c) /\ Stands(t, a, v) => Stands(Written(t, c), a, v)
<1> DEFINE u == Written(t, c)
<1>1. CASE BoostCall(c)
  <2>1. Target(c) = <<"fan_boost", c.fan>> /\ Value(c) = c.value
    BY <1>1 DEF BoostCall, Target, Value
  <2>2. /\ u.attr = t.attr /\ OnFans(u, Target(c)) /\ FanValue(u, Target(c)) = Value(c)
        /\ \A a : OnFans(u, a) <=> OnFans(t, a)
        /\ \A a : a # Target(c) => FanValue(u, a) = FanValue(t, a)
    BY <1>1, <2>1, BoostWritten
  <2> HIDE DEF u
  <2>3. QED
    BY <2>2 DEF Stands, u
<1>2. CASE PlainCall(c)
  <2>1. /\ DOMAIN u.attr = DOMAIN t.attr
        /\ \A a : (OnFans(u, a) <=> OnFans(t, a)) /\ FanValue(u, a) = FanValue(t, a)
        /\ Target(c) \in DOMAIN t.attr /\ u.attr[Target(c)] = Value(c)
        /\ \A a \in DOMAIN t.attr : a # Target(c) => u.attr[a] = t.attr[a]
    BY <1>2, PlainWritten
  <2> HIDE DEF u
  <2>2. QED
    BY <2>1 DEF Stands, u
<1>3. QED
  BY <1>1, <1>2, CallKinds

LEMMA SaidInit == Init => SaidStands
  BY DEF Init, SaidStands, NothingSaid

LEMMA SaidStep == RelayInv /\ RelayInv' /\ SaidStands /\ [Next]_vars => SaidStands'
<1> SUFFICES ASSUME RelayInv, RelayInv', SaidStands, [Next]_vars,
                    NEW a \in DOMAIN said' \ late'
             PROVE  Stands(tree', a, said'[a])
  <2>1. SaidStands' <=> \A a \in DOMAIN said' \ late' : Stands(tree', a, said'[a])
    BY DEF SaidStands, Stands, OnFans, FanValue
  <2>2. QED
    BY <2>1
<1>1. Sound(tree) /\ Sound(tree') /\ a \in Targets
  BY DEF RelayInv, TreePart, SaidPart
<1>2. ASSUME NEW b \in DOMAIN said \ late PROVE Stands(tree, b, said[b])
  BY SaidByStands
<1>3. CASE UNCHANGED <<tree, said, late>>
  BY <1>2, <1>3
<1>4. ASSUME NEW g \in Handlers, Write(g), ~UNCHANGED <<tree, said, late>>
      PROVE  Stands(tree', a, said'[a])
  <2> DEFINE c == call[g].c
  <2>1. WriteError(tree, c) = "none" /\ tree' = Written(tree, c) /\ call[g].pc = "write"
    BY <1>4 DEF Write
  <2>2. (Say(c) /\ UNCHANGED late) \/ (late' = late \cup {Target(c)} /\ UNCHANGED said)
    BY <1>4, <2>1 DEF Write
  <2>3. LawfulCall(c)
    BY <2>1 DEF RelayInv, CallPart, CallOK, Free
  <2> HIDE DEF c
  <2>4. CASE a = Target(c)
    <3>1. said'[a] = Value(c)
      BY <2>2, <2>4 DEF Say
    <3>2. QED
      BY <1>1, <2>1, <2>3, <2>4, <3>1, WrittenStands
  <2>5. CASE a # Target(c)
    <3>1. a \in DOMAIN said \ late /\ said'[a] = said[a]
      BY <2>2, <2>5 DEF Say
    <3>2. QED
      BY <1>1, <1>2, <2>1, <2>3, <2>5, <3>1, WrittenStands
  <2>6. QED
    BY <2>4, <2>5
<1>5. CASE Restart
  <2>1. a \in DOMAIN said \ late /\ said'[a] = said[a] /\ a[1] # "fan_boost"
    BY <1>5 DEF Restart
  <2>2. tree'.attr = tree.attr
    BY <1>1, <1>5, ResetKeeps DEF Restart
  <2>3. ~OnFans(tree, a) /\ ~OnFans(tree', a)
    BY <1>1, <2>1, FansTargets
  <2>4. QED
    BY <1>2, <2>1, <2>2, <2>3 DEF Stands
<1>6. ASSUME NEW b \in Targets, Vanish(b) PROVE Stands(tree', a, said'[a])
  <2>1. a \in DOMAIN said \ late /\ said'[a] = said[a]
    BY <1>6 DEF Vanish
  <2>2. Stands(tree, a, said[a])
    BY <1>2, <2>1
  <2>3. CASE b \in DOMAIN tree.attr /\ tree' = AttrGone(tree, b)
    <3>1. /\ DOMAIN tree'.attr = DOMAIN tree.attr \ {b}
          /\ \A d \in DOMAIN tree'.attr : tree'.attr[d] = tree.attr[d]
          /\ \A d : (OnFans(tree', d) <=> OnFans(tree, d)) /\ FanValue(tree', d) = FanValue(tree, d)
      BY <1>1, <2>3, PlainGone
    <3>2. ~OnFans(tree, b)
      BY <1>1, <2>3, FansTargets
    <3>3. QED
      BY <2>1, <2>2, <3>1, <3>2 DEF Stands
  <2>4. CASE tree' = DriverGone(tree)
    <3>1. tree'.attr = tree.attr /\ ~OnFans(tree', a)
      BY <1>1, <2>4, FansGone
    <3>2. OnFans(tree, a) => a \notin DOMAIN tree.attr
      BY <1>1, FansTargets
    <3>3. QED
      BY <2>1, <2>2, <3>1, <3>2 DEF Stands
  <2>5. QED
    BY <1>6, <2>3, <2>4 DEF Vanish, AttrGone, DriverGone
<1>7. QED
  BY <1>3, <1>4, <1>5, <1>6 DEF vars, Next, Handler, Ask, Authorize, AuthorizeTimesOut, Check, Kill, Crash

\* What a command printed as done stays done, unless a later command, a restart for the
\* fans, or a call that outlived its command has changed it (the plugin's writer,
\* Service.qml:547-588), for any number of goroutines and commands.
THEOREM WhatWasSaidStands == Spec => []SaidStands
<1>1. Init => SaidStands
  BY SaidInit
<1>2. RelayInv /\ RelayInv' /\ SaidStands /\ [Next]_vars => SaidStands'
  BY SaidStep
<1>3. QED
  BY <1>1, <1>2, RelayAlways, PTL DEF Spec

-----------------------------------------------------------------------------
(***************************************************************************)
(* What the status foretells.                                              *)
(***************************************************************************)

\* A quotient of whole numbers is one.
LEMMA RoundType ==
  ASSUME NEW n \in Int, NEW d \in Nat \ {0}
  PROVE  Round(n, d) \in Int
<1>1. 2 * n + d \in Int /\ d - 2 * n \in Int /\ 2 * d \in Nat \ {0}
  OBVIOUS
<1>2. ASSUME NEW a \in Int, NEW b \in Nat \ {0} PROVE a \div b \in Int
  OBVIOUS
<1>3. (2 * n + d) \div (2 * d) \in Int /\ (d - 2 * n) \div (2 * d) \in Int
  BY <1>1, <1>2
<1>4. QED
  BY <1>3 DEF Round

\* A whole number of watts is shown as that number.
LEMMA WholeWatts == Round(Microwatts * 45, Microwatts) = 45
<1> DEFINE d == Microwatts
<1>1. d \in Nat \ {0}
  BY DEF Microwatts
<1> HIDE DEF d
<1>2. ASSUME NEW q \in Int, q = (2 * (d * 45) + d) \div (2 * d) PROVE q = 45
  <2>1. (2 * d) * q <= 2 * (d * 45) + d /\ 2 * (d * 45) + d < (2 * d) * q + 2 * d
    BY <1>1, <1>2
  <2>2. ~(q <= 44)
    <3>1. SUFFICES ASSUME q <= 44 PROVE FALSE
      OBVIOUS
    <3>2. (2 * d) * q <= (2 * d) * 44
      BY <1>1, <3>1
    <3>3. QED
      BY <1>1, <2>1, <3>2
  <2>3. ~(q >= 46)
    <3>1. SUFFICES ASSUME q >= 46 PROVE FALSE
      OBVIOUS
    <3>2. (2 * d) * q >= (2 * d) * 46
      BY <1>1, <3>1
    <3>3. QED
      BY <1>1, <2>1, <3>2
  <2>4. QED
    BY <1>2, <2>2, <2>3
<1>3. (2 * (d * 45) + d) \div (2 * d) \in Int /\ d * 45 >= 0
  BY <1>1
<1>4. Round(d * 45, d) = (2 * (d * 45) + d) \div (2 * d)
  BY <1>3 DEF Round
<1>5. QED
  BY <1>2, <1>3, <1>4 DEF d

\* The share of its speed that a fan is shown at is one of 0 to 100.
LEMMA PercentType ==
  ASSUME NEW rpm \in Int, NEW max \in Int
  PROVE  percentOf(rpm, max) \in 0..100
<1>1. ASSUME NEW x \in Int PROVE Min({100, x}) = IF x < 100 THEN x ELSE 100
  BY DEF Min
<1>2. ASSUME NEW x \in Int PROVE Max({0, x}) = IF x < 0 THEN 0 ELSE x
  BY DEF Max
<1>3. CASE max <= 0
  BY <1>3 DEF percentOf
<1>4. CASE max > 0
  <2> DEFINE r == Round(100 * rpm, max)
  <2>1. r \in Int
    BY <1>4, RoundType
  <2>2. percentOf(rpm, max) = Max({0, Min({100, r})})
    BY <1>4 DEF percentOf
  <2> HIDE DEF r
  <2>3. Min({100, r}) \in Int /\ Min({100, r}) <= 100
    BY <1>1, <2>1
  <2>4. QED
    BY <1>2, <2>2, <2>3
<1>5. QED
  BY <1>3, <1>4

\* The fans of the status have speeds and shares that are numbers.
LEMMA FanShown ==
  ASSUME NEW t, Sound(t), NEW i \in Fans
  PROVE  readFan(t, i).percent \in 0..100
<1> DEFINE m == Get(t, Alienware(t), <<"fan_max", i>>, 0)
           rpm == Get(t, Alienware(t), <<"fan_input", i>>, 0)
           top == IF m > 0 THEN m ELSE fallback[i]
<1>1. ASSUME NEW a PROVE FanValue(t, a) \in Int
  BY FansSound DEF OnFans, FanValue, Get
<1>2. m \in Int /\ rpm \in Int
  BY <1>1 DEF FanValue
<1>3. fallback[i] \in Int
  BY DEF fallback, Fans
<1>4. readFan(t, i).percent = percentOf(rpm, top)
  BY DEF readFan
<1> HIDE DEF m, rpm
<1>5. top \in Int
  BY <1>2, <1>3
<1> HIDE DEF top
<1>6. QED
  BY <1>2, <1>4, <1>5, PercentType

limitOf(i) == [verb |-> "pl", index |-> i, watts |-> 45]
turboOf(on) == [verb |-> "turbo", on |-> on]
profileOf(p) == [verb |-> "profile", name |-> p]
Taken(t, c) == Refusal(t, c) = "none" /\ WriteError(t, c) = "none"

LEMMA LimitForetold ==
  ASSUME NEW t, Sound(t), NEW i \in Constraints
  PROVE  /\ Refusal(t, limitOf(i)) = "none" <=> \E l \in readPower(t) : l.index = i /\ l.writable
         /\ Taken(t, limitOf(i)) =>
              [index |-> i, watts |-> 45, writable |-> TRUE] \in readPower(Written(t, limitOf(i)))
<1> DEFINE c == limitOf(i)
           a == constraintPath(i)
<1>1. c.verb = "pl" /\ c.index = i /\ c.watts = 45 /\ Target(c) = a /\ Value(c) = Microwatts * 45
  BY DEF limitOf, Target, Value
<1>2. Refusal(t, c) = "none" <=> probeWritable(t, a)
  BY <1>1 DEF Refusal, limitRefusal, probeWritable
<1>3. Readable(t, a) => t.rapl
  BY DEF Sound, Readable
<1>4. (\E l \in readPower(t) : l.index = i /\ l.writable) <=> probeWritable(t, a)
  <2>1. readPower(t) = {[index |-> j, watts |-> Round(t.attr[constraintPath(j)], Microwatts),
                         writable |-> probeWritable(t, constraintPath(j))] :
                        j \in {k \in Constraints : t.rapl /\ Readable(t, constraintPath(k))}}
    BY DEF readPower
  <2>2. probeWritable(t, a) => Readable(t, a)
    BY DEF probeWritable
  <2>3. ASSUME NEW l \in readPower(t), l.index = i, l.writable PROVE probeWritable(t, a)
    BY <2>1, <2>3
  <2>4. ASSUME probeWritable(t, a) PROVE \E l \in readPower(t) : l.index = i /\ l.writable
    <3> DEFINE l == [index |-> i, watts |-> Round(t.attr[a], Microwatts), writable |-> probeWritable(t, a)]
    <3>1. l \in readPower(t)
      BY <1>3, <2>1, <2>2, <2>4
    <3>2. l.index = i /\ l.writable
      BY <2>4
    <3>3. QED
      BY <3>1, <3>2
  <2>5. QED
    BY <2>3, <2>4
<1>5. ASSUME Taken(t, c)
      PROVE  [index |-> i, watts |-> 45, writable |-> TRUE] \in readPower(Written(t, c))
  <2> DEFINE u == Written(t, c)
  <2>1. PlainCall(c) /\ WriteError(t, c) = "none" /\ probeWritable(t, a)
    BY <1>1, <1>2, <1>5 DEF PlainCall, Taken
  <2>2. DOMAIN u.attr = DOMAIN t.attr /\ u.attr[a] = Microwatts * 45 /\ a \in DOMAIN u.attr
    BY <1>1, <2>1, PlainWritten
  <2>3. u.readonly = t.readonly /\ u.rapl = t.rapl
    <3>1. u = [t EXCEPT !.attr[a] = Microwatts * 45]
      BY <1>1 DEF Written
    <3>2. t = [hwmon |-> t.hwmon, attr |-> t.attr, rapl |-> t.rapl, readonly |-> t.readonly,
               refuses |-> t.refuses, gpu |-> t.gpu]
      BY Fields
    <3> HIDE DEF u, a
    <3>3. QED
      BY <3>1, <3>2
  <2>4. probeWritable(u, a) /\ u.rapl
    BY <1>3, <2>1, <2>2, <2>3 DEF probeWritable, Readable
  <2>5. Round(Microwatts * 45, Microwatts) = 45
    BY WholeWatts
  <2> HIDE DEF u
  <2>6. [index |-> i, watts |-> Round(u.attr[a], Microwatts), writable |-> probeWritable(u, a)] \in readPower(u)
    BY <2>4 DEF readPower, probeWritable
  <2>7. QED
    BY <2>2, <2>4, <2>5, <2>6 DEF u
<1>6. QED
  BY <1>2, <1>4, <1>5

LEMMA TurboForetold ==
  ASSUME NEW t, Sound(t), NEW on \in BOOLEAN
  PROVE  /\ Refusal(t, turboOf(on)) = "none" <=> readTurbo(t).available
         /\ Taken(t, turboOf(on)) => readTurbo(Written(t, turboOf(on))).enabled = on
<1> DEFINE c == turboOf(on)
<1>1. c.verb = "turbo" /\ c.on = on /\ Target(c) = noTurboPath /\ Value(c) = (IF on THEN 0 ELSE 1)
  BY DEF turboOf, Target, Value
<1>2. Refusal(t, c) = "none" <=> readTurbo(t).available
  BY <1>1 DEF Refusal, turboRefusal, readTurbo
<1>3. ASSUME Taken(t, c) PROVE readTurbo(Written(t, c)).enabled = on
  <2> DEFINE u == Written(t, c)
  <2>1. DOMAIN u.attr = DOMAIN t.attr /\ noTurboPath \in DOMAIN t.attr /\ u.attr[noTurboPath] = IF on THEN 0 ELSE 1
    BY <1>1, <1>3, PlainWritten DEF PlainCall, Taken
  <2> HIDE DEF u
  <2>2. readTurbo(u).enabled = (u.attr[noTurboPath] = 0)
    BY <2>1 DEF readTurbo, Readable
  <2>3. QED
    BY <2>1, <2>2 DEF u
<1>4. QED
  BY <1>2, <1>3

LEMMA ProfileForetold ==
  ASSUME NEW t, Sound(t), NEW p \in readProfile(t).choices
  PROVE  /\ readProfile(t).writable /\ Target(profileOf(p)) \notin DOMAIN t.refuses => Taken(t, profileOf(p))
         /\ Taken(t, profileOf(p)) => readProfile(Written(t, profileOf(p))).current = p
<1> DEFINE c == profileOf(p)
<1>1. c.verb = "profile" /\ c.name = p /\ Target(c) = profilePath /\ Value(c) = p
  BY DEF profileOf, Target, Value
<1>2. Readable(t, profileChoicesPath) /\ p \in t.attr[profileChoicesPath] /\ p # ""
  BY DEF readProfile, Sound, Readable
<1>3. Refusal(t, c) = "none"
  BY <1>1, <1>2 DEF Refusal, profileRefusal
<1>4. readProfile(t).writable => Readable(t, profilePath) /\ profilePath \notin t.readonly
  BY DEF readProfile, probeWritable
<1>5. ASSUME readProfile(t).writable, Target(c) \notin DOMAIN t.refuses PROVE Taken(t, c)
  BY <1>1, <1>3, <1>4, <1>5 DEF Taken, WriteError, Exists
<1>6. ASSUME Taken(t, c) PROVE readProfile(Written(t, c)).current = p
  <2> DEFINE u == Written(t, c)
  <2>1. DOMAIN u.attr = DOMAIN t.attr /\ profilePath \in DOMAIN t.attr /\ u.attr[profilePath] = p
    BY <1>1, <1>6, PlainWritten DEF PlainCall, Taken
  <2> HIDE DEF u
  <2>2. readProfile(u).current = u.attr[profilePath]
    BY <2>1 DEF readProfile, Readable
  <2>3. QED
    BY <2>1, <2>2 DEF u
<1>7. QED
  BY <1>5, <1>6

LEMMA SoundForetells == Sound(tree) => StatusForetellsWrites
<1> SUFFICES ASSUME Sound(tree) PROVE StatusForetellsWrites
  OBVIOUS
<1> DEFINE s == Snapshot(tree)
<1>1. ASSUME NEW t PROVE /\ Snapshot(t).power = readPower(t) /\ Snapshot(t).turbo = readTurbo(t)
                         /\ Snapshot(t).profile = readProfile(t)
                         /\ \A i \in Fans : Snapshot(t).fans[i] = readFan(t, i)
  BY DEF Snapshot
<1>2. \A i \in Constraints :
         /\ Refusal(tree, limitOf(i)) = "none" <=> \E l \in s.power : l.index = i /\ l.writable
         /\ Taken(tree, limitOf(i)) =>
              [index |-> i, watts |-> 45, writable |-> TRUE] \in Snapshot(Written(tree, limitOf(i))).power
  <2>1. s.power = readPower(tree)
    BY <1>1
  <2>2. ASSUME NEW i \in Constraints
        PROVE  /\ Refusal(tree, limitOf(i)) = "none" <=> \E l \in s.power : l.index = i /\ l.writable
               /\ Taken(tree, limitOf(i)) =>
                    [index |-> i, watts |-> 45, writable |-> TRUE] \in Snapshot(Written(tree, limitOf(i))).power
    <3>1. Snapshot(Written(tree, limitOf(i))).power = readPower(Written(tree, limitOf(i)))
      BY <1>1
    <3> HIDE DEF s
    <3>2. QED
      BY <2>1, <3>1, LimitForetold
  <2>3. QED
    BY <2>2
<1>3. \A on \in BOOLEAN :
         /\ Refusal(tree, turboOf(on)) = "none" <=> s.turbo.available
         /\ Taken(tree, turboOf(on)) => Snapshot(Written(tree, turboOf(on))).turbo.enabled = on
  BY <1>1, TurboForetold
<1>4. \A p \in s.profile.choices :
         /\ s.profile.writable /\ Target(profileOf(p)) \notin DOMAIN tree.refuses => Taken(tree, profileOf(p))
         /\ Taken(tree, profileOf(p)) => Snapshot(Written(tree, profileOf(p))).profile.current = p
  BY <1>1, ProfileForetold
<1>5. \A i \in Fans : s.fans[i].percent \in 0..100
  BY <1>1, FanShown
<1>6. QED
  BY <1>2, <1>3, <1>4, <1>5 DEF StatusForetellsWrites, limitOf, turboOf, profileOf, Taken

\* The status tells the plugin beforehand what the daemon will take, and the next status
\* shows what it took, in every state the daemon can reach with any tree it starts from
\* (read.go:129-235 against write.go:80-137).
THEOREM StatusForetells == Spec => []StatusForetellsWrites
<1>1. RelayInv => StatusForetellsWrites
  BY SoundForetells DEF RelayInv, TreePart
<1>2. QED
  BY <1>1, RelayAlways, PTL
=============================================================================
