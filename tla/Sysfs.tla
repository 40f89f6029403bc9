------------------------------- MODULE Sysfs -------------------------------
(***************************************************************************)
(* What the daemon makes of sysfs (helper/internal/hw): the snapshot that  *)
(* Status answers with, and the four settings it writes.                   *)
(*                                                                         *)
(* A tree is a record of                                                   *)
(*   hwmon     the directories of /sys/class/hwmon by their number, in the *)
(*             order of their names, each with the name it gives itself    *)
(*             and its attributes                                          *)
(*   attr      the attributes elsewhere                                    *)
(*   rapl      whether the intel-rapl:0 directory is there                 *)
(*   readonly  the attributes nobody may open for writing                  *)
(*   refuses   what the kernel says to a write of an attribute, "invalid"  *)
(*             or "io"; one that is not here takes it                      *)
(*   gpu       "asleep", "none" (nvidia-smi fails), "noise" (no row to be  *)
(*             read) or a row: what its four columns hold                  *)
(* An attribute is a pair of a name and an index, and its value is what    *)
(* the readers make of its text.  One whose text they cannot use is taken  *)
(* to be missing: it is not in the domain of attr.                         *)
(***************************************************************************)
EXTENDS Integers, SequencesExt, FiniteSetsExt

AlienwareHwmonName == "alienware_wmi"
DellSMMHwmonName == "dell_smm"
fallback == <<5700, 5300>>
Fans == 1..2
Constraints == 0..2

profilePath == <<"platform_profile", 0>>
profileChoicesPath == <<"platform_profile_choices", 0>>
noTurboPath == <<"no_turbo", 0>>
constraintPath(i) == <<"power_limit_uw", i>>

\* The first directory that calls itself name, 0 for none.
FindHwmon(tree, name) ==
  LET found == {i \in DOMAIN tree.hwmon : tree.hwmon[i].name = name}
  IN  IF found = {} THEN 0 ELSE Min(found)

Alienware(tree) == FindHwmon(tree, AlienwareHwmonName)

Has(tree, dir, a) == dir # 0 /\ a \in DOMAIN tree.hwmon[dir].attr

\* readInt, or what the reader puts where it fails.
Get(tree, dir, a, default) == IF Has(tree, dir, a) THEN tree.hwmon[dir].attr[a] ELSE default

\* math.Round of n / d, which rounds a half away from zero.
Round(n, d) == IF n >= 0 THEN (2 * n + d) \div (2 * d) ELSE -((d - 2 * n) \div (2 * d))

Microwatts == 1000000  \* of a watt

\* The attributes a directory may hold, and those elsewhere.
HwmonAttrs == {"fan_boost", "fan_input", "fan_max", "temp_input"} \X Nat
PlainAttrs == {"platform_profile", "platform_profile_choices", "no_turbo", "power_limit_uw",
               "scaling_cur_freq"} \X Nat

SoundDir(d) ==
  /\ d = [name |-> d.name, attr |-> [a \in DOMAIN d.attr |-> d.attr[a]]]
  /\ \A a \in DOMAIN d.attr :
       /\ a \in HwmonAttrs /\ d.attr[a] \in Int
       /\ a[1] = "fan_boost" => d.attr[a] \in 0..255

\* What is true of every tree: attributes hold what their drivers put there, and one is
\* there only with its directory.
Sound(tree) ==
  /\ tree = [hwmon |-> [i \in DOMAIN tree.hwmon |-> tree.hwmon[i]],
              attr |-> [a \in DOMAIN tree.attr |-> tree.attr[a]],
              rapl |-> tree.rapl, readonly |-> tree.readonly, refuses |-> tree.refuses,
              gpu |-> tree.gpu]
  /\ DOMAIN tree.hwmon \subseteq Nat \ {0}
  /\ \A i \in DOMAIN tree.hwmon : SoundDir(tree.hwmon[i])
  /\ DOMAIN tree.attr \subseteq PlainAttrs
  /\ profileChoicesPath \in DOMAIN tree.attr => "" \notin tree.attr[profileChoicesPath]
  /\ \A i \in Constraints : constraintPath(i) \in DOMAIN tree.attr => tree.rapl

-----------------------------------------------------------------------------
\* The snapshot.

percentOf(rpm, max) ==
  IF max <= 0 THEN 0 ELSE Max({0, Min({100, Round(100 * rpm, max)})})

readFan(tree, i) ==
  LET dir == Alienware(tree)
      max == Get(tree, dir, <<"fan_max", i>>, 0)
      rpm == Get(tree, dir, <<"fan_input", i>>, 0)
      top == IF max > 0 THEN max ELSE fallback[i]
  IN  [rpm |-> rpm, max |-> top, boost |-> Get(tree, dir, <<"fan_boost", i>>, 0),
       percent |-> percentOf(rpm, top)]

Sources == [cpu |-> <<AlienwareHwmonName, 1>>, gpu |-> <<AlienwareHwmonName, 2>>,
            sodimm |-> <<DellSMMHwmonName, 3>>, other |-> <<DellSMMHwmonName, 6>>]

\* A temperature that cannot be read has no entry.
readTemps(tree) ==
  LET dir(k) == FindHwmon(tree, Sources[k][1])
      attr(k) == <<"temp_input", Sources[k][2]>>
  IN  [k \in {s \in DOMAIN Sources : Has(tree, dir(s), attr(s))} |->
         Round(tree.hwmon[dir(k)].attr[attr(k)], 1000)]

Readable(tree, a) == a \in DOMAIN tree.attr
probeWritable(tree, a) == Readable(tree, a) /\ a \notin tree.readonly

readProfile(tree) ==
  [current |-> IF Readable(tree, profilePath) THEN tree.attr[profilePath] ELSE "",
   writable |-> probeWritable(tree, profilePath),
   choices |-> IF Readable(tree, profileChoicesPath) THEN tree.attr[profileChoicesPath] ELSE {}]

readTurbo(tree) ==
  IF Readable(tree, noTurboPath) THEN [available |-> TRUE, enabled |-> tree.attr[noTurboPath] = 0]
  ELSE [available |-> FALSE, enabled |-> FALSE]

\* A constraint that cannot be read is left out, and power is available while one is
\* left.
readPower(tree) ==
  {[index |-> i, watts |-> Round(tree.attr[constraintPath(i)], Microwatts),
    writable |-> probeWritable(tree, constraintPath(i))] :
   i \in {j \in Constraints : tree.rapl /\ Readable(tree, constraintPath(j))}}

\* The fastest core, in whole megahertz; 0 stands for not available.
readCPU(tree) ==
  LET khz == {tree.attr[a] : a \in {b \in DOMAIN tree.attr : b[1] = "scaling_cur_freq"}}
      running == {k \in khz : k > 0}
  IN  IF running = {} THEN 0 ELSE (Max(running) + 500) \div 1000

\* nvidia-smi is not run for a card that sleeps: it would wake it.
readGPU(tree) ==
  [asleep |-> tree.gpu = "asleep", available |-> tree.gpu \notin {"asleep", "none", "noise"}]

Warnings(tree) ==
  LET dir == Alienware(tree)
      dell == FindHwmon(tree, DellSMMHwmonName)
      fans == IF dir = 0 THEN {} ELSE {"fan_input", "fan_boost"} \X Fans
      temps == {<<"temp_input", i>> : i \in (IF dir = 0 THEN {} ELSE {1, 2}) \cup (IF dell = 0 THEN {} ELSE {3, 6})}
      owner(i) == IF i \in {1, 2} THEN dir ELSE dell
  IN  {a \in fans : ~Has(tree, dir, a)}
        \cup {a \in temps : ~Has(tree, owner(a[2]), a)}
        \cup {a \in {profilePath, profileChoicesPath, noTurboPath} : ~Readable(tree, a)}
        \cup (IF dir = 0 THEN {<<AlienwareHwmonName, 0>>} ELSE {})
        \cup (IF dell = 0 THEN {<<DellSMMHwmonName, 0>>} ELSE {})
        \cup (IF readPower(tree) = {} THEN {<<"intel-rapl", 0>>} ELSE {})
        \cup (IF readCPU(tree) = 0 THEN {<<"scaling_cur_freq", 0>>} ELSE {})
        \cup (IF tree.gpu \in {"none", "noise"} THEN {<<"nvidia-smi", 0>>} ELSE {})

Snapshot(tree) ==
  [fans |-> [i \in Fans |-> readFan(tree, i)], temps |-> readTemps(tree),
   profile |-> readProfile(tree), turbo |-> readTurbo(tree), power |-> readPower(tree),
   cpu |-> readCPU(tree), gpu |-> readGPU(tree), warnings |-> Warnings(tree)]

-----------------------------------------------------------------------------
\* The settings.  A call is a record of its verb and its arguments.

\* What is found wrong with a call before anything is written.
fanRefusal(tree, c) ==
  IF c.value \notin 0..255 THEN "hw-bad-request"
  ELSE IF Alienware(tree) = 0 THEN "hw-missing" ELSE "none"

profileRefusal(tree, c) ==
  IF c.name = "" THEN "hw-bad-request"
  ELSE IF ~Readable(tree, profileChoicesPath) THEN "hw-missing"
  ELSE IF c.name \notin tree.attr[profileChoicesPath] THEN "hw-bad-request" ELSE "none"

turboRefusal(tree) == IF Readable(tree, noTurboPath) THEN "none" ELSE "hw-not-supported"

\* Mutant: the largest wattage is not checked.
limitRefusalBelow(tree, c) ==
  IF c.index \notin Constraints \/ c.watts < 1 THEN "hw-bad-request"
  ELSE IF ~Readable(tree, constraintPath(c.index)) THEN "hw-missing"
  ELSE IF ~probeWritable(tree, constraintPath(c.index)) THEN "hw-not-supported" ELSE "none"

\* Mutant: the probe before the write is left out.
limitRefusalUnprobed(tree, c) ==
  IF c.index \notin Constraints \/ c.watts \notin 1..1000 THEN "hw-bad-request" ELSE "none"

limitRefusal(tree, c) ==
  IF c.index \notin Constraints \/ c.watts \notin 1..1000 THEN "hw-bad-request"
  ELSE IF ~Readable(tree, constraintPath(c.index)) THEN "hw-missing"
  ELSE IF ~probeWritable(tree, constraintPath(c.index)) THEN "hw-not-supported" ELSE "none"

Refusal(tree, c) ==
  CASE c.verb = "boost" -> fanRefusal(tree, c)
    [] c.verb = "profile" -> profileRefusal(tree, c)
    [] c.verb = "turbo" -> turboRefusal(tree)
    [] c.verb = "pl" -> limitRefusal(tree, c)

Target(c) ==
  CASE c.verb = "boost" -> <<"fan_boost", c.fan>>
    [] c.verb = "profile" -> profilePath
    [] c.verb = "turbo" -> noTurboPath
    [] c.verb = "pl" -> constraintPath(c.index)

Value(c) ==
  CASE c.verb = "boost" -> c.value
    [] c.verb = "profile" -> c.name
    [] c.verb = "turbo" -> IF c.on THEN 0 ELSE 1
    [] c.verb = "pl" -> Microwatts * c.watts

Exists(tree, c) ==
  IF c.verb = "boost" THEN Has(tree, Alienware(tree), Target(c)) ELSE Readable(tree, Target(c))

\* classifyWrite: what a write that is tried comes to.
WriteError(tree, c) ==
  IF ~Exists(tree, c) THEN "hw-missing"
  ELSE IF Target(c) \in tree.readonly THEN "hw-not-supported"
  ELSE IF Target(c) \notin DOMAIN tree.refuses THEN "none"
  ELSE IF tree.refuses[Target(c)] = "invalid" THEN "hw-not-supported" ELSE "internal"

Written(tree, c) ==
  IF c.verb = "boost" THEN [tree EXCEPT !.hwmon[Alienware(tree)].attr[Target(c)] = Value(c)]
  ELSE [tree EXCEPT !.attr[Target(c)] = Value(c)]

\* ResetBoost: every fan that takes it goes back to the firmware.
ResetBoost(tree) ==
  LET reset(t, i) == LET c == [verb |-> "boost", fan |-> i, value |-> 0]
                     IN  IF WriteError(t, c) = "none" THEN Written(t, c) ELSE t
  IN  IF Alienware(tree) = 0 THEN tree ELSE reset(reset(tree, 1), 2)
=============================================================================
