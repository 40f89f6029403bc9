--------------------------- MODULE AlienFXProofs ---------------------------
(***************************************************************************)
(* The safety of the AlienFX sessions for any number of processes, regions *)
(* and zones, any size of the frames and any command lines: who may drive  *)
(* the controller, what a play shows, what "ok" means, and when "wedged"   *)
(* is the last word.                                                       *)
(***************************************************************************)
EXTENDS AlienFX, DataProofs

-----------------------------------------------------------------------------
(***************************************************************************)
(* Zones and frames.                                                       *)
(***************************************************************************)
ControlFrames == {Control(t) : t \in {"wait", "remove", "start-new", "finish-play"}}
ColourFrames == [op : {"set-one-color"}, colour : Colours, zones : Seq(Zones)]
DimFrames == [op : {"turn-on"}, dim : 0..100, zones : Seq(Zones)]
Frames == ControlFrames \cup ColourFrames \cup DimFrames

\* A list that is one entry by entry is one.
LEMMA IsList ==
  ASSUME NEW s, Len(s) \in Nat, s = [i \in 1..Len(s) |-> s[i]]
  PROVE  s \in Seq(ToSet(s)) /\ DOMAIN s = 1..Len(s)
<1> DEFINE n == Len(s)
<1>1. n \in Nat /\ s = [i \in 1..n |-> s[i]]
  OBVIOUS
<1> HIDE DEF n
<1>2. DOMAIN s = 1..n
  BY <1>1
<1>3. \A i \in 1..n : s[i] \in ToSet(s)
  BY <1>2 DEF ToSet
<1>4. s \in [1..n -> ToSet(s)]
  BY <1>1, <1>3
<1>5. QED
  BY <1>1, <1>2, <1>4 DEF n

\* The zones of every region are among the zones of the table.
LEMMA TableZoned ==
  /\ AllZoneIDs \in Seq(Zones)
  /\ \A region \in ToSet(RegionIDs) : ZoneIDs[region] \in Seq(Zones)
<1> DEFINE zonesOf(i) == ZoneIDs[RegionIDs[i]]
           R == DOMAIN RegionIDs
           A == UNION {ToSet(zonesOf(i)) : i \in R}
           table == [i \in R |-> zonesOf(i)]
<1>1. RegionIDs \in Seq(ToSet(RegionIDs)) /\ R = 1..Len(RegionIDs) /\ Len(RegionIDs) \in Nat
  BY TableAssumption, IsList
<1>2. ASSUME NEW i \in R PROVE zonesOf(i) \in Seq(A)
  <2>1. zonesOf(i) \in Seq(ToSet(zonesOf(i)))
    BY TableAssumption, IsList
  <2>2. ToSet(zonesOf(i)) \subseteq A
    OBVIOUS
  <2> HIDE DEF A, zonesOf
  <2>3. QED
    BY <2>1, <2>2
<1>3. table \in Seq(Seq(A)) /\ DOMAIN table = R /\ \A i \in R : table[i] = zonesOf(i)
  <2> HIDE DEF A, zonesOf
  <2>1. table \in [1..Len(RegionIDs) -> Seq(A)]
    BY <1>1, <1>2
  <2>2. QED
    BY <1>1, <2>1
<1>4. AllZoneIDs = FlattenSeq(table)
  BY DEF AllZoneIDs
<1> HIDE DEF table
<1>5. AllZoneIDs \in Seq(A) /\ ToSet(AllZoneIDs) = UNION {ToSet(table[i]) : i \in DOMAIN table}
  BY <1>3, <1>4, FlattenLays, FlattenCovers
<1>6. Zones = A
  <2> HIDE DEF zonesOf, R
  <2>1. {ToSet(table[i]) : i \in DOMAIN table} = {ToSet(zonesOf(i)) : i \in R}
    BY <1>3
  <2>2. QED
    BY <1>5, <2>1 DEF Zones
<1>7. \A region \in ToSet(RegionIDs) : \E i \in R : region = RegionIDs[i]
  BY DEF ToSet
<1> HIDE DEF A, R
<1>8. QED
  BY <1>2, <1>5, <1>6, <1>7
\* The controller answers for every zone of a list of frames what the list says.
LEMMA ColourZonesTyped ==
  ASSUME NEW colour \in Colours, NEW zones \in Seq(Zones)
  PROVE  LET w == SetColorZones(colour, zones)
         IN  /\ w \in Seq(ColourFrames)
             /\ \A f \in ToSet(w) : f.colour = colour /\ ToSet(f.zones) \subseteq ToSet(zones)
             /\ \A z \in ToSet(zones) : \E f \in ToSet(w) : z \in ToSet(f.zones)
<1> DEFINE w == SetColorZones(colour, zones)
<1>1. CASE zones = <<>>
  <2> DEFINE f == SetOneColorFrame(colour, <<>>)
  <2>1. w = <<f>>
    BY <1>1 DEF SetColorZones
  <2>2. f \in ColourFrames /\ f.colour = colour /\ f.zones = <<>>
    BY DEF SetOneColorFrame, ColourFrames
  <2> HIDE DEF w, f
  <2>3. w \in Seq(ColourFrames) /\ ToSet(w) = {f}
    BY <2>1, <2>2 DEF ToSet
  <2>4. ToSet(<<>>) = {}
    BY DEF ToSet
  <2>5. QED
    BY <1>1, <2>2, <2>3, <2>4 DEF w
<1>2. CASE zones # <<>>
  <2> DEFINE ch == Chunks(zones, MaxColorZonesPerFrame)
  <2>1. ch \in Seq(Seq(Zones)) /\ UNION {ToSet(ch[i]) : i \in DOMAIN ch} = ToSet(zones)
    BY ChunksCover, AlienFXAssumption
  <2>2. w = [i \in DOMAIN ch |-> SetOneColorFrame(colour, ch[i])]
    BY <1>2 DEF SetColorZones
  <2> HIDE DEF w, ch
  <2>3. DOMAIN w = DOMAIN ch /\ DOMAIN ch = 1..Len(ch) /\ Len(ch) \in Nat
    BY <2>1, <2>2
  <2>4. ASSUME NEW i \in DOMAIN ch
        PROVE  w[i] \in ColourFrames /\ w[i].colour = colour /\ w[i].zones = ch[i]
    <3>1. ch[i] \in Seq(Zones) /\ w[i] = [op |-> "set-one-color", colour |-> colour, zones |-> ch[i]]
      BY <2>1, <2>2 DEF SetOneColorFrame
    <3>2. QED
      BY <3>1 DEF ColourFrames
  <2>5. w \in Seq(ColourFrames)
    <3>1. w \in [1..Len(ch) -> ColourFrames]
      BY <2>2, <2>3, <2>4
    <3>2. QED
      BY <2>3, <3>1
  <2>6. \A f \in ToSet(w) : f.colour = colour /\ ToSet(f.zones) \subseteq ToSet(zones)
    <3>1. ASSUME NEW i \in DOMAIN ch PROVE ToSet(ch[i]) \subseteq ToSet(zones)
      BY <2>1
    <3>2. \A f \in ToSet(w) : \E i \in DOMAIN ch : f = w[i]
      BY <2>3 DEF ToSet
    <3>3. QED
      BY <2>4, <3>1, <3>2
  <2>7. ASSUME NEW z \in ToSet(zones) PROVE \E f \in ToSet(w) : z \in ToSet(f.zones)
    <3>1. PICK i \in DOMAIN ch : z \in ToSet(ch[i])
      BY <2>1
    <3>2. w[i] \in ToSet(w)
      BY <2>3 DEF ToSet
    <3>3. QED
      BY <2>4, <3>1, <3>2
  <2>8. QED
    BY <2>5, <2>6, <2>7 DEF w
<1>3. QED
  BY <1>1, <1>2

\* So does the dimming of every zone.
LEMMA DimTyped ==
  ASSUME NEW percent \in 0..100, NEW zones \in Seq(Zones)
  PROVE  LET w == Dim(percent, zones)
         IN  /\ w \in Seq(DimFrames)
             /\ \A f \in ToSet(w) : f.op = "turn-on" /\ f.dim = 100 - percent
             /\ \A z \in ToSet(zones) : \E f \in ToSet(w) : z \in ToSet(f.zones)
<1> DEFINE w == Dim(percent, zones)
           ch == Chunks(zones, MaxTurnOnZonesPerFrame)
           d == 100 - percent
<1>1. ch \in Seq(Seq(Zones)) /\ UNION {ToSet(ch[i]) : i \in DOMAIN ch} = ToSet(zones)
  BY ChunksCover, AlienFXAssumption
<1>2. w = [i \in DOMAIN ch |-> [op |-> "turn-on", dim |-> d, zones |-> ch[i]]]
  BY DEF Dim, TurnOnFrame
<1>2a. d \in 0..100
  OBVIOUS
<1> HIDE DEF w, ch
<1>3. DOMAIN w = DOMAIN ch /\ DOMAIN ch = 1..Len(ch) /\ Len(ch) \in Nat
  BY <1>1, <1>2
<1>4. ASSUME NEW i \in DOMAIN ch
      PROVE  w[i] \in DimFrames /\ w[i].op = "turn-on" /\ w[i].dim = d /\ w[i].zones = ch[i]
  <2> HIDE DEF d
  <2>1. ch[i] \in Seq(Zones) /\ w[i] = [op |-> "turn-on", dim |-> d, zones |-> ch[i]]
    BY <1>1, <1>2
  <2>2. QED
    BY <1>2a, <2>1 DEF DimFrames
<1>5. w \in Seq(DimFrames)
  <2>1. w \in [1..Len(ch) -> DimFrames]
    <3> HIDE DEF d
    <3>1. QED
      BY <1>2, <1>3, <1>4
  <2>2. QED
    BY <1>3, <2>1
<1>6. \A f \in ToSet(w) : f.op = "turn-on" /\ f.dim = d
  BY <1>3, <1>4 DEF ToSet
<1>7. ASSUME NEW z \in ToSet(zones) PROVE \E f \in ToSet(w) : z \in ToSet(f.zones)
  <2>1. PICK i \in DOMAIN ch : z \in ToSet(ch[i])
    BY <1>1
  <2>2. w[i] \in ToSet(w)
    BY <1>3 DEF ToSet
  <2>3. QED
    BY <1>4, <2>1, <2>2
<1>8. QED
  BY <1>5, <1>6, <1>7 DEF w

-----------------------------------------------------------------------------
(***************************************************************************)
(* Pictures.  What the firmware has in its program after the first n       *)
(* frames of a script are the colour frames since it last cleared it.      *)
(***************************************************************************)
Clears == {"remove", "start-new", "finish-play"}
Cleared(w, n) == \E k \in 1..n : w[k].op \in Clears
Staged(w, n) ==
  {w[j] : j \in {i \in 1..n : w[i].op = "set-one-color" /\ \A k \in i..n : w[k].op \notin Clears}}

LEMMA StagedNext ==
  ASSUME NEW w, NEW n \in Nat
  PROVE  /\ w[n + 1].op \in Clears => Staged(w, n + 1) = {}
         /\ w[n + 1].op = "set-one-color" => Staged(w, n + 1) = Staged(w, n) \cup {w[n + 1]}
         /\ w[n + 1].op \notin Clears \cup {"set-one-color"} => Staged(w, n + 1) = Staged(w, n)
<1> DEFINE in(m) == {i \in 1..m : w[i].op = "set-one-color" /\ \A k \in i..m : w[k].op \notin Clears}
<1>0. "set-one-color" \notin Clears
  BY DEF Clears
<1>1. \A i \in 1..n : i..(n + 1) = (i..n) \cup {n + 1}
  OBVIOUS
<1>2. 1..(n + 1) = (1..n) \cup {n + 1} /\ n + 1 \in 1..(n + 1) /\ (n + 1)..(n + 1) = {n + 1}
  OBVIOUS
<1>3. w[n + 1].op \in Clears => in(n + 1) = {}
  <2>1. \A i \in 1..(n + 1) : n + 1 \in i..(n + 1)
    OBVIOUS
  <2>2. QED
    BY <2>1
<1>4. w[n + 1].op = "set-one-color" => in(n + 1) = in(n) \cup {n + 1}
  BY <1>0, <1>1, <1>2
<1>5. w[n + 1].op \notin Clears \cup {"set-one-color"} => in(n + 1) = in(n)
  BY <1>1, <1>2
<1> HIDE DEF in
<1>6. \A m : Staged(w, m) = {w[j] : j \in in(m)}
  BY DEF Staged, in
<1>7. QED
  BY <1>3, <1>4, <1>5, <1>6

\* A part of a script is staged as it would be alone, once it has cleared the program.
LEMMA StagedLocal ==
  ASSUME NEW w, NEW p, NEW o \in Nat, NEW m \in Nat,
         \A j \in 1..m : w[o + j] = p[j], Cleared(p, m)
  PROVE  Staged(w, o + m) = Staged(p, m) /\ Cleared(w, o + m)
<1>1. PICK c \in 1..m : p[c].op \in Clears
  BY DEF Cleared
<1>2. o + c \in 1..(o + m) /\ w[o + c].op \in Clears
  BY <1>1
<1>3. ASSUME NEW i \in 1..m, p[i].op = "set-one-color", \A k \in i..m : p[k].op \notin Clears
      PROVE  o + i \in 1..(o + m) /\ \A k \in (o + i)..(o + m) : w[k].op \notin Clears
  <2>1. ASSUME NEW k \in (o + i)..(o + m) PROVE w[k].op \notin Clears
    <3>1. k - o \in i..m /\ k - o \in 1..m /\ o + (k - o) = k
      OBVIOUS
    <3>2. QED
      BY <1>3, <3>1
  <2>2. QED
    BY <2>1
<1>4. ASSUME NEW i \in 1..(o + m), w[i].op = "set-one-color", \A k \in i..(o + m) : w[k].op \notin Clears
      PROVE  i - o \in 1..m /\ o + (i - o) = i /\ \A k \in (i - o)..m : p[k].op \notin Clears
  <2>1. ~(i <= o + c)
    <3>1. SUFFICES ASSUME i <= o + c PROVE FALSE
      OBVIOUS
    <3>2. o + c \in i..(o + m)
      BY <3>1
    <3>3. QED
      BY <1>2, <1>4, <3>2
  <2>2. i - o \in 1..m /\ o + (i - o) = i
    BY <2>1
  <2>3. ASSUME NEW k \in (i - o)..m PROVE p[k].op \notin Clears
    <3>1. o + k \in i..(o + m) /\ k \in 1..m
      BY <2>2
    <3>2. QED
      BY <1>4, <3>1
  <2>4. QED
    BY <2>2, <2>3
<1>5. ASSUME NEW f \in Staged(p, m) PROVE f \in Staged(w, o + m)
  <2>1. PICK i \in 1..m : f = p[i] /\ p[i].op = "set-one-color" /\ \A k \in i..m : p[k].op \notin Clears
    BY DEF Staged
  <2>2. o + i \in 1..(o + m) /\ w[o + i] = p[i] /\ \A k \in (o + i)..(o + m) : w[k].op \notin Clears
    BY <1>3, <2>1
  <2>3. QED
    BY <2>1, <2>2 DEF Staged
<1>6. ASSUME NEW f \in Staged(w, o + m) PROVE f \in Staged(p, m)
  <2>1. PICK i \in 1..(o + m) : f = w[i] /\ w[i].op = "set-one-color" /\ \A k \in i..(o + m) : w[k].op \notin Clears
    BY DEF Staged
  <2>2. i - o \in 1..m /\ o + (i - o) = i /\ \A k \in (i - o)..m : p[k].op \notin Clears
    BY <1>4, <2>1
  <2>3. p[i - o] = w[i]
    BY <2>2
  <2>4. QED
    BY <2>1, <2>2, <2>3 DEF Staged
<1>7. QED
  BY <1>2, <1>5, <1>6 DEF Cleared
Groups == Seq([colour : Colours, zones : Seq(Zones)])

\* What a list of frames paints: only what the groups ask for, and all of it.
Paints(F, groups) ==
  /\ \A f \in F : \A z \in ToSet(f.zones) :
       \E i \in DOMAIN groups : f.colour = groups[i].colour /\ z \in ToSet(groups[i].zones)
  /\ \A i \in DOMAIN groups : \A z \in ToSet(groups[i].zones) : \E f \in F : z \in ToSet(f.zones)

LEMMA GroupFrames ==
  ASSUME NEW groups \in Groups
  PROVE  LET F == FlattenSeq([i \in DOMAIN groups |-> SetColorZones(groups[i].colour, groups[i].zones)])
         IN  F \in Seq(ColourFrames) /\ Paints(ToSet(F), groups)
<1> DEFINE frames(i) == SetColorZones(groups[i].colour, groups[i].zones)
           n == Len(groups)
           ss == [i \in DOMAIN groups |-> frames(i)]
           F == FlattenSeq(ss)
<1>1. n \in Nat /\ DOMAIN groups = 1..n
  BY DEF Groups
<1>2. ASSUME NEW i \in 1..n
      PROVE  /\ frames(i) \in Seq(ColourFrames)
             /\ \A f \in ToSet(frames(i)) : f.colour = groups[i].colour /\ ToSet(f.zones) \subseteq ToSet(groups[i].zones)
             /\ \A z \in ToSet(groups[i].zones) : \E f \in ToSet(frames(i)) : z \in ToSet(f.zones)
  <2>1. groups[i].colour \in Colours /\ groups[i].zones \in Seq(Zones)
    <3>1. groups[i] \in [colour : Colours, zones : Seq(Zones)]
      <4> DEFINE R == [colour : Colours, zones : Seq(Zones)]
      <4>1. groups \in Seq(R) /\ i \in 1..Len(groups)
        BY DEF Groups
      <4> HIDE DEF R
      <4>2. groups[i] \in R
        BY <4>1
      <4>3. QED
        BY <4>2 DEF R
    <3>2. QED
      BY <3>1
  <2>2. QED
    BY <2>1, ColourZonesTyped
<1> HIDE DEF frames, n
<1>3. ss \in Seq(Seq(ColourFrames)) /\ DOMAIN ss = 1..n /\ \A i \in 1..n : ss[i] = frames(i)
  <2>1. ss \in [1..n -> Seq(ColourFrames)]
    BY <1>1, <1>2
  <2>2. QED
    BY <1>1, <2>1
<1> HIDE DEF ss
<1>4. F \in Seq(ColourFrames) /\ ToSet(F) = UNION {ToSet(ss[i]) : i \in DOMAIN ss}
  BY <1>3, FlattenLays, FlattenCovers
<1> HIDE DEF F
<1>5. \A f \in ToSet(F) : \E i \in 1..n : f \in ToSet(frames(i))
  BY <1>3, <1>4
<1>6. \A i \in 1..n : ToSet(frames(i)) \subseteq ToSet(F)
  BY <1>3, <1>4
<1>7. ASSUME NEW f \in ToSet(F), NEW z \in ToSet(f.zones)
      PROVE  \E i \in DOMAIN groups : f.colour = groups[i].colour /\ z \in ToSet(groups[i].zones)
  <2>1. PICK i \in 1..n : f \in ToSet(frames(i))
    BY <1>5
  <2>2. QED
    BY <1>1, <1>2, <2>1
<1>8. ASSUME NEW i \in DOMAIN groups, NEW z \in ToSet(groups[i].zones)
      PROVE  \E f \in ToSet(F) : z \in ToSet(f.zones)
  BY <1>1, <1>2, <1>6
<1>9. QED
  BY <1>4, <1>7, <1>8 DEF Paints, F, ss, frames

\* A picture clears the program, sends its frames and shows them at its end.
LEMMA PictureShape ==
  ASSUME NEW groups \in Groups
  PROVE  LET w == SetColorGroups(groups)
             n == Len(w)
         IN  /\ w \in Seq(Frames) /\ n \in Nat \ {0}
             /\ \A i \in 1..n : (w[i].op = "finish-play" <=> i = n) /\ w[i].op # "turn-on"
             /\ Cleared(w, n - 1) /\ Paints(Staged(w, n - 1), groups)
<1> DEFINE F == FlattenSeq([i \in DOMAIN groups |-> SetColorZones(groups[i].colour, groups[i].zones)])
           last == <<Control("finish-play")>>
           m == Len(F)
           w == SetColorGroups(groups)
<1>1. F \in Seq(ColourFrames) /\ Paints(ToSet(F), groups)
  BY GroupFrames
<1>2. w = (Reset \o F) \o last
  BY DEF SetColorGroups
<1> HIDE DEF F, w
<1>3. ASSUME NEW t \in {"wait", "remove", "start-new", "finish-play"} PROVE Control(t) \in Frames /\ Control(t).op = t
  BY DEF Frames, ControlFrames, Control
<1>4. /\ Reset \in Seq(Frames) /\ Len(Reset) = 3
      /\ Reset[1].op = "wait" /\ Reset[2].op = "remove" /\ Reset[3].op = "start-new"
  BY <1>3 DEF Reset
<1>5. last \in Seq(Frames) /\ Len(last) = 1 /\ last[1].op = "finish-play"
  BY <1>3
<1>6. F \in Seq(Frames) /\ m \in Nat /\ DOMAIN F = 1..m /\ \A i \in 1..m : F[i].op = "set-one-color"
  <2>1. m \in Nat /\ DOMAIN F = 1..m /\ F \in [1..m -> ColourFrames]
    BY <1>1
  <2>2. ColourFrames \subseteq Frames /\ \A f \in ColourFrames : f.op = "set-one-color"
    BY DEF Frames, ColourFrames
  <2>3. F \in Seq(Frames)
    BY <1>1, <2>2
  <2> HIDE DEF m
  <2>4. QED
    BY <2>1, <2>2, <2>3
<1> HIDE DEF last
<1> DEFINE v == Reset \o F
<1>7. /\ v \in Seq(Frames) /\ Len(v) = 3 + m
      /\ \A i \in 1..3 : v[i] = Reset[i]
      /\ \A i \in 1..m : v[3 + i] = F[i]
  <2>1. /\ Reset \o F \in Seq(Frames) /\ Len(Reset \o F) = Len(Reset) + Len(F)
        /\ \A i \in 1..Len(Reset) : (Reset \o F)[i] = Reset[i]
        /\ \A i \in 1..Len(F) : (Reset \o F)[Len(Reset) + i] = F[i]
    <3>1. Reset \in Seq(Frames) /\ F \in Seq(Frames)
      BY <1>4, <1>6
    <3>2. QED
      BY <3>1, Joined
  <2>2. QED
    BY <1>4, <2>1
<1> HIDE DEF v
<1>8. /\ v \o last \in Seq(Frames) /\ Len(v \o last) = 3 + m + 1
      /\ \A i \in 1..(3 + m) : (v \o last)[i] = v[i]
      /\ (v \o last)[3 + m + 1] = last[1]
  <2>1. /\ v \o last \in Seq(Frames) /\ Len(v \o last) = Len(v) + Len(last)
        /\ \A i \in 1..Len(v) : (v \o last)[i] = v[i]
        /\ \A i \in 1..Len(last) : (v \o last)[Len(v) + i] = last[i]
    <3>1. v \in Seq(Frames) /\ last \in Seq(Frames)
      BY <1>5, <1>7
    <3>2. QED
      BY <3>1, Joined
  <2>2. QED
    BY <1>5, <1>7, <2>1
<1> HIDE DEF m
<1>9. /\ w \in Seq(Frames) /\ Len(w) = m + 4
      /\ w[1].op = "wait" /\ w[2].op = "remove" /\ w[3].op = "start-new"
      /\ \A i \in 1..m : w[3 + i] = F[i]
      /\ w[m + 4].op = "finish-play"
  <2>1. w = v \o last
    BY <1>2 DEF v
  <2>2. \A i \in 1..3 : i \in 1..(3 + m) /\ v[i] = Reset[i]
    BY <1>6, <1>7 DEF v
  <2>3. \A i \in 1..m : 3 + i \in 1..(3 + m) /\ v[3 + i] = F[i]
    BY <1>6, <1>7 DEF v
  <2>4. 3 + m + 1 = m + 4 /\ (v \o last)[m + 4] = last[1]
    BY <1>6, <1>8
  <2>5. /\ w[1] = Reset[1] /\ w[2] = Reset[2] /\ w[3] = Reset[3]
        /\ \A i \in 1..m : w[3 + i] = F[i]
    <3>1. \A i \in 1..3 : w[i] = Reset[i]
      BY <1>8, <2>1, <2>2
    <3>2. \A i \in 1..m : w[3 + i] = F[i]
      BY <1>8, <2>1, <2>3
    <3>3. QED
      BY <3>1, <3>2
  <2>6. QED
    BY <1>4, <1>5, <1>8, <2>1, <2>4, <2>5
<1>10. ASSUME NEW i \in 1..(m + 4)
       PROVE  i \in {1, 2, 3, m + 4} \/ (i - 3 \in 1..m /\ w[i] = F[i - 3])
  <2>1. i \in {1, 2, 3, m + 4} \/ i - 3 \in 1..m
    BY <1>6
  <2>2. i - 3 \in 1..m => w[3 + (i - 3)] = F[i - 3]
    BY <1>9
  <2>3. 3 + (i - 3) = i
    OBVIOUS
  <2>4. QED
    BY <2>1, <2>2, <2>3
<1>11. \A i \in 1..(m + 4) : (w[i].op = "finish-play" <=> i = m + 4) /\ w[i].op # "turn-on"
  <2>1. m + 4 \notin {1, 2, 3} /\ ~(m + 4 - 3 \in 1..m)
    BY <1>6
  <2>2. QED
    BY <1>6, <1>9, <1>10, <2>1
<1>12. Cleared(w, m + 3)
  BY <1>6, <1>9 DEF Cleared, Clears
<1>13. Staged(w, m + 3) = ToSet(F)
  <2>1. ASSUME NEW i \in 1..(m + 3), w[i].op = "set-one-color", \A k \in i..(m + 3) : w[k].op \notin Clears
        PROVE  w[i] \in ToSet(F)
    <3>1. i - 3 \in 1..m /\ w[i] = F[i - 3]
      BY <1>6, <1>9, <1>10, <2>1
    <3>2. QED
      BY <1>6, <3>1 DEF ToSet
  <2>2. ASSUME NEW j \in 1..m PROVE F[j] \in Staged(w, m + 3)
    <3>1. 3 + j \in 1..(m + 3) /\ w[3 + j] = F[j]
      BY <1>6, <1>9
    <3>2. ASSUME NEW k \in (3 + j)..(m + 3) PROVE w[k].op \notin Clears
      <4>1. k - 3 \in 1..m /\ 3 + (k - 3) = k
        BY <1>6
      <4>2. w[k] = F[k - 3]
        BY <1>9, <4>1
      <4>3. QED
        BY <1>6, <4>1, <4>2 DEF Clears
    <3>3. QED
      BY <1>6, <3>1, <3>2 DEF Staged
  <2>3. QED
    BY <1>6, <2>1, <2>2 DEF Staged, ToSet
<1>14. m + 4 - 1 = m + 3 /\ m + 4 \in Nat \ {0}
  BY <1>6
<1>15. QED
  <2> DEFINE n == Len(w)
  <2>1. n = m + 4 /\ n - 1 = m + 3 /\ n \in Nat \ {0}
    BY <1>6, <1>9, <1>14
  <2> HIDE DEF n
  <2>2. /\ w \in Seq(Frames)
        /\ \A i \in 1..n : (w[i].op = "finish-play" <=> i = n) /\ w[i].op # "turn-on"
        /\ Cleared(w, n - 1) /\ Paints(Staged(w, n - 1), groups)
    BY <1>1, <1>9, <1>11, <1>12, <1>13, <2>1
  <2>3. QED
    BY <2>1, <2>2 DEF n, w
-----------------------------------------------------------------------------
(***************************************************************************)
(* The scripts.  Each play of one shows a picture of what its command asks *)
(* for, the last one what it is to end with.                               *)
(***************************************************************************)
Pictured(r, F) ==
  /\ \A f \in F : \A z \in ToSet(f.zones) : z \in Zones /\ f.colour \in Asked(r, z)
  /\ \A z \in Zones : Asked(r, z) # {} => \E f \in F : z \in ToSet(f.zones)

EndsWith(r, F) == \A f \in F : \A z \in ToSet(f.zones) : f.colour \in AskedLast(r, z)

ScriptOK(r, w) ==
  /\ w \in Seq(Frames)
  /\ \A i \in 1..Len(w) :
       /\ w[i].op = "finish-play" => Cleared(w, i - 1) /\ Pictured(r, Staged(w, i - 1))
       /\ w[i].op = "turn-on" => r.verb = "brightness" /\ w[i].dim = 100 - r.percent
  /\ r.verb \in {"set", "set-map", "set-all", "off", "identify"} =>
       Len(w) > 0 /\ w[Len(w)].op = "finish-play" /\ EndsWith(r, Staged(w, Len(w) - 1))
  /\ r.verb = "brightness" =>
       \A z \in Zones : \E i \in 1..Len(w) : w[i].op = "turn-on" /\ z \in ToSet(w[i].zones)

\* The colours that groups give a zone.
Given(groups, z) == {groups[i].colour : i \in {j \in DOMAIN groups : z \in ToSet(groups[j].zones)}}

LEMMA PaintsGiven ==
  ASSUME NEW groups \in Groups, NEW F, Paints(F, groups)
  PROVE  /\ \A f \in F : \A z \in ToSet(f.zones) : z \in Zones /\ f.colour \in Given(groups, z)
         /\ \A z \in Zones : Given(groups, z) # {} => \E f \in F : z \in ToSet(f.zones)
<1>1. ASSUME NEW i \in DOMAIN groups PROVE ToSet(groups[i].zones) \subseteq Zones
  <2> DEFINE R == [colour : Colours, zones : Seq(Zones)]
  <2>1. groups \in Seq(R)
    BY DEF Groups
  <2> HIDE DEF R
  <2>2. groups[i] \in R
    BY <2>1
  <2>3. groups[i].zones \in Seq(Zones)
    BY <2>2 DEF R
  <2>4. QED
    BY <2>3 DEF ToSet
<1>2. QED
  BY <1>1 DEF Paints, Given

\* A command of one picture.
LEMMA OnePicture ==
  ASSUME NEW groups \in Groups, NEW r, r.verb \in {"set", "set-map", "set-all", "off"},
         \A z \in Zones : Asked(r, z) = Given(groups, z)
  PROVE  ScriptOK(r, SetColorGroups(groups))
<1> DEFINE w == SetColorGroups(groups)
           n == Len(w)
<1>1. /\ w \in Seq(Frames) /\ n \in Nat \ {0}
      /\ \A i \in 1..n : (w[i].op = "finish-play" <=> i = n) /\ w[i].op # "turn-on"
      /\ Cleared(w, n - 1) /\ Paints(Staged(w, n - 1), groups)
  BY PictureShape
<1> HIDE DEF w
<1>2. Pictured(r, Staged(w, n - 1))
  BY <1>1, PaintsGiven DEF Pictured
<1>3. EndsWith(r, Staged(w, n - 1))
  BY <1>2 DEF EndsWith, Pictured, AskedLast
<1> HIDE DEF n
<1>4. n \in 1..n /\ n > 0
  BY <1>1
<1>5. QED
  BY <1>1, <1>2, <1>3, <1>4 DEF ScriptOK, w, n

PartGroups(parts) == [i \in DOMAIN parts |-> [colour |-> parts[i].colour, zones |-> ZoneIDs[parts[i].region]]]

LEMMA MapScript ==
  ASSUME NEW r \in Requests, Valid(r), r.verb \in {"set", "set-map"}
  PROVE  ScriptOK(r, SetMap(r.parts))
<1> DEFINE parts == r.parts
           groups == PartGroups(parts)
           n == Len(parts)
<1>1. /\ DOMAIN parts = 1..n /\ n \in Nat
      /\ \A i \in 1..n : parts[i].colour \in Colours /\ parts[i].region \in ToSet(RegionIDs)
  <2>1. DOMAIN parts = 1..n /\ n \in Nat
    BY RequestsAssumption, IsList
  <2>2. parseRegionColorMap(parts)
    BY DEF Valid
  <2> HIDE DEF n, parts
  <2>3. QED
    BY <2>1, <2>2 DEF parseRegionColorMap
<1> HIDE DEF n, parts
<1>2. \A i \in 1..n : /\ groups[i] \in [colour : Colours, zones : Seq(Zones)]
                      /\ groups[i].colour = parts[i].colour /\ groups[i].zones = ZoneIDs[parts[i].region]
  BY <1>1, TableZoned DEF PartGroups
<1>3. groups \in Groups /\ DOMAIN groups = DOMAIN parts
  <2>1. groups = [i \in 1..n |-> groups[i]]
    BY <1>1 DEF PartGroups
  <2> HIDE DEF groups
  <2> DEFINE R == [colour : Colours, zones : Seq(Zones)]
  <2>2. \A i \in 1..n : groups[i] \in R
    BY <1>2
  <2> HIDE DEF R
  <2>3. groups \in [1..n -> R]
    BY <2>1, <2>2
  <2>4. groups \in Seq(R) /\ DOMAIN groups = 1..n
    BY <1>1, <2>3
  <2>5. QED
    BY <1>1, <2>4 DEF Groups, R
<1>4. SetMap(parts) = SetColorGroups(groups)
  BY DEF SetMap, PartGroups
<1> HIDE DEF groups
<1>5. ASSUME NEW z \in Zones PROVE Asked(r, z) = Given(groups, z)
  <2>1. Asked(r, z) = {parts[i].colour : i \in {j \in DOMAIN parts : z \in ToSet(ZoneIDs[parts[j].region])}}
    BY DEF Asked, parts
  <2>2. QED
    BY <1>1, <1>2, <1>3, <2>1 DEF Given
<1>6. QED
  BY <1>3, <1>4, <1>5, OnePicture DEF parts

\* One group of zones in one colour.
LEMMA OneGroup ==
  ASSUME NEW colour \in Colours, NEW zones \in Seq(Zones)
  PROVE  LET groups == <<[colour |-> colour, zones |-> zones]>>
         IN  groups \in Groups /\ \A z : Given(groups, z) = IF z \in ToSet(zones) THEN {colour} ELSE {}
<1> DEFINE g == [colour |-> colour, zones |-> zones]
           groups == <<g>>
           R == [colour : Colours, zones : Seq(Zones)]
<1>1. g \in R /\ g.colour = colour /\ g.zones = zones
  OBVIOUS
<1> HIDE DEF g, R
<1>2. groups \in Seq(R) /\ DOMAIN groups = {1} /\ groups[1] = g
  BY <1>1
<1> HIDE DEF groups
<1>3. \A z : Given(groups, z) = IF z \in ToSet(zones) THEN {colour} ELSE {}
  BY <1>1, <1>2 DEF Given
<1>4. QED
  BY <1>2, <1>3 DEF Groups, R, groups, g

LEMMA AllScript ==
  ASSUME NEW r \in Requests, Valid(r), r.verb \in {"set-all", "off"}
  PROVE  ScriptOK(r, SetZoneColor(IF r.verb = "off" THEN Dark ELSE r.colour, AllZoneIDs))
<1> DEFINE colour == IF r.verb = "off" THEN Dark ELSE r.colour
           groups == <<[colour |-> colour, zones |-> AllZoneIDs]>>
<1>1. colour \in Colours
  BY AlienFXAssumption DEF Valid
<1>2. ASSUME NEW z \in Zones PROVE Asked(r, z) = {colour}
  BY DEF Asked
<1>3. SetZoneColor(colour, AllZoneIDs) = SetColorGroups(groups)
  BY DEF SetZoneColor
<1> HIDE DEF colour
<1>4. groups \in Groups /\ \A z : Given(groups, z) = IF z \in Zones THEN {colour} ELSE {}
  BY <1>1, TableZoned, OneGroup DEF Zones
<1> HIDE DEF groups
<1>5. QED
  BY <1>2, <1>3, <1>4, OnePicture DEF colour

LEMMA BrightnessScript ==
  ASSUME NEW r, r.verb = "brightness", r.percent \in 0..100
  PROVE  ScriptOK(r, Dim(r.percent, AllZoneIDs))
<1> DEFINE w == Dim(r.percent, AllZoneIDs)
<1>1. /\ w \in Seq(DimFrames)
      /\ \A f \in ToSet(w) : f.op = "turn-on" /\ f.dim = 100 - r.percent
      /\ \A z \in Zones : \E f \in ToSet(w) : z \in ToSet(f.zones)
  BY TableZoned, DimTyped DEF Zones
<1> HIDE DEF w
<1>2. w \in Seq(Frames) /\ DOMAIN w = 1..Len(w)
  BY <1>1 DEF Frames
<1>3. \A i \in 1..Len(w) : w[i].op = "turn-on" /\ w[i].dim = 100 - r.percent
  BY <1>1, <1>2 DEF ToSet
<1>4. \A z \in Zones : \E i \in 1..Len(w) : w[i].op = "turn-on" /\ z \in ToSet(w[i].zones)
  BY <1>1, <1>2, <1>3 DEF ToSet
<1>5. QED
  BY <1>2, <1>3, <1>4 DEF ScriptOK, w
\* Blinking shows the region in its colour and dark in turns, and ends dark.
LEMMA IdentifyScript ==
  ASSUME NEW r \in Requests, Valid(r), r.verb = "identify"
  PROVE  ScriptOK(r, Identify(r.parts[1]))
<1> DEFINE part == r.parts[1]
           colour == part.colour
           zones == ZoneIDs[part.region]
           gA == <<[colour |-> colour, zones |-> zones]>>
           gB == <<[colour |-> Dark, zones |-> zones]>>
           A == SetColorGroups(gA)
           B == SetColorGroups(gB)
           a == Len(A)
           b == Len(B)
           C == A \o B
           n == Blinks
           ss == [i \in 1..n |-> C]
           w == FlattenSeq(ss)
<1>1. Identify(part) = w
  BY DEF Identify, SetZoneColor
<1>2. colour \in Colours /\ zones \in Seq(Zones)
  <2>1. Len(r.parts) \in Nat /\ DOMAIN r.parts = 1..Len(r.parts) /\ r.parts \in Seq(ToSet(r.parts))
    BY RequestsAssumption, IsList
  <2>2. parseRegionColorMap(r.parts)
    BY DEF Valid
  <2>3. 1 \in DOMAIN r.parts
    <3> DEFINE parts == r.parts
    <3>1. parts # <<>> /\ parts \in Seq(ToSet(parts))
      BY <2>1, <2>2 DEF parseRegionColorMap
    <3> HIDE DEF parts
    <3>2. 1 \in DOMAIN parts
      BY <3>1
    <3>3. QED
      BY <3>2 DEF parts
  <2>4. QED
    BY <2>2, <2>3, TableZoned DEF parseRegionColorMap
<1>3. \A z \in Zones : Asked(r, z) = IF z \in ToSet(zones) THEN {colour, Dark} ELSE {}
  BY DEF Asked
<1> HIDE DEF part, colour, zones
<1>4. /\ gA \in Groups /\ (\A z : Given(gA, z) = IF z \in ToSet(zones) THEN {colour} ELSE {})
      /\ gB \in Groups /\ (\A z : Given(gB, z) = IF z \in ToSet(zones) THEN {Dark} ELSE {})
  BY <1>2, OneGroup, AlienFXAssumption
<1> HIDE DEF gA, gB
<1>5. /\ A \in Seq(Frames) /\ a \in Nat \ {0}
      /\ \A i \in 1..a : (A[i].op = "finish-play" <=> i = a) /\ A[i].op # "turn-on"
      /\ Cleared(A, a - 1) /\ Paints(Staged(A, a - 1), gA)
  BY <1>4, PictureShape
<1>6. /\ B \in Seq(Frames) /\ b \in Nat \ {0}
      /\ \A i \in 1..b : (B[i].op = "finish-play" <=> i = b) /\ B[i].op # "turn-on"
      /\ Cleared(B, b - 1) /\ Paints(Staged(B, b - 1), gB)
  BY <1>4, PictureShape
<1>7. Pictured(r, Staged(A, a - 1))
  <2> DEFINE F == Staged(A, a - 1)
  <2> HIDE DEF F
  <2>1. /\ \A f \in F : \A z \in ToSet(f.zones) : z \in Zones /\ f.colour \in Given(gA, z)
        /\ \A z \in Zones : Given(gA, z) # {} => \E f \in F : z \in ToSet(f.zones)
    BY <1>4, <1>5, PaintsGiven DEF F
  <2>2. Pictured(r, F)
    BY <1>3, <1>4, <2>1 DEF Pictured
  <2>3. QED
    BY <2>2 DEF F
<1>8. Pictured(r, Staged(B, b - 1)) /\ EndsWith(r, Staged(B, b - 1))
  <2> DEFINE F == Staged(B, b - 1)
  <2> HIDE DEF F
  <2>1. /\ \A f \in F : \A z \in ToSet(f.zones) : z \in Zones /\ f.colour \in Given(gB, z)
        /\ \A z \in Zones : Given(gB, z) # {} => \E f \in F : z \in ToSet(f.zones)
    BY <1>4, <1>6, PaintsGiven DEF F
  <2>2. Pictured(r, F)
    BY <1>3, <1>4, <2>1 DEF Pictured
  <2>3. EndsWith(r, F)
    BY <1>3, <1>4, <2>1 DEF EndsWith, AskedLast
  <2>4. QED
    BY <2>2, <2>3 DEF F
<1> HIDE DEF A, B
<1>9. /\ C \in Seq(Frames) /\ Len(C) = a + b
      /\ \A i \in 1..a : C[i] = A[i]
      /\ \A i \in 1..b : C[a + i] = B[i]
  BY <1>5, <1>6, Joined
<1> HIDE DEF C, a, b
<1>10. ASSUME NEW j \in 1..(a + b)
       PROVE  C[j].op # "turn-on" /\ (C[j].op = "finish-play" => j = a \/ j = a + b)
  <2>1. CASE j <= a
    <3>1. j \in 1..a
      BY <1>5, <2>1
    <3>2. QED
      BY <1>5, <1>9, <3>1
  <2>2. CASE ~(j <= a)
    <3>1. j - a \in 1..b /\ a + (j - a) = j
      BY <1>5, <1>6, <2>2
    <3>2. C[j] = B[j - a]
      BY <1>9, <3>1
    <3>3. QED
      BY <1>6, <3>1, <3>2
  <2>3. QED
    BY <2>1, <2>2
<1>11. n \in Nat \ {0} /\ ss \in Seq(Seq(Frames)) /\ Len(ss) = n /\ \A k \in 1..n : ss[k] = C
  <2>1. n \in Nat \ {0}
    BY AlienFXAssumption
  <2> HIDE DEF n
  <2>2. ss \in [1..n -> Seq(Frames)]
    BY <1>9
  <2>3. QED
    BY <2>1, <2>2
<1> HIDE DEF ss, n
<1>12. w \in Seq(Frames) /\ \E o : Laid(ss, n, w, o)
  BY <1>11, FlattenLays
<1>13. PICK o : Laid(ss, n, w, o)
  BY <1>12
<1> HIDE DEF w
<1> DEFINE L == Len(w)
<1>13a. a \in Nat \ {0} /\ b \in Nat \ {0} /\ a + b \in Nat
  <2>1. a \in Nat \ {0} /\ b \in Nat \ {0}
    BY <1>5, <1>6
  <2>2. QED
    BY <2>1
<1>14. /\ L \in Nat /\ (\A k \in 1..(n + 1) : o[k] \in Nat)
       /\ L = o[n + 1] /\ o[n + 1] = o[n] + (a + b) /\ n \in 1..n
       /\ \A k \in 1..n : \A j \in 1..(a + b) : w[o[k] + j] = C[j]
       /\ \A p \in 1..L : \E k \in 1..n : \E j \in 1..(a + b) : p = o[k] + j
  <2>1. /\ o \in [1..(n + 1) -> Nat] /\ (\A k \in 1..n : o[k + 1] = o[k] + Len(ss[k])) /\ L = o[n + 1]
        /\ \A k \in 1..n : \A j \in 1..Len(ss[k]) : w[o[k] + j] = ss[k][j]
        /\ \A p \in 1..L : \E k \in 1..n : \E j \in 1..Len(ss[k]) : p = o[k] + j
    BY <1>13 DEF Laid
  <2>2. \A k \in 1..n : ss[k] = C /\ Len(ss[k]) = a + b
    BY <1>9, <1>11
  <2>3. n \in 1..n /\ n + 1 \in 1..(n + 1)
    BY <1>11
  <2> HIDE DEF L
  <2>4. L \in Nat /\ \A k \in 1..(n + 1) : o[k] \in Nat
    BY <2>1, <2>3
  <2>5. o[n + 1] = o[n] + (a + b)
    BY <2>1, <2>2, <2>3
  <2>6. \A k \in 1..n : \A j \in 1..(a + b) : w[o[k] + j] = C[j]
    BY <2>1, <2>2
  <2>7. \A p \in 1..L : \E k \in 1..n : \E j \in 1..(a + b) : p = o[k] + j
    BY <2>1, <2>2
  <2>8. QED
    BY <2>1, <2>3, <2>4, <2>5, <2>6, <2>7
<1>14a. \A k \in 1..n : o[k] \in Nat
  <2>1. \A k \in 1..n : k \in 1..(n + 1)
    BY <1>11
  <2>2. QED
    BY <1>14, <2>1
<1> HIDE DEF L
<1>15. ASSUME NEW k \in 1..n
       PROVE  /\ Staged(w, o[k] + (a - 1)) = Staged(A, a - 1) /\ Cleared(w, o[k] + (a - 1))
              /\ Staged(w, (o[k] + a) + (b - 1)) = Staged(B, b - 1) /\ Cleared(w, (o[k] + a) + (b - 1))
  <2>0. o[k] \in Nat
    BY <1>14a
  <2>1. o[k] \in Nat /\ o[k] + a \in Nat /\ a - 1 \in Nat /\ b - 1 \in Nat
    BY <1>13a, <2>0
  <2>2. \A j \in 1..(a - 1) : w[o[k] + j] = A[j]
    <3>1. \A j \in 1..(a - 1) : j \in 1..a /\ j \in 1..(a + b)
      BY <1>5, <1>6
    <3>2. QED
      BY <1>9, <1>14, <3>1
  <2>3. \A j \in 1..(b - 1) : w[(o[k] + a) + j] = B[j]
    <3>1. \A j \in 1..(b - 1) : j \in 1..b /\ a + j \in 1..(a + b) /\ (o[k] + a) + j = o[k] + (a + j)
      BY <1>5, <1>6, <2>1
    <3>2. \A j \in 1..(b - 1) : w[o[k] + (a + j)] = C[a + j] /\ C[a + j] = B[j]
      BY <1>9, <1>14, <3>1
    <3>3. QED
      BY <3>1, <3>2
  <2>4. Staged(w, o[k] + (a - 1)) = Staged(A, a - 1) /\ Cleared(w, o[k] + (a - 1))
    BY <1>5, <2>1, <2>2, StagedLocal
  <2>5. Staged(w, (o[k] + a) + (b - 1)) = Staged(B, b - 1) /\ Cleared(w, (o[k] + a) + (b - 1))
    BY <1>6, <2>1, <2>3, StagedLocal
  <2>6. QED
    BY <2>4, <2>5
<1>16. ASSUME NEW p \in 1..L
       PROVE  /\ w[p].op = "finish-play" => Cleared(w, p - 1) /\ Pictured(r, Staged(w, p - 1))
              /\ w[p].op # "turn-on"
  <2>1. PICK k \in 1..n : \E j \in 1..(a + b) : p = o[k] + j
    BY <1>14
  <2>2. PICK j \in 1..(a + b) : p = o[k] + j
    BY <2>1
  <2>3. w[p] = C[j]
    BY <1>14, <2>2
  <2>3a. o[k] \in Nat
    BY <1>14a
  <2>4. j = a => p - 1 = o[k] + (a - 1)
    BY <1>13a, <2>2, <2>3a
  <2>5. j = a + b => p - 1 = (o[k] + a) + (b - 1)
    BY <1>13a, <2>2, <2>3a
  <2>6. QED
    BY <1>7, <1>8, <1>10, <1>15, <2>3, <2>4, <2>5
<1>17. L > 0 /\ w[L].op = "finish-play" /\ EndsWith(r, Staged(w, L - 1))
  <2>1. n \in 1..n /\ o[n] \in Nat /\ L = o[n] + (a + b) /\ L - 1 = (o[n] + a) + (b - 1) /\ L > 0
    <3>1. n \in 1..n /\ L = o[n] + (a + b)
      BY <1>14
    <3>2. o[n] \in Nat
      BY <1>14a, <3>1
    <3>3. QED
      BY <1>13a, <3>1, <3>2
  <2>2. a + b \in 1..(a + b) /\ b \in 1..b
    BY <1>5, <1>6
  <2>3. w[L] = C[a + b] /\ C[a + b] = B[b]
    BY <1>9, <1>14, <2>1, <2>2
  <2>4. w[L].op = "finish-play"
    BY <1>6, <2>2, <2>3
  <2>5. EndsWith(r, Staged(w, L - 1))
    BY <1>8, <1>15, <2>1
  <2>6. QED
    BY <2>1, <2>4, <2>5
<1>18. ScriptOK(r, w)
  BY <1>12, <1>16, <1>17 DEF ScriptOK, L
<1>19. QED
  BY <1>1, <1>18 DEF part

\* Every script a session sends.
LEMMA ScriptsOK ==
  ASSUME NEW r \in Requests, Valid(r), r.verb # "reset"
  PROVE  ScriptOK(r, Script[r])
<1>1. r.verb \in {"set", "set-map", "set-all", "off", "identify", "brightness", "status"}
  BY DEF Valid
<1>2. r \in {q \in Requests : Valid(q) /\ q.verb # "reset"}
  OBVIOUS
<1>3. Script[r] = CASE r.verb \in {"set", "set-map"} -> SetMap(r.parts)
                    [] r.verb = "set-all" -> SetZoneColor(r.colour, AllZoneIDs)
                    [] r.verb = "off" -> SetZoneColor(Dark, AllZoneIDs)
                    [] r.verb = "identify" -> Identify(r.parts[1])
                    [] r.verb = "brightness" -> Dim(r.percent, AllZoneIDs)
                    [] r.verb = "status" -> <<>>
  BY <1>2 DEF Script
<1>4. CASE r.verb \in {"set", "set-map"}
  BY <1>3, <1>4, MapScript
<1>5. CASE r.verb \in {"set-all", "off"}
  <2>1. Script[r] = SetZoneColor(IF r.verb = "off" THEN Dark ELSE r.colour, AllZoneIDs)
    BY <1>3, <1>5
  <2>2. QED
    BY <1>5, <2>1, AllScript
<1>6. CASE r.verb = "identify"
  BY <1>3, <1>6, IdentifyScript
<1>7. CASE r.verb = "brightness"
  <2>1. r.percent \in 0..100
    BY <1>7 DEF Valid
  <2>2. Script[r] = Dim(r.percent, AllZoneIDs)
    BY <1>3, <1>7
  <2>3. QED
    BY <1>7, <2>1, <2>2, BrightnessScript
<1>8. CASE r.verb = "status"
  <2> DEFINE w == Script[r]
  <2>1. w = <<>>
    BY <1>3, <1>8
  <2> HIDE DEF w
  <2>2. w \in Seq(Frames) /\ Len(w) = 0
    BY <2>1
  <2>3. ScriptOK(r, w)
    BY <1>8, <2>2 DEF ScriptOK
  <2>4. QED
    BY <2>3 DEF w
<1>9. QED
  BY <1>1, <1>4, <1>5, <1>6, <1>7, <1>8

-----------------------------------------------------------------------------
(***************************************************************************)
(* The invariant.  A process past the lock holds it and has a node of the  *)
(* controller's open, a different one from every other such process; what  *)
(* it has still to send is the end of its script; and, unless the          *)
(* controller was lost under it, that node is the controller's, what the   *)
(* firmware has in its program is what the process staged since the script *)
(* cleared it, and the zones are dimmed and lit as far as it has got.      *)
(***************************************************************************)
Holding == {"probe", "prime", "command"}
Primes == {Reset, <<Control("remove"), Control("start-new")>>, <<Control("start-new")>>, <<>>}
Shown == {<<Control("start-new")>>, <<>>}

Remains(s, w) ==
  s \in Seq(Frames) /\ Len(s) <= Len(w) /\ \A i \in 1..Len(s) : s[i] = w[Len(w) - Len(s) + i]

IsRec(r) ==
  r = [pc |-> r.pc, req |-> r.req, file |-> r.file, locked |-> r.locked,
       retried |-> r.retried, script |-> r.script, code |-> r.code, healed |-> r.healed]

IsProc(r, last) ==
  /\ r.pc \in {"idle", "open", "lock", "probe", "prime", "command", "reset"}
  /\ r.file \in 0..last
  /\ r.locked <=> r.pc \in Holding
  /\ r.pc \in Holding \cup {"lock"} => r.file # 0
  /\ r.pc \notin {"prime", "command"} => r.script = <<>>
  /\ r.pc \in {"idle", "reset"} => ~r.retried
  /\ r.pc # "idle" => r.req \in Requests /\ Valid(r.req)
  /\ r.pc \notin {"idle", "reset"} => r.req.verb # "reset"
  /\ r.pc = "prime" => r.script \in Primes
  /\ r.pc = "command" => Remains(r.script, Script[r.req])

Shape == proc = [p \in Procs |-> proc[p]] /\ \A p \in Procs : IsRec(proc[p])

Exclusive ==
  \A p, q \in Procs : proc[p].locked /\ proc[q].locked /\ proc[p].file = proc[q].file => p = q

Things ==
  /\ firmware \in {"ok", "fresh", "wedged", "busy"} /\ program \subseteq ColourFrames
  /\ leds \in [Zones -> Colours \cup {"firmware"}] /\ dim \in [Zones -> 0..100]
  /\ node \in 0..numbers /\ numbers \in 1..MaxNodes /\ product \in ToSet(ProductIDs)
  /\ node = 0 => numbers < MaxNodes
  /\ started \in 0..MaxCommands /\ disturbed \subseteq Procs

Whole(p) == Script[proc[p].req]
SentBy(p) == Len(Whole(p)) - Len(proc[p].script)

Commanded(p) ==
  /\ firmware \in {"ok", "busy"}
  /\ Cleared(Whole(p), SentBy(p)) => program = Staged(Whole(p), SentBy(p))
  /\ \A i \in 1..SentBy(p) :
       Whole(p)[i].op = "turn-on" => \A z \in ToSet(Whole(p)[i].zones) : dim[z] = Whole(p)[i].dim
  /\ proc[p].script = <<>> =>
       \A z \in Zones : Asked(proc[p].req, z) # {} => leds[z] \in AskedLast(proc[p].req, z)

Healed(p) == proc[p].retried /\ proc[p].healed

Own(p) ==
  p \notin disturbed =>
    /\ proc[p].pc \in {"prime", "command"} => Connected(p)
    /\ Healed(p) => firmware # "wedged"
    /\ Healed(p) /\ proc[p].pc = "prime" /\ proc[p].script \in Shown => firmware # "fresh"
    /\ proc[p].pc = "command" => Commanded(p)

AInv ==
  /\ Shape /\ Things /\ Exclusive
  /\ \A p \in Procs : IsProc(proc[p], numbers) /\ Own(p)

-----------------------------------------------------------------------------
\* Wherever the controller is, its own node is the only one that is taken for it.
LEMMA FoundIsOwn ==
  ASSUME NEW n \in 0..MaxNodes, NEW prod \in ToSet(ProductIDs)
  PROVE  devicePath[n][prod] \subseteq {n} \ {0}
<1> DEFINE found(i) == FindOneByVIDPID(Class(n, prod), VendorID, ProductIDs[i])
           tried == {i \in DOMAIN ProductIDs : found(i) # {}}
           first == CHOOSE i \in tried : \A j \in tried : i <= j
<1>1. devicePath[n][prod] = IF tried = {} THEN {} ELSE {e.number : e \in found(first)}
  <2>1. devicePath[n][prod] = PathOf(n, prod)
    BY DEF devicePath
  <2>2. QED
    BY <2>1 DEF PathOf
<1>2. ASSUME NEW i \in DOMAIN ProductIDs, NEW e \in found(i) PROVE e.number \in {n} \ {0}
  <2>1. e \in Class(n, prod) /\ parseUevent(e.uevent) = <<VendorID, ProductIDs[i]>>
    BY DEF FindOneByVIDPID, FindByVIDPID
  <2>2. e \notin Neighbours
    BY <2>1, NeighboursAssumption
  <2>3. QED
    BY <2>1, <2>2 DEF Class
<1>3. DOMAIN ProductIDs = {1, 2}
  BY DEF ProductIDs
<1> HIDE DEF found
<1>4. tried # {} => first \in DOMAIN ProductIDs
  <2>1. tried \subseteq {1, 2}
    BY <1>3
  <2>2. tried # {} => \E i \in tried : \A j \in tried : i <= j
    BY <2>1
  <2> HIDE DEF tried
  <2>3. tried # {} => first \in tried
    BY <2>2
  <2>4. QED
    BY <1>3, <2>1, <2>3
<1> HIDE DEF first, tried
<1>5. QED
  BY <1>1, <1>2, <1>4

\* What holds of a process the controller was not lost under stays so when neither
\* of them moves,
LEMMA OwnKept ==
  ASSUME NEW p, Own(p), proc'[p] = proc[p], p \notin disturbed' => p \notin disturbed,
         UNCHANGED <<firmware, program, leds, dim, node>>
  PROVE  Own(p)'
  BY DEF Own, Commanded, Healed, Connected, Whole, SentBy

\* and is little while it does not drive the controller.
LEMMA OwnOutside ==
  ASSUME NEW p, proc'[p].pc \notin {"prime", "command"},
         p \notin disturbed' /\ Healed(p)' => firmware' # "wedged"
  PROVE  Own(p)'
  BY DEF Own

LEMMA EndedProc ==
  ASSUME NEW code, NEW last \in Nat
  PROVE  /\ IsRec(Ended(code)) /\ IsProc(Ended(code), last)
         /\ Ended(code).pc = "idle" /\ ~Ended(code).locked /\ ~Ended(code).retried /\ Ended(code).code = code
  BY DEF Ended, IsRec, IsProc, Holding

Acts(p) == Opening(p) \/ Probing(p) \/ Driving(p) \/ Kill(p)

\* A step of one process leaves the records of the others as they are.
LEMMA OthersStay ==
  ASSUME Shape, NEW p \in Procs, Acts(p)
  PROVE  /\ \A q \in Procs \ {p} : proc'[q] = proc[q]
         /\ proc' = [q \in Procs |-> proc'[q]]
<1> USE DEF Shape
<1>1. CASE Opening(p)
  BY <1>1 DEF Opening, OpenNode, TakeLock, LockTimesOut, Finish
<1>2. CASE Probing(p)
  BY <1>2 DEF Probing, ProbeAnswers, ProbeReadsZero, StillZero, CannotReset, USBReset, Finish
<1>3. CASE Driving(p)
  BY <1>3 DEF Driving, Send, Ready, ReadyTimesOut, IOFails, Return, Finish
<1>4. CASE Kill(p)
  BY <1>4 DEF Kill, Finish
<1>5. QED
  BY <1>1, <1>2, <1>3, <1>4 DEF Acts

\* A step of process p that leaves the controller and its place alone needs to be
\* looked at for p alone.
LEMMA AlonePasses ==
  ASSUME AInv, NEW p \in Procs, Acts(p), UNCHANGED <<controller, place, started, disturbed>>,
         IsRec(proc'[p]), IsProc(proc'[p], numbers), Own(p)',
         proc'[p].locked => \/ proc[p].locked /\ proc'[p].file = proc[p].file
                            \/ \A q \in Procs \ {p} : proc[q].locked => proc[q].file # proc'[p].file
  PROVE  AInv'
<1>1. (\A q \in Procs \ {p} : proc'[q] = proc[q]) /\ proc' = [q \in Procs |-> proc'[q]]
  BY OthersStay DEF AInv
<1>2. Shape'
  BY <1>1 DEF AInv, Shape
<1>3. Things'
  BY DEF AInv, Things, controller, place
<1>4. Exclusive'
  BY <1>1 DEF AInv, Exclusive
<1>5. \A q \in Procs : IsProc(proc'[q], numbers') /\ Own(q)'
  BY <1>1, OwnKept DEF AInv, controller, place
<1>6. QED
  BY <1>2, <1>3, <1>4, <1>5 DEF AInv

\* A command that ends leaves nothing behind.
LEMMA EndPasses ==
  ASSUME AInv, NEW p \in Procs, Acts(p), UNCHANGED <<controller, place, started, disturbed>>,
         NEW code, Finish(p, code)
  PROVE  AInv'
<1>1. proc'[p] = Ended(code)
  BY DEF Finish, AInv, Shape
<1>2. IsRec(proc'[p]) /\ IsProc(proc'[p], numbers) /\ ~proc'[p].locked
  BY <1>1, EndedProc DEF AInv, Things
<1>3. proc'[p].pc = "idle" /\ ~proc'[p].retried
  BY <1>1, EndedProc DEF AInv, Things
<1>4. Own(p)'
  BY <1>3, OwnOutside DEF Healed
<1>5. QED
  BY <1>2, <1>4, AlonePasses

LEMMA OpeningPasses ==
  ASSUME AInv, NEW p \in Procs, Opening(p)
  PROVE  AInv'
<1> DEFINE r == proc[p]
<1>0. Acts(p)
  BY DEF Acts
<1>1. /\ IsRec(r) /\ IsProc(r, numbers) /\ Own(p) /\ proc = [q \in Procs |-> proc[q]]
  BY DEF AInv, Shape
<1>1a. node \in 0..MaxNodes /\ node \in 0..numbers /\ product \in ToSet(ProductIDs)
  <2>1. /\ node \in 0..numbers /\ numbers \in 1..MaxNodes /\ product \in ToSet(ProductIDs)
        /\ MaxNodes \in Nat \ {0}
    BY AlienFXAssumption DEF AInv, Things
  <2>2. QED
    BY <2>1
<1>2. CASE OpenNode(p)
  <2>1. UNCHANGED <<controller, place, started, disturbed>> /\ r.pc = "open"
    BY <1>2 DEF OpenNode
  <2>2. CASE Finish(p, "aw-elc-not-found")
    BY <1>0, <2>1, <2>2, EndPasses
  <2>3. ASSUME NEW n \in devicePath[node][product], proc' = [proc EXCEPT ![p].file = n, ![p].pc = "lock"]
        PROVE  AInv'
    <3>1. n = node /\ n # 0
      BY <1>1a, FoundIsOwn
    <3>2. proc'[p] = [r EXCEPT !.file = n, !.pc = "lock"]
      BY <1>1, <2>3
    <3> HIDE DEF r
    <3>3. /\ proc'[p].pc = "lock" /\ proc'[p].file = n /\ proc'[p].req = r.req /\ proc'[p].locked = r.locked
          /\ proc'[p].retried = r.retried /\ proc'[p].script = r.script /\ proc'[p].healed = r.healed
          /\ IsRec(proc'[p])
      BY <1>1, <3>2 DEF IsRec
    <3>4. IsProc(proc'[p], numbers) /\ ~proc'[p].locked
      BY <1>1, <1>1a, <2>1, <3>1, <3>3 DEF IsProc, Holding
    <3>5. Own(p)'
      BY <1>1, <2>1, <3>3, OwnOutside DEF r, Own, Healed, controller
    <3>6. QED
      BY <1>0, <2>1, <3>3, <3>4, <3>5, AlonePasses
  <2>4. QED
    BY <1>2, <2>2, <2>3 DEF OpenNode
<1>3. CASE TakeLock(p)
  <2>1. UNCHANGED <<controller, place, started, disturbed>> /\ r.pc = "lock"
        /\ \A q \in Procs \ {p} : proc[q].locked => proc[q].file # r.file
    BY <1>3 DEF TakeLock, HeldByAnother
  <2>2. proc'[p] = [r EXCEPT !.locked = TRUE, !.pc = "probe"]
    BY <1>1, <1>3 DEF TakeLock
  <2> HIDE DEF r
  <2>3. /\ proc'[p].pc = "probe" /\ proc'[p].file = r.file /\ proc'[p].req = r.req /\ proc'[p].locked
        /\ proc'[p].retried = r.retried /\ proc'[p].script = r.script /\ proc'[p].healed = r.healed
        /\ IsRec(proc'[p])
    BY <1>1, <2>2 DEF IsRec
  <2>4. IsProc(proc'[p], numbers)
    BY <1>1, <2>1, <2>3 DEF IsProc, Holding
  <2>5. Own(p)'
    BY <1>1, <2>1, <2>3, OwnOutside DEF r, Own, Healed, controller
  <2>6. QED
    BY <1>0, <2>1, <2>3, <2>4, <2>5, AlonePasses
<1>4. CASE LockTimesOut(p)
  BY <1>0, <1>4, EndPasses DEF LockTimesOut
<1>5. QED
  BY <1>2, <1>3, <1>4 DEF Opening

\* What a process still sends when its script begins.
LEMMA WholeRemains ==
  ASSUME NEW w \in Seq(Frames)
  PROVE  Remains(w, w) /\ Len(w) - Len(w) = 0
<1>1. Len(w) \in Nat /\ Len(w) - Len(w) = 0
  OBVIOUS
<1>2. \A i \in 1..Len(w) : Len(w) - Len(w) + i = i
  BY <1>1
<1>3. QED
  BY <1>1, <1>2 DEF Remains

LEMMA ResetTyped == Reset \in Seq(Frames) /\ Len(Reset) = 3 /\ Reset \notin Shown
<1>1. \A t \in {"wait", "remove", "start-new", "finish-play"} : Control(t) \in Frames
  BY DEF Frames, ControlFrames
<1>2. Reset \in Seq(Frames) /\ Len(Reset) = 3
  BY <1>1 DEF Reset
<1>3. QED
  BY <1>2 DEF Shown

LEMMA ProbeAnswersPasses ==
  ASSUME AInv, NEW p \in Procs, ProbeAnswers(p)
  PROVE  AInv'
<1> DEFINE r == proc[p]
           w == Script[r.req]
<1>0. Acts(p)
  BY DEF Acts, Probing
<1>1. /\ IsRec(r) /\ IsProc(r, numbers) /\ Own(p) /\ proc = [q \in Procs |-> proc[q]]
      /\ firmware \in {"ok", "fresh", "wedged", "busy"}
  BY DEF AInv, Shape, Things
<1>2. /\ UNCHANGED <<controller, place, started, disturbed>> /\ r.pc \in {"probe", "prime"}
      /\ Connected(p) /\ ~LooksWedged
      /\ proc'[p] = [r EXCEPT !.pc = "command", !.script = w]
  BY <1>1 DEF ProbeAnswers
<1>3. r.req \in Requests /\ Valid(r.req) /\ r.req.verb # "reset"
  BY <1>1, <1>2 DEF IsProc
<1>4. ScriptOK(r.req, w)
  BY <1>3, ScriptsOK
<1> HIDE DEF r, w
<1>5. /\ proc'[p].pc = "command" /\ proc'[p].file = r.file /\ proc'[p].req = r.req /\ proc'[p].locked = r.locked
      /\ proc'[p].retried = r.retried /\ proc'[p].script = w /\ proc'[p].healed = r.healed
      /\ IsRec(proc'[p])
  BY <1>1, <1>2 DEF IsRec
<1>6. w \in Seq(Frames) /\ Remains(w, w) /\ Len(w) - Len(w) = 0
  BY <1>4, WholeRemains DEF ScriptOK
<1>7. IsProc(proc'[p], numbers)
  BY <1>1, <1>2, <1>3, <1>5, <1>6 DEF IsProc, Holding, w
<1>8. Commanded(p)'
  <2>1. Whole(p)' = w /\ SentBy(p)' = 0
    BY <1>5, <1>6 DEF Whole, SentBy, w
  <2>2. firmware' \in {"ok", "busy"}
    BY <1>1, <1>2 DEF LooksWedged, controller
  <2>3. ~Cleared(w, 0) /\ 1..0 = {}
    BY DEF Cleared
  <2>4. ASSUME w = <<>>, NEW z \in Zones PROVE Asked(r.req, z) = {}
    <3>1. Len(w) = 0
      BY <2>4
    <3>2. r.req.verb \notin {"set", "set-map", "set-all", "off", "identify"}
      BY <1>4, <3>1 DEF ScriptOK
    <3>3. QED
      BY <3>2 DEF Asked
  <2>5. QED
    BY <1>5, <2>1, <2>2, <2>3, <2>4 DEF Commanded
<1>9. Own(p)'
  <2>1. Connected(p)' /\ Healed(p)' = Healed(p) /\ firmware' = firmware
    BY <1>2, <1>5 DEF Connected, Healed, place, controller, r
  <2>2. firmware' # "wedged"
    BY <1>2, <2>1 DEF LooksWedged
  <2>3. QED
    BY <1>5, <1>8, <2>1, <2>2 DEF Own
<1>10. QED
  BY <1>0, <1>1, <1>2, <1>5, <1>7, <1>9, AlonePasses DEF IsProc, Holding, r

LEMMA ProbeReadsZeroPasses ==
  ASSUME AInv, NEW p \in Procs, ProbeReadsZero(p)
  PROVE  AInv'
<1> DEFINE r == proc[p]
<1>0. Acts(p)
  BY DEF Acts, Probing
<1>1. IsRec(r) /\ IsProc(r, numbers) /\ Own(p) /\ proc = [q \in Procs |-> proc[q]]
  BY DEF AInv, Shape
<1>2. /\ UNCHANGED <<controller, place, started, disturbed>> /\ r.pc = "probe" /\ Connected(p)
      /\ proc'[p] = [r EXCEPT !.pc = "prime", !.script = Reset]
  BY <1>1 DEF ProbeReadsZero
<1> HIDE DEF r
<1>3. /\ proc'[p].pc = "prime" /\ proc'[p].file = r.file /\ proc'[p].req = r.req /\ proc'[p].locked = r.locked
      /\ proc'[p].retried = r.retried /\ proc'[p].script = Reset /\ proc'[p].healed = r.healed
      /\ IsRec(proc'[p])
  BY <1>1, <1>2 DEF IsRec
<1>4. IsProc(proc'[p], numbers)
  BY <1>1, <1>2, <1>3 DEF IsProc, Holding, Primes
<1>5. Own(p)'
  BY <1>1, <1>2, <1>3, ResetTyped DEF r, Own, Healed, Connected, controller, place
<1>6. QED
  BY <1>0, <1>1, <1>2, <1>3, <1>4, <1>5, AlonePasses DEF IsProc, Holding, r

LEMMA StillZeroPasses ==
  ASSUME AInv, NEW p \in Procs, StillZero(p)
  PROVE  AInv'
<1> DEFINE r == proc[p]
<1>0. Acts(p)
  BY DEF Acts, Probing
<1>1. IsRec(r) /\ IsProc(r, numbers) /\ Own(p) /\ proc = [q \in Procs |-> proc[q]] /\ numbers \in Nat
  BY DEF AInv, Shape, Things
<1>2. /\ UNCHANGED <<controller, place, started, disturbed>> /\ r.pc = "prime" /\ r.script = <<>>
      /\ \/ r.retried /\ Finish(p, "aw-elc-wedged")
         \/ ~r.retried /\ proc'[p] = [r EXCEPT !.pc = "reset", !.file = 0, !.locked = FALSE]
  BY <1>1 DEF StillZero
<1>3. CASE Finish(p, "aw-elc-wedged")
  BY <1>0, <1>2, <1>3, EndPasses
<1>4. CASE ~r.retried /\ proc'[p] = [r EXCEPT !.pc = "reset", !.file = 0, !.locked = FALSE]
  <2> HIDE DEF r
  <2>1. /\ proc'[p].pc = "reset" /\ proc'[p].file = 0 /\ proc'[p].req = r.req /\ ~proc'[p].locked
        /\ proc'[p].retried = r.retried /\ proc'[p].script = r.script /\ proc'[p].healed = r.healed
        /\ IsRec(proc'[p])
    BY <1>1, <1>4 DEF IsRec
  <2>2. IsProc(proc'[p], numbers)
    BY <1>1, <1>2, <1>4, <2>1 DEF IsProc, Holding
  <2>3. Own(p)'
    BY <1>4, <2>1, OwnOutside DEF Healed
  <2>4. QED
    BY <1>0, <1>2, <2>1, <2>2, <2>3, AlonePasses
<1>5. QED
  BY <1>2, <1>3, <1>4

\* A USB reset is felt by every session but its own.
LEMMA USBResetPasses ==
  ASSUME AInv, NEW p \in Procs, USBReset(p)
  PROVE  AInv'
<1> DEFINE r == proc[p]
<1>0. Acts(p)
  BY DEF Acts, Probing
<1>1. IsRec(r) /\ IsProc(r, numbers) /\ proc = [q \in Procs |-> proc[q]] /\ numbers \in Nat
  BY DEF AInv, Shape, Things
<1>2. (\A q \in Procs \ {p} : proc'[q] = proc[q]) /\ proc' = [q \in Procs |-> proc'[q]]
  BY <1>0, OthersStay DEF AInv
<1>3. /\ r.pc = "reset" /\ firmware' \in {"fresh", "wedged"} /\ program' = {}
      /\ node' \in {0, node} /\ (node' = 0 => numbers < MaxNodes \/ node = 0)
      /\ disturbed' = disturbed \cup (InSession \ {p})
      /\ UNCHANGED <<leds, dim, numbers, product, started>>
  BY DEF USBReset
<1>4. /\ IsRec(proc'[p]) /\ IsProc(proc'[p], numbers) /\ ~proc'[p].locked
      /\ proc'[p].pc \in {"idle", "open"} /\ (Healed(p)' => firmware' # "wedged")
  <2>1. CASE r.req.verb = "reset"
    <3>1. proc'[p] = Ended("ok")
      BY <1>1, <2>1 DEF USBReset, Finish
    <3>2. QED
      BY <1>1, <3>1, EndedProc DEF Healed
  <2>2. CASE r.req.verb # "reset"
    <3> DEFINE h == firmware' = "fresh"
    <3>1. proc'[p] = [r EXCEPT !.pc = "open", !.retried = TRUE, !.healed = h]
      BY <1>1, <2>2 DEF USBReset
    <3>2. h => firmware' # "wedged"
      OBVIOUS
    <3> HIDE DEF r, h
    <3>3. /\ proc'[p].pc = "open" /\ proc'[p].file = r.file /\ proc'[p].req = r.req /\ proc'[p].locked = r.locked
          /\ proc'[p].script = r.script /\ proc'[p].healed = h /\ IsRec(proc'[p])
      BY <1>1, <3>1 DEF IsRec
    <3>4. IsProc(proc'[p], numbers) /\ ~proc'[p].locked
      BY <1>1, <1>3, <2>2, <3>3 DEF IsProc, Holding
    <3>5. QED
      BY <3>2, <3>3, <3>4 DEF Healed
  <2>3. QED
    BY <2>1, <2>2
<1>5. Shape'
  BY <1>2, <1>4 DEF AInv, Shape
<1>6. Things'
  <2>1. InSession \subseteq Procs
    BY DEF InSession
  <2>2. QED
    BY <1>3, <2>1 DEF AInv, Things
<1>7. Exclusive'
  BY <1>2, <1>4 DEF AInv, Exclusive
<1>8. ASSUME NEW q \in Procs PROVE IsProc(proc'[q], numbers') /\ Own(q)'
  <2>1. CASE q = p
    BY <1>3, <1>4, <2>1, OwnOutside
  <2>2. CASE q # p
    <3>1. proc'[q] = proc[q] /\ IsProc(proc[q], numbers)
      BY <1>2, <2>2 DEF AInv
    <3>2. q \notin disturbed' => ~proc[q].locked /\ ~proc[q].retried
      BY <1>3, <2>2 DEF InSession
    <3>3. Own(q)'
      BY <3>1, <3>2 DEF Own, Healed, IsProc, Holding
    <3>4. QED
      BY <1>3, <3>1, <3>3
  <2>3. QED
    BY <2>1, <2>2
<1>9. QED
  BY <1>5, <1>6, <1>7, <1>8 DEF AInv

LEMMA ProbingPasses ==
  ASSUME AInv, NEW p \in Procs, Probing(p)
  PROVE  AInv'
<1>1. CASE CannotReset(p)
  <2>1. Acts(p)
    BY DEF Acts
  <2>2. UNCHANGED <<controller, place, started, disturbed>> /\ \E code : Finish(p, code)
    BY <1>1 DEF CannotReset
  <2>3. QED
    BY <2>1, <2>2, EndPasses
<1>2. QED
  BY <1>1, ProbeAnswersPasses, ProbeReadsZeroPasses, StillZeroPasses, USBResetPasses DEF Probing

-----------------------------------------------------------------------------
\* The next frame, and what is left behind it.
LEMMA NextFrame ==
  ASSUME NEW w \in Seq(Frames), NEW s, Remains(s, w), s # <<>>
  PROVE  LET n == Len(w) - Len(s)
         IN  /\ n \in Nat /\ n + 1 \in 1..Len(w) /\ Len(w) \in Nat
             /\ Head(s) = w[n + 1] /\ w[n + 1] \in Frames
             /\ Remains(Tail(s), w) /\ Len(w) - Len(Tail(s)) = n + 1
             /\ Tail(s) = <<>> => n + 1 = Len(w)
             /\ Tail(s) # s
<1> DEFINE n == Len(w) - Len(s)
           t == Tail(s)
           L == Len(w)
           K == Len(s)
<1>1. s \in Seq(Frames) /\ K <= L /\ (\A i \in 1..K : s[i] = w[n + i]) /\ K \in Nat /\ L \in Nat /\ K # 0
  BY DEF Remains
<1>2. t \in Seq(Frames) /\ Len(t) = K - 1 /\ (\A i \in 1..(K - 1) : t[i] = s[i + 1]) /\ Head(s) = s[1]
  BY <1>1, HeadTailProperties
<1>3. \A i \in 1..L : w[i] \in Frames
  OBVIOUS
<1>4. n = L - K
  OBVIOUS
<1>5. t = <<>> => K = 1
  <2> HIDE DEF t, K
  <2>1. t = <<>> => Len(t) = 0
    OBVIOUS
  <2>2. QED
    BY <1>1, <1>2, <2>1
<1> HIDE DEF L, K, t, n
<1>6. /\ n \in Nat /\ n + 1 \in 1..L /\ 1 \in 1..K /\ Len(t) <= L /\ L - Len(t) = n + 1
      /\ Len(t) \in Nat /\ (K = 1 => n + 1 = L)
  <2>1. K \in Nat /\ L \in Nat /\ K # 0 /\ K <= L /\ Len(t) = K - 1
    BY <1>1, <1>2
  <2>2. QED
    BY <1>4, <2>1
<1>7. \A i \in 1..Len(t) : t[i] = w[L - Len(t) + i]
  <2>1. ASSUME NEW i \in 1..Len(t) PROVE t[i] = w[L - Len(t) + i]
    <3>1. i \in 1..(K - 1)
      BY <1>2
    <3>2. i + 1 \in 1..K /\ n + (i + 1) = L - Len(t) + i
      BY <1>1, <1>6, <3>1
    <3>3. QED
      BY <1>1, <1>2, <3>1, <3>2
  <2>2. QED
    BY <2>1
<1>8. Remains(t, w)
  BY <1>2, <1>6, <1>7 DEF Remains, L
<1>9. Head(s) = w[n + 1] /\ w[n + 1] \in Frames
  BY <1>1, <1>2, <1>3, <1>6
<1>10. t # s
  <2>1. Len(t) # K
    <3>1. K \in Nat /\ Len(t) = K - 1
      BY <1>1, <1>2
    <3>2. QED
      BY <3>1
  <2>2. QED
    BY <2>1 DEF K
<1>11. QED
  BY <1>1, <1>5, <1>6, <1>8, <1>9, <1>10 DEF L, K, t, n

LEMMA NextPrime ==
  ASSUME NEW s \in Primes, s # <<>>
  PROVE  /\ Head(s) \in Frames /\ Tail(s) \in Primes
         /\ Head(s).op = "wait" => Tail(s) \notin Shown
         /\ Head(s).op \notin {"finish-play", "set-one-color", "turn-on"}
<1>1. \A t \in {"wait", "remove", "start-new", "finish-play"} : Control(t) \in Frames /\ Control(t).op = t
  BY DEF Frames, ControlFrames, Control
<1>2. CASE s = Reset
  <2>1. Head(s) = Control("wait") /\ Tail(s) = <<Control("remove"), Control("start-new")>>
    BY <1>2 DEF Reset
  <2>2. Tail(s) \notin Shown
    BY <2>1 DEF Shown
  <2>3. QED
    BY <1>1, <2>1, <2>2 DEF Primes
<1>3. CASE s = <<Control("remove"), Control("start-new")>>
  <2>1. Head(s) = Control("remove") /\ Tail(s) = <<Control("start-new")>>
    BY <1>3
  <2>2. QED
    BY <1>1, <2>1 DEF Primes
<1>4. CASE s = <<Control("start-new")>>
  <2>1. Head(s) = Control("start-new") /\ Tail(s) = <<>>
    BY <1>4
  <2>2. QED
    BY <1>1, <2>1 DEF Primes
<1>5. QED
  BY <1>2, <1>3, <1>4 DEF Primes

\* A frame, or the wait for the firmware to be ready for the next.
Takes(f) == IF f.op = "wait" THEN firmware # "busy" /\ UNCHANGED controller ELSE Receive(f)

LEMMA TakesTyped ==
  ASSUME Things, NEW f \in Frames, Takes(f)
  PROVE  /\ firmware' \in {"ok", "fresh", "wedged", "busy"} /\ program' \subseteq ColourFrames
         /\ leds' \in [Zones -> Colours \cup {"firmware"}] /\ dim' \in [Zones -> 0..100]
         /\ firmware' = "wedged" <=> firmware = "wedged"
         /\ f.op # "wait" => firmware' # "fresh"
         /\ firmware # "fresh" => firmware' # "fresh"
<1> USE DEF Things, controller
<1>1. CASE f.op = "wait" \/ firmware = "wedged"
  BY <1>1 DEF Takes, Receive
<1>2. CASE f.op # "wait" /\ firmware # "wedged"
  <2>0. Receive(f)
    BY <1>2 DEF Takes
  <2>1. firmware' = IF firmware = "fresh" THEN "ok" ELSE firmware
    BY <1>2, <2>0 DEF Receive
  <2>2. program' \subseteq ColourFrames
    <3>1. program' = {} \/ program' = program \/ (f.op = "set-one-color" /\ program' = program \cup {f})
      BY <1>2, <2>0 DEF Receive
    <3>2. f.op = "set-one-color" => f \in ColourFrames
      BY DEF Frames, ControlFrames, DimFrames, Control
    <3>3. QED
      BY <3>1, <3>2
  <2>3. leds' \in [Zones -> Colours \cup {"firmware"}]
    <3>1. \A c \in program : c.colour \in Colours
      BY DEF ColourFrames
    <3> DEFINE pick(z) == CHOOSE c \in program : z \in ToSet(c.zones)
    <3>2. \A z \in Zones : (\E c \in program : z \in ToSet(c.zones)) => pick(z) \in program
      OBVIOUS
    <3>3. leds' = IF f.op = "finish-play"
                  THEN [z \in Zones |-> IF \E c \in program : z \in ToSet(c.zones) THEN pick(z).colour ELSE leds[z]]
                  ELSE leds
      BY <1>2, <2>0 DEF Receive
    <3> HIDE DEF pick
    <3>4. QED
      BY <3>1, <3>2, <3>3
  <2>4. dim' \in [Zones -> 0..100]
    <3>1. f.op = "turn-on" => f.dim \in 0..100
      <4>1. f \in ControlFrames \cup ColourFrames => f.op # "turn-on"
        BY DEF ControlFrames, ColourFrames, Control
      <4> DEFINE D == 0..100
      <4>2. DimFrames = [op : {"turn-on"}, dim : D, zones : Seq(Zones)]
        BY DEF DimFrames
      <4> HIDE DEF D
      <4>3. f \in DimFrames => f.dim \in D
        BY <4>2
      <4>4. QED
        BY <4>1, <4>3 DEF Frames, D
    <3>2. dim' = IF f.op = "turn-on" THEN [z \in Zones |-> IF z \in ToSet(f.zones) THEN f.dim ELSE dim[z]] ELSE dim
      BY <1>2, <2>0 DEF Receive
    <3>3. QED
      BY <3>1, <3>2
  <2>5. QED
    BY <1>2, <2>1, <2>2, <2>3, <2>4
<1>3. QED
  BY <1>1, <1>2

\* What the next frame of a command does to the controller.
LEMMA TakesNext ==
  ASSUME Things, NEW r, NEW w, ScriptOK(r, w), NEW n \in Nat, n + 1 \in 1..Len(w), Takes(w[n + 1]),
         firmware \in {"ok", "busy"}, Cleared(w, n) => program = Staged(w, n),
         \A i \in 1..n : w[i].op = "turn-on" => \A z \in ToSet(w[i].zones) : dim[z] = w[i].dim
  PROVE  /\ firmware' \in {"ok", "busy"}
         /\ Cleared(w, n + 1) => program' = Staged(w, n + 1)
         /\ \A i \in 1..(n + 1) : w[i].op = "turn-on" => \A z \in ToSet(w[i].zones) : dim'[z] = w[i].dim
         /\ w[n + 1].op = "finish-play" =>
              \A z \in Zones : IF Asked(r, z) = {} THEN leds'[z] = leds[z]
                               ELSE /\ leds'[z] \in Asked(r, z)
                                    /\ n + 1 = Len(w) => leds'[z] \in AskedLast(r, z)
<1> DEFINE f == w[n + 1]
<1>1. f \in Frames /\ w \in Seq(Frames)
  BY DEF ScriptOK
<1>2. 1..(n + 1) = (1..n) \cup {n + 1} /\ n + 1 \in 1..(n + 1) /\ (n + 1) - 1 = n
  OBVIOUS
<1>3. f.op # "wait" =>
        /\ firmware' = firmware
        /\ program' = CASE f.op \in {"remove", "start-new", "finish-play"} -> {}
                        [] f.op = "set-one-color" -> program \cup {f}
                        [] OTHER -> program
        /\ leds' = IF f.op = "finish-play"
                   THEN [z \in Zones |-> IF \E c \in program : z \in ToSet(c.zones)
                                         THEN (CHOOSE c \in program : z \in ToSet(c.zones)).colour ELSE leds[z]]
                   ELSE leds
        /\ dim' = IF f.op = "turn-on" THEN [z \in Zones |-> IF z \in ToSet(f.zones) THEN f.dim ELSE dim[z]] ELSE dim
  BY DEF Takes, Receive
<1>4. f.op = "wait" => UNCHANGED <<firmware, program, leds, dim>>
  BY DEF Takes, controller
<1>5. firmware' \in {"ok", "busy"}
  BY <1>3, <1>4
<1>6. Cleared(w, n + 1) => program' = Staged(w, n + 1)
  <2>1. f.op \notin Clears /\ Cleared(w, n + 1) => Cleared(w, n)
    BY <1>2 DEF Cleared
  <2>2. CASE f.op \in Clears
    <3>1. program' = {}
      BY <1>3, <2>2 DEF Clears
    <3>2. QED
      BY <2>2, <3>1, StagedNext
  <2>3. CASE f.op = "set-one-color"
    <3>1. program' = program \cup {f} /\ f.op \notin Clears
      BY <1>3, <2>3 DEF Clears
    <3>2. QED
      BY <2>1, <2>3, <3>1, StagedNext
  <2>4. CASE f.op \notin Clears \cup {"set-one-color"}
    <3>1. program' = program
      BY <1>3, <1>4, <2>4 DEF Clears
    <3>2. QED
      BY <2>1, <2>4, <3>1, StagedNext
  <2>5. QED
    BY <2>2, <2>3, <2>4
<1>7. ASSUME NEW i \in 1..(n + 1), w[i].op = "turn-on", NEW z \in ToSet(w[i].zones) PROVE dim'[z] = w[i].dim
  <2>0. z \in Zones /\ \A j \in 1..(n + 1) : w[j].op = "turn-on" => w[j].dim = w[i].dim
    <3>1. \A j \in 1..(n + 1) : j \in 1..Len(w)
      BY <1>1
    <3>2. \A j \in 1..(n + 1) : w[j].op = "turn-on" => w[j].dim = 100 - r.percent
      BY <3>1 DEF ScriptOK
    <3>3. w[i] \in Frames
      BY <1>1, <3>1
    <3>4. w[i].zones \in Seq(Zones)
      BY <1>7, <3>3 DEF Frames, ControlFrames, ColourFrames, DimFrames, Control
    <3>5. z \in Zones
      BY <3>4 DEF ToSet
    <3>6. QED
      BY <1>7, <3>2, <3>5
  <2>1. CASE f.op = "turn-on"
    <3>1. dim'[z] = IF z \in ToSet(f.zones) THEN f.dim ELSE dim[z]
      BY <1>3, <2>0, <2>1
    <3>2. f.dim = w[i].dim
      BY <1>2, <2>0, <2>1
    <3>3. i = n + 1 \/ i \in 1..n
      BY <1>2
    <3>4. QED
      BY <1>7, <3>1, <3>2, <3>3
  <2>2. CASE f.op # "turn-on"
    <3>1. dim' = dim
      BY <1>3, <1>4, <2>2
    <3>2. i \in 1..n
      BY <1>2, <1>7, <2>2
    <3>3. QED
      BY <1>7, <3>1, <3>2
  <2>3. QED
    BY <2>1, <2>2
<1>8. ASSUME f.op = "finish-play", NEW z \in Zones
      PROVE  IF Asked(r, z) = {} THEN leds'[z] = leds[z]
             ELSE leds'[z] \in Asked(r, z) /\ (n + 1 = Len(w) => leds'[z] \in AskedLast(r, z))
  <2> DEFINE F == Staged(w, n)
             showing == {c \in F : z \in ToSet(c.zones)}
             c0 == CHOOSE c \in F : z \in ToSet(c.zones)
  <2>1. Cleared(w, n) /\ Pictured(r, F)
    BY <1>2, <1>8 DEF ScriptOK
  <2>2. program = F
    BY <2>1
  <2>3. leds'[z] = IF \E c \in F : z \in ToSet(c.zones) THEN c0.colour ELSE leds[z]
    BY <1>3, <1>8, <2>2
  <2>4. (\E c \in F : z \in ToSet(c.zones)) => c0 \in F /\ z \in ToSet(c0.zones)
    OBVIOUS
  <2> HIDE DEF c0
  <2>5. n + 1 = Len(w) => EndsWith(r, F)
    <3>1. r.verb \in {"set", "set-map", "set-all", "off", "identify"} \/ Asked(r, z) = {}
      BY DEF Asked
    <3>2. Asked(r, z) = {} => F = {} \/ \A c \in F : z \notin ToSet(c.zones)
      BY <2>1 DEF Pictured
    <3>3. n + 1 = Len(w) /\ r.verb \in {"set", "set-map", "set-all", "off", "identify"} => EndsWith(r, F)
      BY <1>2 DEF ScriptOK
    <3>4. ASSUME r.verb \notin {"set", "set-map", "set-all", "off", "identify"} PROVE EndsWith(r, F)
      <4>1. \A y \in Zones : Asked(r, y) = {}
        BY <3>4 DEF Asked
      <4>2. QED
        BY <2>1, <4>1 DEF Pictured, EndsWith
    <3>5. QED
      BY <3>3, <3>4
  <2> HIDE DEF F
  <2>6. QED
    BY <2>1, <2>3, <2>4, <2>5 DEF Pictured, EndsWith
<1>9. QED
  BY <1>5, <1>6, <1>7, <1>8

\* Nobody else is at the controller while a process sends.
LEMMA SendsAlone ==
  ASSUME AInv, NEW p \in Procs, proc[p].pc \in Holding, Connected(p), NEW q \in Procs \ {p}, q \notin disturbed
  PROVE  proc[q].pc \notin {"prime", "command"}
<1>1. proc[q].pc \in {"prime", "command"} => Connected(q) /\ proc[q].locked
  BY DEF AInv, Own, IsProc, Holding
<1>2. proc[p].locked
  BY DEF AInv, IsProc
<1>3. QED
  BY <1>1, <1>2 DEF AInv, Exclusive, Connected

LEMMA SendingPasses ==
  ASSUME AInv, NEW p \in Procs, Send(p) \/ Ready(p)
  PROVE  AInv'
<1> DEFINE r == proc[p]
           s == r.script
           f == Head(s)
           t == Tail(s)
           w == Script[r.req]
<1>0. Acts(p)
  BY DEF Acts, Driving
<1>1. IsRec(r) /\ IsProc(r, numbers) /\ Own(p) /\ proc = [q \in Procs |-> proc[q]] /\ Things
  BY DEF AInv, Shape
<1>2. (\A q \in Procs \ {p} : proc'[q] = proc[q]) /\ proc' = [q \in Procs |-> proc'[q]]
  BY <1>0, OthersStay DEF AInv
<1>3. /\ s # <<>> /\ Connected(p) /\ Takes(f) /\ UNCHANGED <<place, started, disturbed>>
      /\ proc'[p] = [r EXCEPT !.script = t]
  BY <1>1 DEF Send, Ready, Takes
<1>4. r.pc \in {"prime", "command"}
  BY <1>1, <1>3 DEF IsProc
<1>5. r.req \in Requests /\ Valid(r.req) /\ r.req.verb # "reset"
  BY <1>1, <1>4 DEF IsProc
<1>6. ScriptOK(r.req, w) /\ w \in Seq(Frames)
  BY <1>5, ScriptsOK DEF ScriptOK
<1>7. r.pc = "prime" =>
        /\ f \in Frames /\ t \in Primes /\ (f.op = "wait" => t \notin Shown)
  BY <1>1, <1>3, NextPrime DEF IsProc
<1>8. r.pc = "command" =>
        LET n == Len(w) - Len(s)
        IN  /\ n \in Nat /\ n + 1 \in 1..Len(w) /\ Len(w) \in Nat
            /\ f = w[n + 1] /\ f \in Frames /\ Remains(t, w) /\ Len(w) - Len(t) = n + 1
            /\ t = <<>> => n + 1 = Len(w)
  BY <1>1, <1>3, <1>6, NextFrame DEF IsProc
<1>9. /\ firmware' \in {"ok", "fresh", "wedged", "busy"} /\ program' \subseteq ColourFrames
      /\ leds' \in [Zones -> Colours \cup {"firmware"}] /\ dim' \in [Zones -> 0..100]
      /\ (firmware' = "wedged" <=> firmware = "wedged")
      /\ (f.op # "wait" => firmware' # "fresh")
      /\ (firmware # "fresh" => firmware' # "fresh")
  BY <1>1, <1>3, <1>4, <1>7, <1>8, TakesTyped
<1> HIDE DEF r, s, f, t, w
<1>10. /\ proc'[p].pc = r.pc /\ proc'[p].file = r.file /\ proc'[p].req = r.req /\ proc'[p].locked = r.locked
       /\ proc'[p].retried = r.retried /\ proc'[p].script = t /\ proc'[p].healed = r.healed
       /\ IsRec(proc'[p])
  BY <1>1, <1>3 DEF IsRec
<1>11. IsProc(proc'[p], numbers)
  BY <1>1, <1>4, <1>7, <1>8, <1>10 DEF IsProc, Holding, w
<1>12. ASSUME r.pc = "command", p \notin disturbed PROVE Commanded(p)'
  <2> DEFINE n == Len(w) - Len(s)
  <2>1. /\ n \in Nat /\ n + 1 \in 1..Len(w) /\ Len(w) \in Nat /\ f = w[n + 1]
        /\ Len(w) - Len(t) = n + 1 /\ (t = <<>> => n + 1 = Len(w))
    BY <1>8, <1>12
  <2>2. Whole(p) = w /\ SentBy(p) = n /\ Commanded(p)
    BY <1>1, <1>12 DEF Whole, SentBy, Own, r, s, w
  <2>3. Whole(p)' = w /\ SentBy(p)' = n + 1
    BY <1>10, <2>1 DEF Whole, SentBy, w
  <2> HIDE DEF n
  <2>4. /\ firmware \in {"ok", "busy"} /\ (Cleared(w, n) => program = Staged(w, n))
        /\ \A i \in 1..n : w[i].op = "turn-on" => \A z \in ToSet(w[i].zones) : dim[z] = w[i].dim
    BY <2>2 DEF Commanded
  <2>5. /\ firmware' \in {"ok", "busy"}
        /\ (Cleared(w, n + 1) => program' = Staged(w, n + 1))
        /\ (\A i \in 1..(n + 1) : w[i].op = "turn-on" => \A z \in ToSet(w[i].zones) : dim'[z] = w[i].dim)
        /\ (w[n + 1].op = "finish-play" =>
              \A z \in Zones : IF Asked(r.req, z) = {} THEN leds'[z] = leds[z]
                               ELSE /\ leds'[z] \in Asked(r.req, z)
                                    /\ n + 1 = Len(w) => leds'[z] \in AskedLast(r.req, z))
    BY <1>1, <1>3, <1>6, <2>1, <2>4, TakesNext
  <2>6. ASSUME t = <<>>, NEW z \in Zones, Asked(r.req, z) # {} PROVE leds'[z] \in AskedLast(r.req, z)
    <3>1. n + 1 = Len(w)
      BY <2>1, <2>6
    <3>2. r.req.verb \in {"set", "set-map", "set-all", "off", "identify"}
      BY <2>6 DEF Asked
    <3>3. w[n + 1].op = "finish-play"
      BY <1>6, <3>1, <3>2 DEF ScriptOK
    <3>4. QED
      BY <2>5, <2>6, <3>1, <3>3
  <2>7. QED
    BY <1>10, <2>3, <2>5, <2>6 DEF Commanded
<1>13. Own(p)'
  <2>1. p \notin disturbed' => p \notin disturbed
    BY <1>3
  <2>2. Connected(p)' /\ Healed(p)' = Healed(p)
    BY <1>3, <1>10 DEF Connected, Healed, place, r
  <2>3. ASSUME p \notin disturbed, Healed(p), r.pc = "prime", t \in Shown PROVE firmware' # "fresh"
    BY <1>7, <1>9, <2>3
  <2>4. p \notin disturbed /\ Healed(p) => firmware' # "wedged"
    BY <1>1, <1>9 DEF Own
  <2>5. QED
    BY <1>10, <1>12, <2>1, <2>2, <2>3, <2>4 DEF Own
<1>14. ASSUME NEW q \in Procs \ {p} PROVE Own(q)'
  <2>1. proc'[q] = proc[q] /\ Own(q) /\ disturbed' = disturbed
    BY <1>2, <1>3 DEF AInv
  <2>2. q \notin disturbed => proc[q].pc \notin {"prime", "command"}
    BY <1>3, <1>4, SendsAlone DEF Holding, r
  <2>3. QED
    BY <1>9, <2>1, <2>2 DEF Own, Healed
<1>15. Shape' /\ Exclusive'
  BY <1>2, <1>10 DEF AInv, Shape, Exclusive, r
<1>16. Things'
  BY <1>1, <1>3, <1>9 DEF Things, place
<1>17. \A q \in Procs : IsProc(proc'[q], numbers')
  BY <1>2, <1>3, <1>11 DEF AInv, place
<1>18. QED
  BY <1>13, <1>14, <1>15, <1>16, <1>17 DEF AInv

LEMMA DrivingPasses ==
  ASSUME AInv, NEW p \in Procs, Driving(p) \/ Kill(p)
  PROVE  AInv'
<1>1. Acts(p)
  BY DEF Acts
<1>2. CASE ReadyTimesOut(p) \/ IOFails(p) \/ Return(p) \/ Kill(p)
  <2>1. UNCHANGED <<controller, place, started, disturbed>> /\ \E code : Finish(p, code)
    BY <1>2 DEF ReadyTimesOut, IOFails, Return, Kill
  <2>2. QED
    BY <1>1, <2>1, EndPasses
<1>3. QED
  BY <1>2, SendingPasses DEF Driving

LEMMA StartPasses ==
  ASSUME AInv, NEW p \in Procs, NEW q \in Requests, Start(p, q)
  PROVE  AInv'
<1> DEFINE r == proc[p]
           pc0 == IF q.verb = "reset" THEN "reset" ELSE "open"
<1>1. IsRec(r) /\ IsProc(r, numbers) /\ proc = [x \in Procs |-> proc[x]] /\ numbers \in Nat /\ Things
  BY DEF AInv, Shape, Things
<1>2. /\ r.pc = "idle" /\ UNCHANGED <<controller, place>> /\ disturbed' = disturbed \ {p}
      /\ started < MaxCommands /\ started' = started + 1
  BY DEF Start
<1>3. (\A x \in Procs \ {p} : proc'[x] = proc[x]) /\ proc' = [x \in Procs |-> proc'[x]]
  BY <1>1 DEF Start, Finish
<1>4. /\ IsRec(proc'[p]) /\ IsProc(proc'[p], numbers) /\ ~proc'[p].locked /\ ~proc'[p].retried
      /\ proc'[p].pc \in {"idle", "open", "reset"}
  <2>1. CASE Valid(q)
    <3>1. proc'[p] = [r EXCEPT !.req = q, !.pc = pc0]
      BY <1>1, <2>1 DEF Start
    <3>2. (q.verb = "reset" => pc0 = "reset") /\ (q.verb # "reset" => pc0 = "open")
      OBVIOUS
    <3> HIDE DEF r, pc0
    <3>3. /\ proc'[p].pc = pc0 /\ proc'[p].file = r.file /\ proc'[p].req = q /\ proc'[p].locked = r.locked
          /\ proc'[p].retried = r.retried /\ proc'[p].script = r.script /\ IsRec(proc'[p])
      BY <1>1, <3>1 DEF IsRec
    <3>4. QED
      BY <1>1, <1>2, <2>1, <3>2, <3>3 DEF IsProc, Holding
  <2>2. CASE ~Valid(q)
    <3>1. proc'[p] = Ended("bad-request")
      BY <1>1, <2>2 DEF Start, Finish
    <3>2. QED
      BY <1>1, <3>1, EndedProc
  <2>3. QED
    BY <2>1, <2>2
<1>5. Shape' /\ Exclusive'
  BY <1>3, <1>4 DEF AInv, Shape, Exclusive
<1>6. Things'
  <2>1. started' \in 0..MaxCommands /\ disturbed' \subseteq Procs
    <3>1. started \in 0..MaxCommands /\ MaxCommands \in Nat /\ disturbed \subseteq Procs
      BY <1>1, AlienFXAssumption DEF Things
    <3>2. QED
      BY <1>2, <3>1
  <2>2. QED
    BY <1>1, <1>2, <2>1 DEF Things, controller, place
<1>7. ASSUME NEW x \in Procs PROVE IsProc(proc'[x], numbers') /\ Own(x)'
  <2>1. CASE x = p
    BY <1>2, <1>4, <2>1, OwnOutside DEF Healed, place
  <2>2. CASE x # p
    <3>1. proc'[x] = proc[x] /\ IsProc(proc[x], numbers) /\ Own(x)
      BY <1>3, <2>2 DEF AInv
    <3>2. x \notin disturbed' => x \notin disturbed
      BY <1>2, <2>2
    <3>3. QED
      BY <1>2, <3>1, <3>2, OwnKept DEF controller, place
  <2>3. QED
    BY <2>1, <2>2
<1>8. QED
  BY <1>5, <1>6, <1>7 DEF AInv

\* The controller's own moves.  Whoever is in a session knows of a loss only here.
LEMMA ControllerPasses ==
  ASSUME AInv, Controller
  PROVE  AInv'
<1>1. UNCHANGED proc
  BY DEF Controller, Wedge, TurnBusy, Vanish, Appear
<1>2. Things /\ \A p \in Procs : IsProc(proc[p], numbers) /\ Own(p)
  BY DEF AInv
<1>3. Shape' /\ Exclusive'
  BY <1>1 DEF AInv, Shape, Exclusive
<1>4. InSession \subseteq Procs
  BY DEF InSession
<1>5. ASSUME NEW p \in Procs, p \in disturbed' \/ (~proc[p].locked /\ ~proc[p].retried) PROVE Own(p)'
  BY <1>1, <1>2, <1>5 DEF Own, Healed, IsProc, Holding
<1>6. CASE Wedge \/ Vanish
  <2>1. Things'
    BY <1>2, <1>4, <1>6 DEF Wedge, Vanish, Lost, Things, place
  <2>2. \A p \in Procs : IsProc(proc'[p], numbers')
    BY <1>1, <1>2, <1>6 DEF Wedge, Vanish, place
  <2>3. \A p \in Procs : p \in disturbed' \/ (~proc[p].locked /\ ~proc[p].retried)
    BY <1>6 DEF Wedge, Vanish, Lost, InSession
  <2>4. QED
    BY <1>3, <1>5, <2>1, <2>2, <2>3 DEF AInv
<1>7. CASE TurnBusy
  <2>1. Things'
    BY <1>2, <1>7 DEF TurnBusy, Things, place
  <2>2. \A p \in Procs : IsProc(proc'[p], numbers')
    BY <1>1, <1>2, <1>7 DEF TurnBusy, place
  <2>3. firmware' \in {"ok", "busy"} /\ UNCHANGED <<program, leds, dim, node, proc, disturbed>>
    BY <1>7 DEF TurnBusy, place
  <2>4. \A p \in Procs : Own(p)'
    BY <1>2, <2>3 DEF Own, Commanded, Healed, Connected, Whole, SentBy
  <2>5. QED
    BY <1>3, <2>1, <2>2, <2>4 DEF AInv
<1>8. CASE Appear
  <2>1. node = 0 /\ node' = numbers + 1 /\ numbers' = numbers + 1
        /\ UNCHANGED <<firmware, program, leds, dim, product, started, disturbed>>
    BY <1>8 DEF Appear, controller
  <2>2. numbers \in 1..MaxNodes /\ numbers < MaxNodes /\ MaxNodes \in Nat
    BY <1>2, <2>1, AlienFXAssumption DEF Things
  <2>3. numbers' \in 1..MaxNodes /\ node' \in 0..numbers' /\ node' # 0 /\ 0..numbers \subseteq 0..numbers'
    BY <2>1, <2>2
  <2>4. Things'
    BY <1>2, <2>1, <2>3 DEF Things
  <2>5. \A p \in Procs : IsProc(proc'[p], numbers')
    BY <1>1, <1>2, <2>3 DEF IsProc
  <2>6. ASSUME NEW p \in Procs, p \notin disturbed PROVE proc[p].pc \notin {"prime", "command"}
    BY <1>2, <2>1, <2>6 DEF Own, Connected, IsProc, Holding
  <2>7. \A p \in Procs : Own(p)'
    BY <1>1, <1>2, <2>1, <2>6 DEF Own, Healed
  <2>8. QED
    BY <1>3, <2>4, <2>5, <2>7 DEF AInv
<1>9. QED
  BY <1>6, <1>7, <1>8 DEF Controller

LEMMA InitAInv == Init => AInv
<1> SUFFICES ASSUME Init PROVE AInv
  OBVIOUS
<1>1. \A p \in Procs : proc[p] = Ended("none")
  BY DEF Init
<1>2. Shape
  BY <1>1, EndedProc DEF Init, Shape
<1>3. Things
  BY AlienFXAssumption DEF Init, Things
<1>4. numbers \in Nat
  BY DEF Init
<1>5. \A p \in Procs : IsProc(proc[p], numbers) /\ proc[p].pc = "idle" /\ ~proc[p].locked /\ ~proc[p].retried
  BY <1>1, <1>4, EndedProc
<1>6. Exclusive /\ \A p \in Procs : Own(p)
  BY <1>5 DEF Exclusive, Own, Healed
<1>7. QED
  BY <1>2, <1>3, <1>5, <1>6 DEF AInv

LEMMA StepAInv == AInv /\ [Next]_vars => AInv'
<1> SUFFICES ASSUME AInv, [Next]_vars PROVE AInv'
  OBVIOUS
<1>1. CASE UNCHANGED vars
  BY <1>1 DEF vars, AInv, Shape, Things, Exclusive, Own, Commanded, Healed, Connected, Whole, SentBy
<1>2. QED
  BY <1>1, StartPasses, OpeningPasses, ProbingPasses, DrivingPasses, ControllerPasses DEF Next

-----------------------------------------------------------------------------
\* A step that moves process p, busy with a command, is a step of its own.
LEMMA OwnStep ==
  ASSUME AInv, [Next]_vars, NEW p \in Procs, proc[p].pc # "idle", proc'[p] # proc[p]
  PROVE  Acts(p)
<1>1. ASSUME NEW q \in Procs \ {p}, Acts(q) PROVE FALSE
  BY <1>1, OthersStay DEF AInv
<1>2. ASSUME NEW q \in Procs, NEW r \in Requests, Start(q, r) PROVE FALSE
  BY <1>2 DEF Start, Finish, AInv, Shape
<1>3. ~Controller /\ ~UNCHANGED vars
  BY DEF Controller, Wedge, TurnBusy, Vanish, Appear, vars
<1>4. QED
  BY <1>1, <1>2, <1>3 DEF Next, Acts

\* A play is a frame of a command, and of the picture that it completes.
LEMMA PlayStep ==
  ASSUME AInv, [Next]_vars, NEW p \in Procs, Plays(p), p \notin disturbed
  PROVE  \A z \in Zones : IF Asked(proc[p].req, z) = {} THEN leds'[z] = leds[z]
                          ELSE leds'[z] \in Asked(proc[p].req, z)
<1> DEFINE r == proc[p]
           s == r.script
           t == Tail(s)
           w == Script[r.req]
           n == Len(w) - Len(s)
<1>1. IsRec(r) /\ IsProc(r, numbers) /\ Own(p) /\ Things /\ proc = [q \in Procs |-> proc[q]]
  BY DEF AInv, Shape
<1>2. s # <<>> /\ Head(s).op = "finish-play" /\ proc'[p] = [r EXCEPT !.script = t]
  BY DEF Plays
<1>3. r.pc = "command"
  BY <1>1, <1>2, NextPrime DEF IsProc
<1>4. r.req \in Requests /\ Valid(r.req) /\ r.req.verb # "reset" /\ Remains(s, w)
  BY <1>1, <1>3 DEF IsProc
<1>5. ScriptOK(r.req, w) /\ w \in Seq(Frames)
  BY <1>4, ScriptsOK DEF ScriptOK
<1>6. n \in Nat /\ n + 1 \in 1..Len(w) /\ Head(s) = w[n + 1] /\ t # s
  BY <1>2, <1>4, <1>5, NextFrame
<1>7. Commanded(p) /\ Whole(p) = w /\ SentBy(p) = n
  BY <1>1, <1>3 DEF Own, Whole, SentBy
<1> HIDE DEF n, t, w
<1>8. proc'[p].pc = "command" /\ proc'[p].script = t /\ proc'[p] # r
  <2> HIDE DEF r
  <2>1. proc'[p].pc = r.pc /\ proc'[p].script = t
    BY <1>1, <1>2 DEF IsRec
  <2>2. QED
    BY <1>3, <1>6, <2>1
<1>9. Send(p)
  <2>1. Acts(p)
    BY <1>3, <1>8, OwnStep
  <2>2. ~Opening(p)
    BY <1>3 DEF Opening, OpenNode, TakeLock, LockTimesOut
  <2>3. ~Probing(p)
    BY <1>3 DEF Probing, ProbeAnswers, ProbeReadsZero, StillZero, CannotReset, USBReset
  <2>4. ~(ReadyTimesOut(p) \/ IOFails(p) \/ Return(p) \/ Kill(p))
    <3>1. \A code : ~Finish(p, code)
      BY <1>1, <1>8 DEF Finish, Ended
    <3>2. QED
      BY <3>1 DEF ReadyTimesOut, IOFails, Return, Kill
  <2>5. ~Ready(p)
    BY <1>2 DEF Ready
  <2>6. QED
    BY <2>1, <2>2, <2>3, <2>4, <2>5 DEF Acts, Driving
<1>10. Takes(w[n + 1])
  BY <1>2, <1>6, <1>9 DEF Send, Takes
<1>11. /\ firmware \in {"ok", "busy"} /\ (Cleared(w, n) => program = Staged(w, n))
       /\ \A i \in 1..n : w[i].op = "turn-on" => \A z \in ToSet(w[i].zones) : dim[z] = w[i].dim
  BY <1>7 DEF Commanded
<1>12. w[n + 1].op = "finish-play" =>
         \A z \in Zones : IF Asked(r.req, z) = {} THEN leds'[z] = leds[z]
                          ELSE leds'[z] \in Asked(r.req, z) /\ (n + 1 = Len(w) => leds'[z] \in AskedLast(r.req, z))
  BY <1>1, <1>5, <1>6, <1>10, <1>11, TakesNext
<1>13. QED
  BY <1>2, <1>6, <1>12

\* What is true of the controller when a command ends well.
LEMMA OkStep ==
  ASSUME AInv, [Next]_vars, NEW p \in Procs, p \notin disturbed,
         proc[p].pc = "command", proc'[p].pc = "idle", proc'[p].code = "ok"
  PROVE  /\ \A z \in Zones : Asked(proc[p].req, z) # {} => leds[z] \in AskedLast(proc[p].req, z)
         /\ proc[p].req.verb = "brightness" => \A z \in Zones : dim[z] = 100 - proc[p].req.percent
<1> DEFINE r == proc[p]
           w == Script[r.req]
<1>1. IsRec(r) /\ IsProc(r, numbers) /\ Own(p) /\ proc = [q \in Procs |-> proc[q]]
  BY DEF AInv, Shape
<1>2. Return(p)
  <2>1. Acts(p)
    BY OwnStep
  <2>2. ~Opening(p)
    BY DEF Opening, OpenNode, TakeLock, LockTimesOut
  <2>3. ~Probing(p)
    BY DEF Probing, ProbeAnswers, ProbeReadsZero, StillZero, CannotReset, USBReset
  <2>4. ~(Send(p) \/ Ready(p))
    <3>1. ASSUME NEW s, proc'[p] = [r EXCEPT !.script = s] PROVE FALSE
      BY <1>1, <3>1 DEF IsRec
    <3>2. QED
      BY <1>1, <3>1 DEF Send, Ready
  <2>5. ~(ReadyTimesOut(p) \/ IOFails(p) \/ Kill(p))
    BY <1>1 DEF ReadyTimesOut, IOFails, Kill, Finish, Ended
  <2>6. QED
    BY <2>1, <2>2, <2>3, <2>4, <2>5 DEF Acts, Driving
<1>3. r.script = <<>> /\ Commanded(p)
  BY <1>1, <1>2 DEF Return, Own
<1>4. \A z \in Zones : Asked(r.req, z) # {} => leds[z] \in AskedLast(r.req, z)
  BY <1>3 DEF Commanded
<1>5. ScriptOK(r.req, w) /\ w \in Seq(Frames)
  BY <1>1, ScriptsOK DEF IsProc, ScriptOK
<1>6. Whole(p) = w /\ SentBy(p) = Len(w)
  <2>1. Len(r.script) = 0
    BY <1>3
  <2>2. Len(w) \in Nat
    BY <1>5
  <2>3. SentBy(p) = Len(w) - Len(r.script) /\ Whole(p) = w
    BY DEF SentBy, Whole
  <2> HIDE DEF w, r
  <2>4. QED
    BY <2>1, <2>2, <2>3
<1>7. ASSUME r.req.verb = "brightness", NEW z \in Zones PROVE dim[z] = 100 - r.req.percent
  <2>1. PICK i \in 1..Len(w) : w[i].op = "turn-on" /\ z \in ToSet(w[i].zones)
    BY <1>5, <1>7 DEF ScriptOK
  <2>2. dim[z] = w[i].dim
    BY <1>3, <1>6, <2>1 DEF Commanded
  <2>3. w[i].dim = 100 - r.req.percent
    BY <1>5, <2>1 DEF ScriptOK
  <2>4. QED
    BY <2>2, <2>3
<1>8. QED
  BY <1>4, <1>7

LEMMA WedgedStep ==
  ASSUME AInv, [Next]_vars, NEW p \in Procs,
         proc[p].pc # "idle", proc'[p].pc = "idle", proc'[p].code = "aw-elc-wedged"
  PROVE  p \in disturbed \/ proc[p].pc = "reset" \/ (proc[p].retried /\ ~proc[p].healed)
<1> DEFINE r == proc[p]
           Goal == p \in disturbed \/ r.pc = "reset" \/ (r.retried /\ ~r.healed)
<1>1. IsRec(r) /\ IsProc(r, numbers) /\ Own(p) /\ proc = [q \in Procs |-> proc[q]]
  BY DEF AInv, Shape
<1>2. Acts(p)
  BY OwnStep
<1>3. ASSUME NEW code, code # "aw-elc-wedged" PROVE ~Finish(p, code)
  BY <1>1, <1>3 DEF Finish, Ended
<1>4. CASE Opening(p)
  <2>0. ASSUME NEW n, proc'[p] = [r EXCEPT !.file = n, !.pc = "lock"] PROVE FALSE
    <3> HIDE DEF r
    <3>1. proc'[p].pc = "lock"
      BY <1>1, <2>0 DEF IsRec
    <3>2. QED
      BY <3>1
  <2>1. OpenNode(p) => FALSE
    <3>1. ASSUME NEW n, proc' = [proc EXCEPT ![p].file = n, ![p].pc = "lock"] PROVE FALSE
      BY <1>1, <2>0, <3>1
    <3>2. ~Finish(p, "aw-elc-not-found")
      BY <1>3
    <3>3. QED
      BY <3>1, <3>2 DEF OpenNode
  <2>2. TakeLock(p) => FALSE
    BY <1>1 DEF TakeLock, IsRec
  <2>3. QED
    BY <1>3, <1>4, <2>1, <2>2 DEF Opening, LockTimesOut
<1>5. CASE Probing(p)
  <2>1. CASE CannotReset(p) \/ USBReset(p)
    BY <2>1 DEF CannotReset, USBReset
  <2>2. CASE ProbeAnswers(p) \/ ProbeReadsZero(p)
    <3>1. \/ proc'[p] = [r EXCEPT !.pc = "command", !.script = Script[r.req]]
          \/ proc'[p] = [r EXCEPT !.pc = "prime", !.script = Reset]
      BY <1>1, <2>2 DEF ProbeAnswers, ProbeReadsZero
    <3> HIDE DEF r
    <3>2. proc'[p].pc \in {"command", "prime"}
      BY <1>1, <3>1 DEF IsRec
    <3>3. QED
      BY <3>2
  <2>3. CASE StillZero(p)
    <3>1. r.pc = "prime" /\ r.script = <<>> /\ LooksWedged
      BY <2>3 DEF StillZero
    <3>2. r.retried
      <4>1. ASSUME proc'[p] = [r EXCEPT !.pc = "reset", !.file = 0, !.locked = FALSE] PROVE FALSE
        <5> HIDE DEF r
        <5>1. proc'[p].pc = "reset"
          BY <1>1, <4>1 DEF IsRec
        <5>2. QED
          BY <5>1
      <4>2. QED
        BY <1>1, <2>3, <4>1 DEF StillZero
    <3>3. p \in disturbed \/ ~r.healed
      BY <1>1, <3>1, <3>2 DEF Own, Healed, Shown, LooksWedged
    <3>4. QED
      BY <3>2, <3>3
  <2>4. QED
    BY <1>5, <2>1, <2>2, <2>3 DEF Probing
<1>6. CASE Driving(p) \/ Kill(p)
  <2>1. ASSUME NEW s, proc'[p] = [r EXCEPT !.script = s] PROVE FALSE
    BY <1>1, <2>1 DEF IsRec
  <2>2. ~(Send(p) \/ Ready(p))
    BY <1>1, <2>1 DEF Send, Ready
  <2>3. QED
    BY <1>3, <1>6, <2>2 DEF Driving, ReadyTimesOut, IOFails, Return, Kill
<1>7. QED
  BY <1>2, <1>4, <1>5, <1>6 DEF Acts

LEMMA AInvTypes == AInv => TypeOK
<1> SUFFICES ASSUME AInv PROVE TypeOK
  OBVIOUS
<1>1. ASSUME NEW p \in Procs
      PROVE  /\ proc[p].pc \in {"idle", "open", "lock", "probe", "prime", "command", "reset"}
             /\ proc[p].file \in 0..MaxNodes
             /\ proc[p].locked => proc[p].pc \in {"probe", "prime", "command"} /\ proc[p].file # 0
             /\ proc[p].script # <<>> => proc[p].locked
  <2>1. IsProc(proc[p], numbers)
    BY DEF AInv
  <2>2. proc[p].file \in 0..MaxNodes
    <3>1. proc[p].file \in 0..numbers /\ numbers \in 1..MaxNodes /\ MaxNodes \in Nat
      BY <2>1, AlienFXAssumption DEF AInv, Things, IsProc
    <3>2. QED
      BY <3>1
  <2>3. QED
    BY <2>1, <2>2 DEF IsProc, Holding
<1>2. ASSUME NEW f \in program PROVE ToSet(f.zones) \subseteq Zones
  <2>1. f \in ColourFrames
    BY DEF AInv, Things
  <2>2. f.zones \in Seq(Zones)
    BY <2>1 DEF ColourFrames
  <2>3. QED
    BY <2>2 DEF ToSet
<1>3. QED
  BY <1>1, <1>2 DEF TypeOK, AInv, Things

-----------------------------------------------------------------------------
\* Every variable of the sessions and of the controller keeps its type; whoever is
\* past the lock holds it and has a node open.
THEOREM AlienFXTyped == Spec => []TypeOK
  BY InitAInv, StepAInv, AInvTypes, PTL DEF Spec

\* A play shows the picture of its own command, whole, for any number of processes,
\* regions and frames, whoever was killed in the middle of what before
\* (SetColorGroups, device.go:216-226, and the lock).
THEOREM PlaysAreOwn == Spec => PlayShowsOwn
<1>1. AInv /\ [Next]_vars =>
        [\A p \in Procs : Plays(p) /\ p \notin disturbed =>
           \A z \in Zones : IF Asked(proc[p].req, z) = {} THEN leds'[z] = leds[z]
                            ELSE leds'[z] \in Asked(proc[p].req, z)]_vars
  BY PlayStep
<1>2. QED
  BY <1>1, InitAInv, StepAInv, PTL DEF Spec, PlayShowsOwn

\* "ok" means done: the zones show and are dimmed as the command asked when it gives
\* the controller up (device.go:175-209).
THEOREM OkIsDone == Spec => OkMeansShown
<1>1. AInv /\ [Next]_vars =>
        [\A p \in Procs :
           proc[p].pc = "command" /\ proc'[p].pc = "idle" /\ proc'[p].code = "ok" /\ p \notin disturbed =>
             /\ \A z \in Zones : Asked(proc[p].req, z) # {} => leds[z] \in AskedLast(proc[p].req, z)
             /\ proc[p].req.verb = "brightness" => \A z \in Zones : dim[z] = 100 - proc[p].req.percent]_vars
  BY OkStep
<1>2. QED
  BY <1>1, InitAInv, StepAInv, PTL DEF Spec, OkMeansShown

\* A controller that a reset has healed is woken, and never given up as wedged
\* (openWithReset and probeWedged, session.go:85-138).
THEOREM WedgedIsTheLastWord == Spec => WedgedOnlyWhenIncurable
<1>1. AInv /\ [Next]_vars =>
        [\A p \in Procs :
           proc[p].pc # "idle" /\ proc'[p].pc = "idle" /\ proc'[p].code = "aw-elc-wedged" =>
             p \in disturbed \/ proc[p].pc = "reset" \/ (proc[p].retried /\ ~proc[p].healed)]_vars
  BY WedgedStep
<1>2. QED
  BY <1>1, InitAInv, StepAInv, PTL DEF Spec, WedgedOnlyWhenIncurable
=============================================================================
