------------------------------ MODULE AlienFX ------------------------------
(***************************************************************************)
(* The AlienFX controller and the processes that drive it: every `rgb'     *)
(* verb is a run of alienwarectl of its own, which opens the controller's  *)
(* HID node, locks it, probes it, sends its frames and exits               *)
(* (helper/internal/elc, hidraw, usbreset and the rgb verbs of cli).       *)
(* There is no daemon in between: the lock is all that keeps two of them   *)
(* apart, and a process may be killed between any two frames.              *)
(*                                                                         *)
(* A process is a record of                                                *)
(*   pc       where it is: "idle", "open" (before OpenFile), "lock" (its   *)
(*            flock is being retried), "probe", "prime" (sending the       *)
(*            frames that wake a controller), "command", "reset" (before   *)
(*            a USB reset, its node closed)                                *)
(*   req      the command line                                             *)
(*   file     the node it has open, 0 for none                             *)
(*   locked   it holds the lock of that node                               *)
(*   retried  it has made its USB reset                                    *)
(*   script   the frames it has still to send                              *)
(*   code     how the last command ended                                   *)
(*   healed   its USB reset left a working controller (history)            *)
(***************************************************************************)
EXTENDS Hidraw, FiniteSets, SequencesExt

CONSTANTS
  Procs,                   \* identities of processes, used again and again
  RegionIDs,               \* the regions, in the order of the code's table
  ZoneIDs,                 \* the zones of each region, a sequence
  MaxColorZonesPerFrame,   \* 26 in the code
  MaxTurnOnZonesPerFrame,  \* 28 in the code
  Colours, Dark,           \* what a zone can be asked to show
  Blinks,                  \* of `rgb identify', 3 in the code
  Requests,                \* command lines
  Neighbours,              \* entries of other devices in /sys/class/hidraw
  Faults,                  \* of "kill", "wedge", "busy", "refuse", "incurable", "vanish"
  MaxCommands, MaxNodes    \* bounds: commands started, numbers given to the node

ASSUME AlienFXAssumption ==
  /\ Dark \in Colours
  /\ MaxColorZonesPerFrame \in Nat \ {0} /\ MaxTurnOnZonesPerFrame \in Nat \ {0}
  /\ Blinks \in Nat \ {0} /\ MaxCommands \in Nat /\ MaxNodes \in Nat \ {0}
  /\ \A e \in Neighbours : e.number \notin 1..MaxNodes

\* The table of regions, and the parts of a command line, are lists.
ASSUME TableAssumption ==
  /\ Len(RegionIDs) \in Nat /\ RegionIDs = [i \in 1..Len(RegionIDs) |-> RegionIDs[i]]
  /\ \A i \in DOMAIN RegionIDs :
       LET zones == ZoneIDs[RegionIDs[i]]
       IN  Len(zones) \in Nat /\ zones = [j \in 1..Len(zones) |-> zones[j]]

ASSUME RequestsAssumption ==
  \A r \in Requests : r.verb \in {"set", "set-map", "identify"} =>
    Len(r.parts) \in Nat /\ r.parts = [i \in 1..Len(r.parts) |-> r.parts[i]]

VARIABLES
  proc,       \* the processes
  firmware,   \* "ok", "fresh" (no command since a USB reset), "wedged" or "busy"
  program,    \* the colour frames since the firmware last cleared its program
  leds, dim,  \* what each zone shows, and how much it is dimmed
  node,       \* the number of the controller's hidraw node, 0 when it has none
  numbers,    \* how many numbers the node has had
  product,    \* which of its two product ids the controller has
  started,    \* commands started
  disturbed   \* history: processes under whose session the controller was lost

vars == <<proc, firmware, program, leds, dim, node, numbers, product, started, disturbed>>
controller == <<firmware, program, leds, dim>>
place == <<node, numbers, product>>

VendorID == 6268
DefaultProductID == 1360
AltProductID == 1361
ProductIDs == <<DefaultProductID, AltProductID>>

\* Only the controller itself calls itself by its ids.
ASSUME NeighboursAssumption ==
  \A e \in Neighbours : \A i \in DOMAIN ProductIDs : parseUevent(e.uevent) # <<VendorID, ProductIDs[i]>>

AllZoneIDs == FlattenSeq([i \in DOMAIN RegionIDs |-> ZoneIDs[RegionIDs[i]]])
Zones == ToSet(AllZoneIDs)

-----------------------------------------------------------------------------
\* Command lines.  parts is the list of key=value pairs; a key may be no region
\* and a value no colour.

\* Only a repeated region is for set-map alone to find; the other verbs have one
\* part.
parseRegionColorMap(parts) ==
  /\ parts # <<>>
  /\ \A i \in DOMAIN parts : parts[i].region \in ToSet(RegionIDs) /\ parts[i].colour \in Colours
  /\ \A i, j \in DOMAIN parts : parts[i].region = parts[j].region => i = j

Valid(r) ==
  CASE r.verb \in {"set", "set-map", "identify"} -> parseRegionColorMap(r.parts)
    [] r.verb = "set-all" -> r.colour \in Colours
    [] r.verb = "brightness" -> r.percent \in 0..100
    [] r.verb \in {"status", "off", "reset"} -> TRUE
    [] OTHER -> FALSE

\* Frames: a controller's program is cleared by "remove" and "start-new" and
\* shown by "finish-play"; "wait" is WaitForReady, which reads the status.
Control(type) == [op |-> type]
SetOneColorFrame(colour, zones) == [op |-> "set-one-color", colour |-> colour, zones |-> zones]
TurnOnFrame(percent, zones) == [op |-> "turn-on", dim |-> percent, zones |-> zones]

Reset == <<Control("wait"), Control("remove"), Control("start-new")>>

SetColorZones(colour, zones) ==
  IF zones = <<>> THEN <<SetOneColorFrame(colour, <<>>)>>
  ELSE [i \in DOMAIN Chunks(zones, MaxColorZonesPerFrame) |->
          SetOneColorFrame(colour, Chunks(zones, MaxColorZonesPerFrame)[i])]

Dim(percent, zones) ==
  [i \in DOMAIN Chunks(zones, MaxTurnOnZonesPerFrame) |->
     TurnOnFrame(100 - percent, Chunks(zones, MaxTurnOnZonesPerFrame)[i])]

\* Mutant: what an earlier command left in the controller is not removed.
SetColorGroupsOnTop(groups) ==
  FlattenSeq([i \in DOMAIN groups |-> SetColorZones(groups[i].colour, groups[i].zones)])
    \o <<Control("finish-play")>>

SetColorGroups(groups) ==
  Reset \o FlattenSeq([i \in DOMAIN groups |-> SetColorZones(groups[i].colour, groups[i].zones)])
        \o <<Control("finish-play")>>

SetZoneColor(colour, zones) == SetColorGroups(<<[colour |-> colour, zones |-> zones]>>)

SetMap(parts) ==
  SetColorGroups([i \in DOMAIN parts |->
                    [colour |-> parts[i].colour, zones |-> ZoneIDs[parts[i].region]]])

Identify(part) ==
  FlattenSeq([i \in 1..Blinks |-> SetZoneColor(part.colour, ZoneIDs[part.region])
                                    \o SetZoneColor(Dark, ZoneIDs[part.region])])

\* What a session sends for each command.
Script ==
  [r \in {q \in Requests : Valid(q) /\ q.verb # "reset"} |->
     CASE r.verb \in {"set", "set-map"} -> SetMap(r.parts)
       [] r.verb = "set-all" -> SetZoneColor(r.colour, AllZoneIDs)
       [] r.verb = "off" -> SetZoneColor(Dark, AllZoneIDs)
       [] r.verb = "identify" -> Identify(r.parts[1])
       [] r.verb = "brightness" -> Dim(r.percent, AllZoneIDs)
       [] r.verb = "status" -> <<>>]

-----------------------------------------------------------------------------
Status == [verb |-> "status"]

Ended(code) ==
  [pc |-> "idle", req |-> Status, file |-> 0, locked |-> FALSE,
   retried |-> FALSE, script |-> <<>>, code |-> code, healed |-> FALSE]

TypeOK ==
  /\ \A p \in Procs :
       /\ proc[p].pc \in {"idle", "open", "lock", "probe", "prime", "command", "reset"}
       /\ proc[p].file \in 0..MaxNodes
       /\ proc[p].locked => proc[p].pc \in {"probe", "prime", "command"} /\ proc[p].file # 0
       /\ proc[p].script # <<>> => proc[p].locked
  /\ firmware \in {"ok", "fresh", "wedged", "busy"}
  /\ \A f \in program : ToSet(f.zones) \subseteq Zones
  /\ leds \in [Zones -> Colours \cup {"firmware"}]
  /\ dim \in [Zones -> 0..100]
  /\ node \in 0..numbers /\ numbers \in 1..MaxNodes /\ product \in ToSet(ProductIDs)
  /\ started \in 0..MaxCommands /\ disturbed \subseteq Procs

Init ==
  /\ proc = [p \in Procs |-> Ended("none")]
  /\ firmware = "fresh" /\ program = {}
  /\ leds = [z \in Zones |-> "firmware"] /\ dim = [z \in Zones |-> 0]
  /\ node = 1 /\ numbers = 1 /\ product \in ToSet(ProductIDs)
  /\ started = 0 /\ disturbed = {}

Finish(p, code) == proc' = [proc EXCEPT ![p] = Ended(code)]

\* A node that is no longer the controller's answers every call with an error.
Connected(p) == proc[p].file = node

\* Sessions that a loss of the controller would be felt by.
InSession == {p \in Procs : proc[p].locked \/ proc[p].retried}

\* A verb is checked before anything is opened; `rgb reset' opens no node at all.
Start(p, r) ==
  /\ proc[p].pc = "idle" /\ started < MaxCommands
  /\ started' = started + 1
  /\ disturbed' = disturbed \ {p}
  /\ IF Valid(r)
     THEN proc' = [proc EXCEPT ![p].req = r, ![p].pc = IF r.verb = "reset" THEN "reset" ELSE "open"]
     ELSE Finish(p, "bad-request")
  /\ UNCHANGED <<controller, place>>

-----------------------------------------------------------------------------
\* Opening a session.

Class(n, prod) ==
  Neighbours \cup
  {[number |-> i, name |-> i,
    uevent |-> <<[key |-> "HID_ID", wellFormed |-> TRUE, vendor |-> VendorID, product |-> prod]>>] :
   i \in {n} \ {0}}

\* The first product id for which there is a node.
PathOf(n, prod) ==
  LET found(i) == FindOneByVIDPID(Class(n, prod), VendorID, ProductIDs[i])
      tried == {i \in DOMAIN ProductIDs : found(i) # {}}
  IN  IF tried = {} THEN {}
      ELSE {e.number : e \in found(CHOOSE i \in tried : \A j \in tried : i <= j)}

\* The same for each place of the controller, worked out once.
devicePath == [n \in 0..MaxNodes |-> [prod \in ToSet(ProductIDs) |-> PathOf(n, prod)]]

OpenNode(p) ==
  /\ proc[p].pc = "open"
  /\ IF devicePath[node][product] = {} THEN Finish(p, "aw-elc-not-found")
     ELSE \E n \in devicePath[node][product] : proc' = [proc EXCEPT ![p].file = n, ![p].pc = "lock"]
  /\ UNCHANGED <<controller, place, started, disturbed>>

\* flock belongs to the node a process has open, not to its name.
HeldByAnother(p) == \E q \in Procs \ {p} : proc[q].locked /\ proc[q].file = proc[p].file

TakeLock(p) ==
  /\ proc[p].pc = "lock" /\ ~HeldByAnother(p)
  /\ proc' = [proc EXCEPT ![p].locked = TRUE, ![p].pc = "probe"]
  /\ UNCHANGED <<controller, place, started, disturbed>>

\* Five seconds of attempts, the last of which found the lock held.
LockTimesOut(p) ==
  /\ proc[p].pc = "lock" /\ HeldByAnother(p)
  /\ Finish(p, "aw-elc-busy")
  /\ UNCHANGED <<controller, place, started, disturbed>>

LooksWedged == firmware \in {"fresh", "wedged"}

\* A status that is not all zero, read before or after priming.
ProbeAnswers(p) ==
  /\ proc[p].pc = "probe" \/ (proc[p].pc = "prime" /\ proc[p].script = <<>>)
  /\ Connected(p) /\ ~LooksWedged
  /\ proc' = [proc EXCEPT ![p].pc = "command", ![p].script = Script[proc[p].req]]
  /\ UNCHANGED <<controller, place, started, disturbed>>

\* Mutant: the second attempt takes an all-zero status at its word.
ProbeReadsZeroOnce(p) ==
  /\ proc[p].pc = "probe" /\ Connected(p) /\ LooksWedged
  /\ IF proc[p].retried THEN Finish(p, "aw-elc-wedged")
     ELSE proc' = [proc EXCEPT ![p].pc = "prime", ![p].script = Reset]
  /\ UNCHANGED <<controller, place, started, disturbed>>

\* An all-zero status: the controller may only want waking.
ProbeReadsZero(p) ==
  /\ proc[p].pc = "probe" /\ Connected(p) /\ LooksWedged
  /\ proc' = [proc EXCEPT ![p].pc = "prime", ![p].script = Reset]
  /\ UNCHANGED <<controller, place, started, disturbed>>

\* Mutant: the lock is believed to be held beyond the closing of the node.
StillZeroKeepingLock(p) ==
  /\ proc[p].pc = "prime" /\ proc[p].script = <<>> /\ Connected(p) /\ LooksWedged
  /\ proc' = [proc EXCEPT ![p].pc = "reset", ![p].file = 0]
  /\ UNCHANGED <<controller, place, started, disturbed>>

\* Still zero: the node is closed, and with it the lock given up, before the reset.
StillZero(p) ==
  /\ proc[p].pc = "prime" /\ proc[p].script = <<>> /\ Connected(p) /\ LooksWedged
  /\ IF proc[p].retried THEN Finish(p, "aw-elc-wedged")
     ELSE proc' = [proc EXCEPT ![p].pc = "reset", ![p].file = 0, ![p].locked = FALSE]
  /\ UNCHANGED <<controller, place, started, disturbed>>

\* Locator.find looks for the first product id only, and the node or the ioctl
\* may be refused.
CannotReset(p) ==
  /\ proc[p].pc = "reset"
  /\ \/ /\ node = 0 \/ product # DefaultProductID
        /\ Finish(p, IF proc[p].req.verb = "reset" THEN "aw-elc-not-found" ELSE "aw-elc-wedged")
     \/ /\ "refuse" \in Faults
        /\ Finish(p, IF proc[p].req.verb = "reset" THEN "aw-elc-reset-failed" ELSE "aw-elc-wedged")
  /\ UNCHANGED <<controller, place, started, disturbed>>

\* The controller forgets its program and may come back as another node, after a
\* while (node 0).  A session goes on to its second attempt once it has slept.
USBReset(p) ==
  /\ proc[p].pc = "reset" /\ node # 0 /\ product = DefaultProductID
  /\ firmware' \in {"fresh"} \cup (IF "incurable" \in Faults THEN {"wedged"} ELSE {})
  /\ program' = {}
  /\ node' \in {node} \cup (IF numbers < MaxNodes THEN {0} ELSE {})
  /\ IF proc[p].req.verb = "reset" THEN Finish(p, "ok")
     ELSE proc' = [proc EXCEPT ![p].pc = "open", ![p].retried = TRUE,
                                ![p].healed = (firmware' = "fresh")]
  /\ disturbed' = disturbed \cup (InSession \ {p})
  /\ UNCHANGED <<leds, dim, numbers, product, started>>

-----------------------------------------------------------------------------
\* Sending frames.

\* What the firmware does with a frame.  A wedged one ignores it; any command
\* wakes a fresh one.
Receive(f) ==
  IF firmware = "wedged" THEN UNCHANGED controller
  ELSE /\ firmware' = IF firmware = "fresh" THEN "ok" ELSE firmware
       /\ program' = CASE f.op \in {"remove", "start-new", "finish-play"} -> {}
                       [] f.op = "set-one-color" -> program \cup {f}
                       [] OTHER -> program
       /\ leds' = IF f.op = "finish-play"
                  THEN [z \in Zones |->
                          IF \E c \in program : z \in ToSet(c.zones)
                          THEN (CHOOSE c \in program : z \in ToSet(c.zones)).colour
                          ELSE leds[z]]
                  ELSE leds
       /\ dim' = IF f.op = "turn-on"
                 THEN [z \in Zones |-> IF z \in ToSet(f.zones) THEN f.dim ELSE dim[z]]
                 ELSE dim

Send(p) ==
  /\ proc[p].script # <<>> /\ Head(proc[p].script).op # "wait" /\ Connected(p)
  /\ Receive(Head(proc[p].script))
  /\ proc' = [proc EXCEPT ![p].script = Tail(@)]
  /\ UNCHANGED <<place, started, disturbed>>

\* WaitForReady returns when the status is not busy, zero included.
Ready(p) ==
  /\ proc[p].script # <<>> /\ Head(proc[p].script).op = "wait" /\ Connected(p)
  /\ firmware # "busy"
  /\ proc' = [proc EXCEPT ![p].script = Tail(@)]
  /\ UNCHANGED <<controller, place, started, disturbed>>

\* Mutant: WaitForReady has no deadline.
WaitsForEver(p) == FALSE /\ proc[p].script # <<>> /\ UNCHANGED vars

\* Two seconds of a busy status.
ReadyTimesOut(p) ==
  /\ proc[p].script # <<>> /\ Head(proc[p].script).op = "wait" /\ Connected(p)
  /\ firmware = "busy"
  /\ Finish(p, "aw-elc-timeout")
  /\ UNCHANGED <<controller, place, started, disturbed>>

\* The node it has open is gone.
IOFails(p) ==
  /\ proc[p].locked /\ ~Connected(p)
  /\ Finish(p, "internal")
  /\ UNCHANGED <<controller, place, started, disturbed>>

Return(p) ==
  /\ proc[p].pc = "command" /\ proc[p].script = <<>>
  /\ Finish(p, "ok")
  /\ UNCHANGED <<controller, place, started, disturbed>>

\* The plugin's watchdog, a user's interrupt: the kernel closes the node.
Kill(p) ==
  /\ "kill" \in Faults /\ proc[p].pc # "idle"
  /\ Finish(p, "killed")
  /\ UNCHANGED <<controller, place, started, disturbed>>

-----------------------------------------------------------------------------
\* The controller's own moves.

Lost == disturbed' = disturbed \cup InSession

Wedge ==
  /\ "wedge" \in Faults /\ firmware = "ok" /\ node # 0
  /\ firmware' = "wedged" /\ Lost
  /\ UNCHANGED <<program, leds, dim, proc, place, started>>

TurnBusy ==
  /\ "busy" \in Faults /\ firmware \in {"ok", "busy"}
  /\ firmware' = IF firmware = "ok" THEN "busy" ELSE "ok"
  /\ UNCHANGED <<program, leds, dim, proc, place, started, disturbed>>

\* The machine sleeps, or the controller drops off the bus.
Vanish ==
  /\ "vanish" \in Faults /\ node # 0 /\ numbers < MaxNodes
  /\ node' = 0 /\ firmware' = "fresh" /\ program' = {} /\ Lost
  /\ UNCHANGED <<leds, dim, proc, numbers, product, started>>

Appear ==
  /\ node = 0
  /\ node' = numbers + 1 /\ numbers' = numbers + 1
  /\ UNCHANGED <<controller, proc, product, started, disturbed>>

Opening(p) == OpenNode(p) \/ TakeLock(p) \/ LockTimesOut(p)
Probing(p) == ProbeAnswers(p) \/ ProbeReadsZero(p) \/ StillZero(p) \/ CannotReset(p) \/ USBReset(p)
Driving(p) == Send(p) \/ Ready(p) \/ ReadyTimesOut(p) \/ IOFails(p) \/ Return(p)
Controller == Wedge \/ TurnBusy \/ Vanish \/ Appear

Next ==
  \/ \E p \in Procs : \/ \E r \in Requests : Start(p, r)
                      \/ Opening(p) \/ Probing(p) \/ Driving(p) \/ Kill(p)
  \/ Controller

Spec == Init /\ [][Next]_vars

\* The scheduler runs every process; nothing is assumed of the controller, of
\* kills or of new commands.
FairSpec == Spec /\ \A p \in Procs : WF_vars(Opening(p) \/ Probing(p) \/ Driving(p))
-----------------------------------------------------------------------------
(***************************************************************************)
(* Properties.  disturbed are the processes whose session saw the          *)
(* controller wedge, vanish or be reset by another: no read tells them.    *)
(***************************************************************************)

\* The colours that request r may give zone z, at some play and at its end.
Asked(r, z) ==
  CASE r.verb \in {"set", "set-map"} ->
         {r.parts[i].colour : i \in {j \in DOMAIN r.parts : z \in ToSet(ZoneIDs[r.parts[j].region])}}
    [] r.verb = "identify" -> IF z \in ToSet(ZoneIDs[r.parts[1].region])
                              THEN {r.parts[1].colour, Dark} ELSE {}
    [] r.verb = "set-all" -> {r.colour}
    [] r.verb = "off" -> {Dark}
    [] OTHER -> {}

AskedLast(r, z) == IF r.verb = "identify" THEN Asked(r, z) \cap {Dark} ELSE Asked(r, z)

Plays(p) ==
  /\ proc[p].script # <<>> /\ Head(proc[p].script).op = "finish-play"
  /\ proc'[p] = [proc[p] EXCEPT !.script = Tail(@)]

\* A play shows the picture of the command that sends it, whole, and touches
\* nothing else: no frame of another process, nor of one killed before it was
\* done, is part of it (SetColorGroups, device.go:216-226, and the lock).
PlayShowsOwn ==
  [][\A p \in Procs : Plays(p) /\ p \notin disturbed =>
       \A z \in Zones : IF Asked(proc[p].req, z) = {} THEN leds'[z] = leds[z]
                        ELSE leds'[z] \in Asked(proc[p].req, z)]_vars

\* A command that reports success has done what it was asked when it gives the
\* controller up, in as many frames as it took (device.go:175-209).
OkMeansShown ==
  [][\A p \in Procs :
       proc[p].pc = "command" /\ proc'[p].pc = "idle" /\ proc'[p].code = "ok" /\ p \notin disturbed =>
         /\ \A z \in Zones : Asked(proc[p].req, z) # {} => leds[z] \in AskedLast(proc[p].req, z)
         /\ proc[p].req.verb = "brightness" => \A z \in Zones : dim[z] = 100 - proc[p].req.percent]_vars

\* "wedged" is the last word only after a reset that was refused or did not help:
\* a controller fresh from a reset, which reads all zero as well, is woken and not
\* given up (openWithReset and probeWedged, session.go:85-138).
WedgedOnlyWhenIncurable ==
  [][\A p \in Procs :
       proc[p].pc # "idle" /\ proc'[p].pc = "idle" /\ proc'[p].code = "aw-elc-wedged" =>
         p \in disturbed \/ proc[p].pc = "reset" \/ (proc[p].retried /\ ~proc[p].healed)]_vars

\* Every command ends, whatever the controller does and whoever holds the lock:
\* each wait has a deadline (hidraw.go:103-118, device.go:128-145).
CommandsEnd == \A p \in Procs : []<>(proc[p].pc = "idle")
=============================================================================
