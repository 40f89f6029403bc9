------------------------------ MODULE Keyboard ------------------------------
(***************************************************************************)
(* The keyboard half of the daemon (daemon/keyboard.go over kbd): every    *)
(* call is a D-Bus handler in a goroutine of its own, all of them share    *)
(* one cached device under kbdMu, and the device holds the flock of its    *)
(* node for as long as it is cached.  The keyboard may come and go under   *)
(* the cached handle, another program may hold its node, and the daemon    *)
(* may stop or die at any moment.                                          *)
(*                                                                         *)
(* A call is a record of                                                   *)
(*   pc      "idle", "auth" (polkit asked), "mutex" (waits for kbdMu),     *)
(*           "device" (wants a device), "lock" (its flock is retried),     *)
(*           "send"                                                        *)
(*   req     the command line                                              *)
(*   file    the node it has opened and wants to lock, 0 for none          *)
(*   attempt 1, or 2 once the device has been dropped and is reopened      *)
(*   script  the reports it has still to send                              *)
(*   code    how the last call ended, as the CLI prints it                 *)
(***************************************************************************)
EXTENDS Hidraw, FiniteSets, SequencesExt, ErrorCodes

CONSTANTS
  Callers,                   \* calls that may be in flight together
  Main,                      \* the daemon's main goroutine
  Nobody,                    \* the holder of a free lock
  DefaultKeyLast,            \* keys are 0..DefaultKeyLast, 135 in the code
  MaxKeysPerColorSetFrame,   \* 15 in the code
  Colours, Dark, White,      \* what a key can be asked to show
  Requests,                  \* command lines
  Faults,                    \* of "refuse", "unplug", "foreign", "crash", "stop"
  MaxCalls, MaxNodes         \* bounds: calls made, numbers given to the node

ASSUME KeyboardAssumption ==
  /\ {Dark, White} \subseteq Colours
  /\ Main \notin Callers /\ Nobody \notin Callers \cup {Main}
  /\ DefaultKeyLast \in 0..254 /\ MaxKeysPerColorSetFrame \in Nat \ {0}
  /\ MaxCalls \in Nat /\ MaxNodes \in Nat \ {0}

\* A map is a list of index and colour pairs, whatever these are.
ASSUME RequestsAssumption ==
  \A r \in Requests : r.verb = "set-map" =>
    /\ Len(r.entries) \in Nat
    /\ r.entries = [i \in 1..Len(r.entries) |->
                     [key |-> r.entries[i].key, colour |-> r.entries[i].colour]]

VARIABLES
  call,       \* the calls
  daemon,     \* "serving", "closing" (signalled), "exiting" (closed) or "down"
  kbdMu,      \* who holds the mutex
  kbdDev,     \* the node of the cached device, 0 when it is nil
  files,      \* the nodes the daemon has open, and so locked
  foreign,    \* the node another program has locked, 0 for none
  node,       \* the number of the keyboard's node, 0 when it has none
  numbers,    \* how many numbers the node has had
  staged,     \* colours received since the last reset report
  keys,       \* what each key shows
  made,       \* calls made
  troubled    \* history: calls under which the keyboard went or refused a report

vars == <<call, daemon, kbdMu, kbdDev, files, foreign, node, numbers, staged, keys, made, troubled>>
device == <<kbdDev, files>>
place == <<node, numbers>>
lamps == <<staged, keys>>

Keys == 0..DefaultKeyLast

-----------------------------------------------------------------------------
\* Command lines.  entries is the list of idx=colour pairs, whose index may be
\* out of range and whose colour may be none.

parseKeyColorMapDisplay(entries) ==
  entries # <<>> /\ \A i \in DOMAIN entries : entries[i].colour \in Colours

parseKeyColorMap(entries) ==
  /\ entries # <<>>
  /\ \A i \in DOMAIN entries : entries[i].key \in Keys /\ entries[i].colour \in Colours
  /\ \A i, j \in DOMAIN entries : entries[i].key = entries[j].key => i = j

SetAllKeys(colour) == [i \in 1..(DefaultKeyLast + 1) |-> [key |-> i - 1, colour |-> colour]]

identifyKeyMap(key) ==
  [i \in 1..(DefaultKeyLast + 1) |-> [key |-> i - 1, colour |-> IF i - 1 = key THEN White ELSE Dark]]

\* What a command asks the device for.
Entries(r) ==
  CASE r.verb = "set-map" -> r.entries
    [] r.verb = "set-all" -> SetAllKeys(r.colour)
    [] r.verb = "identify" -> identifyKeyMap(r.key)
    [] r.verb = "off" -> SetAllKeys(Dark)

\* The CLI's own check, before the daemon is called.
CliAccepts(r) ==
  CASE r.verb = "set-map" -> parseKeyColorMapDisplay(r.entries)
    [] r.verb = "set-all" -> r.colour \in Colours
    [] r.verb = "identify" -> r.key \in Keys
    [] r.verb = "off" -> TRUE
    [] OTHER -> FALSE

\* Mutant: nothing clears what an aborted command has staged.
SetKeyColorsOnTop(entries) ==
  LET frames == Chunks(entries, MaxKeysPerColorSetFrame)
  IN  [i \in DOMAIN frames |-> [op |-> "color-set", keys |-> frames[i]]]
        \o <<[op |-> "loop"], [op |-> "update"]>>

SetKeyColors(entries) ==
  LET frames == Chunks(entries, MaxKeysPerColorSetFrame)
  IN  <<[op |-> "reset"]>>
        \o [i \in DOMAIN frames |-> [op |-> "color-set", keys |-> frames[i]]]
        \o <<[op |-> "loop"], [op |-> "update"]>>

-----------------------------------------------------------------------------
Off == [verb |-> "off"]
Ended(code) ==
  [pc |-> "idle", req |-> Off, file |-> 0, attempt |-> 1, script |-> <<>>, code |-> code]

\* A stop of the daemon answers nobody: the bus does, for it.
Cut == [c \in Callers |-> IF call[c].pc = "idle" THEN call[c] ELSE Ended(MapDBusError("NoReply"))]

TypeOK ==
  /\ \A c \in Callers :
       /\ call[c].pc \in {"idle", "auth", "mutex", "device", "lock", "send"}
       /\ call[c].pc \in {"device", "lock", "send"} => kbdMu = c
       /\ call[c].pc = "send" => kbdDev # 0
       /\ call[c].attempt \in 1..2 /\ call[c].file \in 0..MaxNodes
  /\ daemon \in {"serving", "closing", "exiting", "down"}
  /\ kbdMu \in Callers \cup {Main, Nobody}
  /\ kbdDev \in 0..MaxNodes /\ files \subseteq 1..MaxNodes
  /\ foreign \in 0..MaxNodes /\ node \in 0..numbers /\ numbers \in 1..MaxNodes
  /\ staged \subseteq [key : Keys, colour : Colours]
  /\ keys \in [Keys -> Colours]
  /\ made \in 0..MaxCalls /\ troubled \subseteq Callers

Init ==
  /\ call = [c \in Callers |-> Ended("none")]
  /\ daemon = "serving" /\ kbdMu = Nobody /\ kbdDev = 0 /\ files = {}
  /\ foreign = 0 /\ node = 1 /\ numbers = 1
  /\ staged = {} /\ keys = [k \in Keys |-> Dark]
  /\ made = 0 /\ troubled = {}

\* Handlers run while the process does, those that arrive after CloseKeyboard too.
Running == daemon # "down"

Arrive(c, r) ==
  /\ Running /\ call[c].pc = "idle" /\ made < MaxCalls
  /\ made' = made + 1
  /\ call' = [call EXCEPT ![c] = IF CliAccepts(r) THEN [Ended("none") EXCEPT !.pc = "auth", !.req = r]
                                 ELSE Ended("bad-request")]
  /\ troubled' = troubled \ {c}
  /\ UNCHANGED <<daemon, kbdMu, device, foreign, place, lamps>>

\* polkit answers without asking the user, or does not answer in time.
Authorize(c) ==
  /\ call[c].pc = "auth"
  /\ \/ call' = [call EXCEPT ![c] = Ended(CodeOf("denied"))]
     \/ call' = [call EXCEPT ![c] = IF parseKeyColorMap(Entries(@.req)) THEN [@ EXCEPT !.pc = "mutex"]
                                    ELSE Ended(CodeOf("kbd-bad-request"))]
  /\ UNCHANGED <<daemon, kbdMu, device, foreign, place, lamps, made, troubled>>

\* Mutant: the calls are not serialised.
TakeMutexUnlocked(c) ==
  /\ call[c].pc = "mutex"
  /\ kbdMu' = c
  /\ call' = [call EXCEPT ![c].pc = "device"]
  /\ UNCHANGED <<daemon, device, foreign, place, lamps, made, troubled>>

TakeMutex(c) ==
  /\ call[c].pc = "mutex" /\ kbdMu = Nobody
  /\ kbdMu' = c
  /\ call' = [call EXCEPT ![c].pc = "device"]
  /\ UNCHANGED <<daemon, device, foreign, place, lamps, made, troubled>>

\* The call returns and its deferred unlock runs.
Finish(c, err) ==
  /\ call' = [call EXCEPT ![c] = Ended(IF err = "none" THEN "ok" ELSE CodeOf(err))]
  /\ kbdMu' = Nobody

\* When the second attempt finds no device, it is the first one's error that is
\* returned, and every error of a report is an internal one.
GiveUp(c, err) == Finish(c, IF call[c].attempt = 1 THEN err ELSE "kbd-internal")

\* keyboardDevice: the cached device, or the one node that hidraw finds.
GetDevice(c) ==
  /\ call[c].pc = "device"
  /\ IF kbdDev # 0
     THEN /\ call' = [call EXCEPT ![c].pc = "send", ![c].script = SetKeyColors(Entries(call[c].req))]
          /\ UNCHANGED kbdMu
     ELSE IF node = 0 THEN GiveUp(c, "kbd-not-found")
     ELSE call' = [call EXCEPT ![c].pc = "lock", ![c].file = node] /\ UNCHANGED kbdMu
  /\ UNCHANGED <<daemon, device, foreign, place, lamps, made, troubled>>

\* Another open file of the node is locked, of this process or another.
Held(n) == foreign = n \/ n \in files

\* By now the node may be a dead one.
TakeLock(c) ==
  /\ call[c].pc = "lock" /\ ~Held(call[c].file)
  /\ kbdDev' = call[c].file /\ files' = files \cup {call[c].file}
  /\ call' = [call EXCEPT ![c].pc = "device", ![c].file = 0]
  /\ UNCHANGED <<daemon, kbdMu, foreign, place, lamps, made, troubled>>

LockTimesOut(c) ==
  /\ call[c].pc = "lock" /\ Held(call[c].file)
  /\ GiveUp(c, "kbd-busy")
  /\ UNCHANGED <<daemon, device, foreign, place, lamps, made, troubled>>

-----------------------------------------------------------------------------
Connected == kbdDev = node

\* What the firmware does with a report: it shows what has been staged since the
\* last reset report when it is told to update.
Receive(f) ==
  /\ staged' = CASE f.op = "reset" -> {}
                 [] f.op = "color-set" -> staged \cup ToSet(f.keys)
                 [] OTHER -> staged
  /\ keys' = IF f.op = "update"
             THEN [k \in Keys |-> IF \E e \in staged : e.key = k
                                  THEN (CHOOSE e \in staged : e.key = k).colour ELSE keys[k]]
             ELSE keys

Send(c) ==
  /\ call[c].pc = "send" /\ call[c].script # <<>> /\ Connected
  /\ Receive(Head(call[c].script))
  /\ call' = [call EXCEPT ![c].script = Tail(@)]
  /\ UNCHANGED <<daemon, kbdMu, device, foreign, place, made, troubled>>

Return(c) ==
  /\ call[c].pc = "send" /\ call[c].script = <<>>
  /\ Finish(c, "none")
  /\ UNCHANGED <<daemon, device, foreign, place, lamps, made, troubled>>

\* Mutant: the device is forgotten without being closed.
dropKeyboardOpen == kbdDev' = 0 /\ UNCHANGED files

dropKeyboard == kbdDev' = 0 /\ files' = files \ {kbdDev}

\* Mutant: the first error is the caller's.
RetryNever(c) == Finish(c, "kbd-internal")

\* Mutant: the second error is returned with the mutex still held.
RetryHoldingMutex(c) ==
  IF call[c].attempt = 1
  THEN call' = [call EXCEPT ![c].pc = "device", ![c].attempt = 2, ![c].script = <<>>] /\ UNCHANGED kbdMu
  ELSE call' = [call EXCEPT ![c] = Ended("internal")] /\ UNCHANGED kbdMu

Retry(c) ==
  IF call[c].attempt = 1
  THEN call' = [call EXCEPT ![c].pc = "device", ![c].attempt = 2, ![c].script = <<>>] /\ UNCHANGED kbdMu
  ELSE Finish(c, "kbd-internal")

\* A report fails: the node is no longer the keyboard's, or the kernel refuses it.
SendFails(c) ==
  /\ call[c].pc = "send" /\ call[c].script # <<>>
  /\ \/ ~Connected /\ UNCHANGED troubled
     \/ Connected /\ "refuse" \in Faults /\ troubled' = troubled \cup {c}
  /\ dropKeyboard /\ Retry(c)
  /\ UNCHANGED <<daemon, foreign, place, lamps, made>>

-----------------------------------------------------------------------------
\* The daemon's own steps.

Signal ==
  /\ "stop" \in Faults /\ daemon = "serving"
  /\ daemon' = "closing"
  /\ UNCHANGED <<call, kbdMu, device, foreign, place, lamps, made, troubled>>

TakeMutexToClose ==
  /\ daemon = "closing" /\ kbdMu = Nobody
  /\ kbdMu' = Main
  /\ UNCHANGED <<call, daemon, device, foreign, place, lamps, made, troubled>>

CloseKeyboard ==
  /\ daemon = "closing" /\ kbdMu = Main
  /\ dropKeyboard /\ kbdMu' = Nobody /\ daemon' = "exiting"
  /\ UNCHANGED <<call, foreign, place, lamps, made, troubled>>

\* The process is gone, and with it every file it had open.
Gone ==
  /\ daemon' = "down" /\ call' = Cut
  /\ kbdMu' = Nobody /\ kbdDev' = 0 /\ files' = {}
  /\ UNCHANGED <<foreign, place, lamps, made, troubled>>

Exit == daemon = "exiting" /\ Gone

Crash == "crash" \in Faults /\ Running /\ Gone

Restart ==
  /\ daemon = "down"
  /\ daemon' = "serving"
  /\ UNCHANGED <<call, kbdMu, device, foreign, place, lamps, made, troubled>>

-----------------------------------------------------------------------------
\* The keyboard and other programs.

Holding == {c \in Callers : kbdMu = c}

Unplug ==
  /\ "unplug" \in Faults /\ node # 0 /\ numbers < MaxNodes
  /\ node' = 0 /\ staged' = {} /\ keys' = [k \in Keys |-> Dark]
  /\ troubled' = troubled \cup Holding
  /\ UNCHANGED <<call, daemon, kbdMu, device, foreign, numbers, made>>

Plug ==
  /\ node = 0
  /\ node' = numbers + 1 /\ numbers' = numbers + 1
  /\ UNCHANGED <<call, daemon, kbdMu, device, foreign, lamps, made, troubled>>

\* Another program that minds the lock takes it, and gives it back some time.
ForeignLocks ==
  /\ "foreign" \in Faults /\ foreign = 0 /\ node # 0 /\ node \notin files
  /\ foreign' = node
  /\ UNCHANGED <<call, daemon, kbdMu, device, place, lamps, made, troubled>>

ForeignUnlocks ==
  /\ foreign # 0
  /\ foreign' = 0
  /\ UNCHANGED <<call, daemon, kbdMu, device, place, lamps, made, troubled>>

Handler(c) ==
  \/ Authorize(c) \/ TakeMutex(c) \/ GetDevice(c) \/ TakeLock(c) \/ LockTimesOut(c)
  \/ Send(c) \/ Return(c) \/ SendFails(c)

MainStep == TakeMutexToClose \/ CloseKeyboard \/ Exit
World == Signal \/ Crash \/ Restart \/ Unplug \/ Plug \/ ForeignLocks \/ ForeignUnlocks

Next ==
  \/ \E c \in Callers : Handler(c) \/ \E r \in Requests : Arrive(c, r)
  \/ MainStep \/ World

Spec == Init /\ [][Next]_vars

\* The Go scheduler runs handlers and main.
FairSpec == Spec /\ WF_vars(MainStep) /\ \A c \in Callers : WF_vars(Handler(c))
-----------------------------------------------------------------------------
(***************************************************************************)
(* Properties.  troubled are the calls under which the keyboard went away  *)
(* or the kernel refused a report.                                         *)
(***************************************************************************)

\* What request r leaves key k showing.
Wanted(r, k) == {Entries(r)[i].colour : i \in {j \in DOMAIN Entries(r) : Entries(r)[j].key = k}}

\* An update shows the map of the call that sends it, whole, and leaves the other
\* keys alone: no report of another call, nor of an attempt that broke off, is
\* part of it (SetKeyColors, kbd/device.go:86-102, under kbdMu).
UpdateShowsOwn ==
  [][\A c \in Callers :
       call[c].script # <<>> /\ Head(call[c].script).op = "update"
         /\ call'[c].script = Tail(call[c].script) /\ call'[c].pc = "send" =>
       \A k \in Keys : IF Wanted(call[c].req, k) = {} THEN keys'[k] = keys[k]
                       ELSE keys'[k] \in Wanted(call[c].req, k)]_vars

\* A call that the keyboard and the kernel did not trouble does not fail because
\* the keyboard was unplugged and came back earlier, under the cached handle: its
\* one retry finds the new node (applyKeyboard, keyboard.go:60-81).
StaleHandleHeals ==
  [][\A c \in Callers :
       call[c].pc # "idle" /\ call'[c].pc = "idle" /\ call'[c].code = "internal" =>
         c \in troubled' \/ node = 0 \/ foreign # 0]_vars

\* The daemon never locks itself out: it reports a busy keyboard only while
\* another program holds it (dropKeyboard closes before it reopens,
\* keyboard.go:44-52, 70-72).
BusyIsForeign ==
  [][\A c \in Callers :
       call[c].pc # "idle" /\ call'[c].pc = "idle" /\ call'[c].code = "device-busy" =>
         foreign = call[c].file]_vars

\* Every call ends and every stop gets through CloseKeyboard and out, however the
\* calls that still arrive reopen the keyboard behind it (run.go:152-164).
CallsEnd == \A c \in Callers : []<>(call[c].pc = "idle")
StopEnds == []<>(daemon \in {"serving", "down"})
=============================================================================
