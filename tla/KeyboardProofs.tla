--------------------------- MODULE KeyboardProofs ---------------------------
(***************************************************************************)
(* What the keyboard's callers are told, for any number of calls, nodes    *)
(* and keys.  The invariant: whoever is past kbdMu holds it, so the cached *)
(* device changes under nobody's feet; the one node the daemon has open is *)
(* the cached one, so a call that waits for a flock waits for another      *)
(* program; and a second attempt has the keyboard's own node, unless the   *)
(* keyboard went away under it.                                            *)
(***************************************************************************)
EXTENDS Keyboard, DataProofs

USE KeyboardAssumption

IsCall(r) ==
  r = [pc |-> r.pc, req |-> r.req, file |-> r.file, attempt |-> r.attempt,
       script |-> r.script, code |-> r.code]

Shape == call = [c \in Callers |-> call[c]] /\ \A c \in Callers : IsCall(call[c])

Inside == {"device", "lock", "send"}

MutexHeld == \A c \in Callers : call[c].pc \in Inside => kbdMu = c

OneFile == files = IF kbdDev = 0 THEN {} ELSE {kbdDev}

LocksAfresh == \A c \in Callers : call[c].pc = "lock" => kbdDev = 0 /\ call[c].file # 0

SecondAttempt ==
  \A c \in Callers : call[c].attempt # 1 =>
    /\ call[c].pc \in Inside
    /\ c \notin troubled =>
         /\ call[c].pc = "lock" => call[c].file = node
         /\ call[c].pc = "send" => kbdDev # 0 /\ kbdDev = node
         /\ call[c].pc = "device" => kbdDev = 0 \/ kbdDev = node

KInv == Shape /\ MutexHeld /\ OneFile /\ LocksAfresh /\ SecondAttempt

-----------------------------------------------------------------------------
\* What the codes of the layers below come to at the command line.
LEMMA Codes ==
  /\ CodeOf("denied") = "denied"
  /\ CodeOf("kbd-bad-request") = "bad-request"
  /\ CodeOf("kbd-not-found") = "hw-missing"
  /\ CodeOf("kbd-busy") = "device-busy"
  /\ CodeOf("kbd-internal") = "internal"
  /\ MapDBusError("NoReply") = "no-daemon"
  BY DEF CodeOf, MapDBusError, mapError

LEMMA InitKInv == Init => KInv
  BY DEF Init, KInv, Shape, IsCall, MutexHeld, OneFile, LocksAfresh, SecondAttempt, Ended, Inside

\* A step of one caller leaves the records of the others as they are.
LEMMA ShapeStep ==
  ASSUME Shape, [Next]_vars
  PROVE  Shape'
<1> USE DEF Shape, IsCall, Ended
<1>1. ASSUME NEW c \in Callers, Handler(c) PROVE Shape'
  <2>1. CASE Authorize(c)
    BY <2>1 DEF Authorize
  <2>2. CASE TakeMutex(c) \/ TakeLock(c) \/ Send(c)
    BY <2>2 DEF TakeMutex, TakeLock, Send
  <2>3. CASE GetDevice(c)
    BY <2>3 DEF GetDevice, GiveUp, Finish
  <2>4. CASE LockTimesOut(c)
    BY <2>4 DEF LockTimesOut, GiveUp, Finish
  <2>5. CASE Return(c)
    BY <2>5 DEF Return, Finish
  <2>6. CASE SendFails(c)
    BY <2>6 DEF SendFails, Retry, Finish
  <2>7. QED
    BY <1>1, <2>1, <2>2, <2>3, <2>4, <2>5, <2>6 DEF Handler
<1>2. ASSUME NEW c \in Callers, NEW r \in Requests, Arrive(c, r) PROVE Shape'
  BY <1>2 DEF Arrive
<1>3. CASE Exit \/ Crash
  BY <1>3 DEF Exit, Crash, Gone, Cut
<1>4. CASE UNCHANGED call
  BY <1>4
<1>5. CASE MainStep \/ World
  BY <1>3, <1>4, <1>5 DEF MainStep, World, TakeMutexToClose, CloseKeyboard, Signal, Restart,
                          Unplug, Plug, ForeignLocks, ForeignUnlocks
<1>6. QED
  BY <1>1, <1>2, <1>4, <1>5 DEF Next, vars

\* The other callers' records.
LEMMA OthersStay ==
  ASSUME Shape, NEW c \in Callers, Handler(c), NEW d \in Callers \ {c}
  PROVE  call'[d] = call[d]
<1> USE DEF Shape
<1>1. CASE Authorize(c) \/ TakeMutex(c) \/ TakeLock(c) \/ Send(c)
  BY <1>1 DEF Authorize, TakeMutex, TakeLock, Send
<1>2. CASE GetDevice(c) \/ LockTimesOut(c) \/ Return(c) \/ SendFails(c)
  BY <1>2 DEF GetDevice, LockTimesOut, Return, SendFails, GiveUp, Finish, Retry
<1>3. QED
  BY <1>1, <1>2 DEF Handler

LEMMA HandlerKeeps ==
  ASSUME KInv, NEW c \in Callers, Handler(c)
  PROVE  (MutexHeld /\ OneFile /\ LocksAfresh /\ SecondAttempt)'
<1> DEFINE Goal == (MutexHeld /\ OneFile /\ LocksAfresh /\ SecondAttempt)'
<1> USE DEF KInv, MutexHeld, OneFile, LocksAfresh, SecondAttempt, Inside, device, place, lamps
<1>0. \A d \in Callers \ {c} : call'[d] = call[d]
  BY OthersStay
<1>1. CASE Authorize(c)
  BY <1>0, <1>1 DEF Authorize, Shape, IsCall, Ended
<1>2. CASE TakeMutex(c)
  <2>1. \A d \in Callers : call[d].pc \notin Inside
    BY <1>2 DEF TakeMutex
  <2>2. call'[c].pc = "device" /\ call'[c].attempt = 1
    BY <1>2, <2>1 DEF TakeMutex, Shape, IsCall
  <2>3. QED
    BY <1>0, <1>2, <2>1, <2>2 DEF TakeMutex
<1>3. CASE GetDevice(c)
  <2>1. CASE kbdDev # 0
    <3>1. call'[c].pc = "send" /\ call'[c].attempt = call[c].attempt
      BY <1>3, <2>1 DEF GetDevice, Shape, IsCall
    <3>2. UNCHANGED <<kbdMu, kbdDev, files, node, troubled>> /\ call[c].pc = "device"
      BY <1>3, <2>1 DEF GetDevice
    <3>3. QED
      BY <1>0, <2>1, <3>1, <3>2
  <2>2. CASE kbdDev = 0 /\ node = 0
    BY <1>0, <1>3, <2>2 DEF GetDevice, GiveUp, Finish, Ended, Shape, IsCall
  <2>3. CASE kbdDev = 0 /\ node # 0
    <3>0. call' = [call EXCEPT ![c].pc = "lock", ![c].file = node]
      BY <1>3, <2>3 DEF GetDevice
    <3>1. call'[c].pc = "lock" /\ call'[c].attempt = call[c].attempt /\ call'[c].file = node
      <4>1. PICK r : r = call[c] /\ IsCall(r)
        BY DEF Shape
      <4>2. call'[c] = [r EXCEPT !.pc = "lock", !.file = node]
        BY <3>0, <4>1 DEF Shape
      <4>3. DOMAIN r = {"pc", "req", "file", "attempt", "script", "code"}
        BY <4>1 DEF IsCall
      <4>4. QED
        BY <4>1, <4>2, <4>3
    <3>2. UNCHANGED <<kbdMu, kbdDev, files, node, troubled>> /\ call[c].pc = "device"
      BY <1>3, <2>3 DEF GetDevice
    <3>3. QED
      BY <1>0, <2>3, <3>1, <3>2
  <2>4. QED
    BY <2>1, <2>2, <2>3
<1>4. CASE TakeLock(c)
  <2>1. call'[c].pc = "device" /\ call'[c].attempt = call[c].attempt
    BY <1>4 DEF TakeLock, Shape, IsCall
  <2>2. \A d \in Callers \ {c} : call[d].pc \notin Inside
    BY <1>4 DEF TakeLock
  <2>3. kbdDev = 0 /\ call[c].file # 0 /\ kbdMu = c /\ call[c].pc = "lock"
    BY <1>4 DEF TakeLock
  <2>4. kbdDev' = call[c].file /\ files' = {call[c].file} /\ UNCHANGED <<kbdMu, node, troubled>>
    BY <1>4, <2>3 DEF TakeLock
  <2>5. QED
    BY <1>0, <2>1, <2>2, <2>3, <2>4
<1>5. CASE LockTimesOut(c)
  BY <1>0, <1>5 DEF LockTimesOut, GiveUp, Finish, Ended, Shape, IsCall
<1>6. CASE Send(c)
  BY <1>0, <1>6 DEF Send, Shape, IsCall
<1>7. CASE Return(c)
  BY <1>0, <1>7 DEF Return, Finish, Ended, Shape, IsCall
<1>8. CASE SendFails(c)
  <2>1. \A d \in Callers \ {c} : call[d].pc \notin Inside
    BY <1>8 DEF SendFails
  <2>2. kbdDev' = 0 /\ files' = {} /\ troubled \subseteq troubled' /\ node' = node
    BY <1>8 DEF SendFails, dropKeyboard
  <2>3. CASE call[c].attempt = 1
    <3>1. call'[c].pc = "device" /\ kbdMu' = kbdMu /\ kbdMu = c
      BY <1>8, <2>3 DEF SendFails, Retry, Shape, IsCall
    <3>2. QED
      BY <1>0, <2>1, <2>2, <3>1
  <2>4. CASE call[c].attempt # 1
    BY <1>0, <1>8, <2>1, <2>2, <2>4 DEF SendFails, Retry, Finish, Ended, Shape, IsCall
  <2>5. QED
    BY <2>3, <2>4
<1>9. QED
  BY <1>1, <1>2, <1>3, <1>4, <1>5, <1>6, <1>7, <1>8 DEF Handler

LEMMA StepKInv == KInv /\ [Next]_vars => KInv'
<1> SUFFICES ASSUME KInv, [Next]_vars PROVE KInv'
  OBVIOUS
<1> DEFINE Goal == (MutexHeld /\ OneFile /\ LocksAfresh /\ SecondAttempt)'
<1>0. Shape'
  BY ShapeStep DEF KInv
<1> SUFFICES Goal
  BY <1>0 DEF KInv
<1> USE DEF KInv, MutexHeld, OneFile, LocksAfresh, SecondAttempt, Inside, device, place, lamps
<1>1. ASSUME NEW c \in Callers, Handler(c) PROVE Goal
  BY <1>1, HandlerKeeps
<1>2. ASSUME NEW c \in Callers, NEW r \in Requests, Arrive(c, r) PROVE Goal
  BY <1>2 DEF Arrive, Ended, Shape, IsCall
<1>3. CASE Exit \/ Crash
  BY <1>3 DEF Exit, Crash, Gone, Cut, Ended, Shape
<1>4. CASE Signal \/ Restart \/ ForeignLocks \/ ForeignUnlocks
  BY <1>4 DEF Signal, Restart, ForeignLocks, ForeignUnlocks
<1>5. CASE TakeMutexToClose \/ CloseKeyboard
  <2>1. \A c \in Callers : call[c].pc \notin Inside
    BY <1>5 DEF TakeMutexToClose, CloseKeyboard
  <2>2. QED
    BY <1>5, <2>1 DEF TakeMutexToClose, CloseKeyboard, dropKeyboard
<1>6. CASE Unplug
  BY <1>6 DEF Unplug, Holding
<1>7. CASE Plug
  BY <1>7 DEF Plug
<1>8. CASE UNCHANGED vars
  BY <1>8 DEF vars
<1>9. QED
  BY <1>1, <1>2, <1>3, <1>4, <1>5, <1>6, <1>7, <1>8 DEF Next, MainStep, World

-----------------------------------------------------------------------------
\* How a call can end: with the code of its own step.
Ends(c) == call[c].pc # "idle" /\ call'[c].pc = "idle"

LEMMA BusyStep ==
  ASSUME KInv, [Next]_vars, NEW c \in Callers, Ends(c), call'[c].code = "device-busy"
  PROVE  foreign = call[c].file
<1> USE Codes DEF Ends, KInv
<1>1. ASSUME Handler(c) PROVE foreign = call[c].file
  <2>1. CASE Authorize(c)
    BY <2>1 DEF Authorize, Ended, Shape, IsCall
  <2>2. CASE TakeMutex(c) \/ TakeLock(c) \/ Send(c)
    BY <2>2 DEF TakeMutex, TakeLock, Send, Shape, IsCall
  <2>3. CASE GetDevice(c)
    BY <2>3 DEF GetDevice, GiveUp, Finish, Ended, Shape, IsCall
  <2>4. CASE LockTimesOut(c)
    BY <2>4 DEF LockTimesOut, Held, OneFile, LocksAfresh
  <2>5. CASE Return(c) \/ SendFails(c)
    BY <2>5 DEF Return, SendFails, Retry, Finish, Ended, Shape, IsCall
  <2>6. QED
    BY <1>1, <2>1, <2>2, <2>3, <2>4, <2>5 DEF Handler
<1>2. ASSUME NEW d \in Callers \ {c}, Handler(d) PROVE FALSE
  BY <1>2, OthersStay
<1>3. ASSUME NEW d \in Callers, NEW r \in Requests, Arrive(d, r) PROVE FALSE
  BY <1>3 DEF Arrive, Shape
<1>4. CASE Exit \/ Crash
  BY <1>4 DEF Exit, Crash, Gone, Cut, Ended
<1>5. CASE UNCHANGED call
  BY <1>5
<1>6. QED
  BY <1>1, <1>2, <1>3, <1>4, <1>5 DEF Next, MainStep, World, TakeMutexToClose, CloseKeyboard, Signal,
     Restart, Unplug, Plug, ForeignLocks, ForeignUnlocks, vars

LEMMA InternalStep ==
  ASSUME KInv, [Next]_vars, NEW c \in Callers, Ends(c), call'[c].code = "internal"
  PROVE  c \in troubled' \/ node = 0 \/ foreign # 0
<1> DEFINE Goal == c \in troubled' \/ node = 0 \/ foreign # 0
<1> USE Codes DEF Ends, KInv
<1>1. ASSUME Handler(c) PROVE Goal
  <2>1. CASE Authorize(c)
    BY <2>1 DEF Authorize, Ended, Shape, IsCall
  <2>2. CASE TakeMutex(c) \/ TakeLock(c) \/ Send(c)
    BY <2>2 DEF TakeMutex, TakeLock, Send, Shape, IsCall
  <2>3. CASE GetDevice(c)
    BY <2>3 DEF GetDevice, GiveUp, Finish, Ended, Shape, IsCall
  <2>4. CASE LockTimesOut(c)
    BY <2>4 DEF LockTimesOut, Held, OneFile, LocksAfresh
  <2>5. CASE Return(c)
    BY <2>5 DEF Return, Finish, Ended, Shape, IsCall
  <2>6. CASE SendFails(c)
    <3>1. call[c].attempt # 1
      BY <2>6 DEF SendFails, Retry, Shape, IsCall
    <3>2. QED
      BY <2>6, <3>1 DEF SendFails, Connected, SecondAttempt
  <2>7. QED
    BY <1>1, <2>1, <2>2, <2>3, <2>4, <2>5, <2>6 DEF Handler
<1>2. ASSUME NEW d \in Callers \ {c}, Handler(d) PROVE FALSE
  BY <1>2, OthersStay
<1>3. ASSUME NEW d \in Callers, NEW r \in Requests, Arrive(d, r) PROVE FALSE
  BY <1>3 DEF Arrive, Shape
<1>4. CASE Exit \/ Crash
  BY <1>4 DEF Exit, Crash, Gone, Cut, Ended
<1>5. CASE UNCHANGED call
  BY <1>5
<1>6. QED
  BY <1>1, <1>2, <1>3, <1>4, <1>5 DEF Next, MainStep, World, TakeMutexToClose, CloseKeyboard, Signal,
     Restart, Unplug, Plug, ForeignLocks, ForeignUnlocks, vars

-----------------------------------------------------------------------------
\* The daemon reports a busy keyboard only while another program holds its node: it
\* never waits for a lock of its own (keyboardDevice and dropKeyboard,
\* keyboard.go:32-52).
THEOREM NeverLocksItselfOut == Spec => BusyIsForeign
<1>1. KInv /\ [Next]_vars =>
        [\A c \in Callers :
           call[c].pc # "idle" /\ call'[c].pc = "idle" /\ call'[c].code = "device-busy" =>
             foreign = call[c].file]_vars
  BY BusyStep DEF Ends
<1>2. QED
  BY <1>1, InitKInv, StepKInv, PTL DEF Spec, BusyIsForeign

\* A keyboard that was unplugged and is back costs no call its answer: the retry has
\* the new node (applyKeyboard, keyboard.go:60-81).
THEOREM RetryHeals == Spec => StaleHandleHeals
<1>1. KInv /\ [Next]_vars =>
        [\A c \in Callers :
           call[c].pc # "idle" /\ call'[c].pc = "idle" /\ call'[c].code = "internal" =>
             c \in troubled' \/ node = 0 \/ foreign # 0]_vars
  BY InternalStep DEF Ends
<1>2. QED
  BY <1>1, InitKInv, StepKInv, PTL DEF Spec, StaleHandleHeals
-----------------------------------------------------------------------------
(***************************************************************************)
(* What a call sends.  A command is cut into frames that hold its entries, *)
(* all of them and no other; it starts with the one report that forgets    *)
(* what was staged and ends with the one that shows it.                    *)
(***************************************************************************)
EntrySet == [key : Keys, colour : Colours]
Reports == [op : {"reset", "loop", "update"}] \cup [op : {"color-set"}, keys : Seq(EntrySet)]

\* What has been staged once the first n reports of a command are sent.
StagedBy(reports, n) ==
  UNION {ToSet(reports[i].keys) : i \in {j \in 1..n : reports[j].op = "color-set"}}

\* The reports of a command: what each of them is, and what they stage in all.
LEMMA CommandReports ==
  ASSUME NEW entries \in Seq(EntrySet)
  PROVE  LET w == SetKeyColors(entries)
         IN  /\ w \in Seq(Reports) /\ Len(w) > 2
             /\ \A i \in 1..Len(w) : w[i].op = "reset" <=> i = 1
             /\ \A i \in 1..Len(w) : w[i].op = "update" <=> i = Len(w)
             /\ StagedBy(w, Len(w) - 1) = ToSet(entries)
<1> DEFINE n == MaxKeysPerColorSetFrame
           frames == Chunks(entries, n)
           head == <<[op |-> "reset"]>>
           report(i) == [op |-> "color-set", keys |-> frames[i]]
           body == [i \in DOMAIN frames |-> report(i)]
           tail == <<[op |-> "loop"], [op |-> "update"]>>
           K == Len(frames)
           w == SetKeyColors(entries)
<1>0. w = head \o body \o tail
  BY DEF SetKeyColors
<1>1. frames \in Seq(Seq(EntrySet)) /\ UNION {ToSet(frames[i]) : i \in DOMAIN frames} = ToSet(entries)
  <2>1. n \in Nat \ {0}
    OBVIOUS
  <2> HIDE DEF n
  <2>2. QED
    BY <2>1, ChunksCover
<1> HIDE DEF frames
<1>2. K \in Nat /\ DOMAIN frames = 1..K /\ \A i \in 1..K : frames[i] \in Seq(EntrySet)
  BY <1>1
<1>3. UNION {ToSet(frames[i]) : i \in 1..K} = ToSet(entries)
  BY <1>1, <1>2
<1> HIDE DEF K
<1>4. \A i \in 1..K : report(i) \in Reports /\ report(i).op = "color-set" /\ report(i).keys = frames[i]
  BY <1>2 DEF Reports
<1> HIDE DEF report
<1>5. body \in Seq(Reports) /\ Len(body) = K /\ \A i \in 1..K : body[i] = report(i)
  BY <1>2, <1>4
<1>6. head \in Seq(Reports) /\ tail \in Seq(Reports) /\ Len(head) = 1 /\ Len(tail) = 2
      /\ head[1].op = "reset" /\ tail[1].op = "loop" /\ tail[2].op = "update"
  BY DEF Reports
<1> HIDE DEF head, body, tail, w
<1>7. w \in Seq(Reports) /\ Len(w) = K + 3 /\ w[1] = head[1] /\ w[K + 2] = tail[1] /\ w[K + 3] = tail[2]
      /\ \A i \in 1..K : w[1 + i] = report(i)
  <2> DEFINE hb == head \o body
  <2>1. /\ hb \in Seq(Reports) /\ Len(hb) = Len(head) + Len(body)
        /\ \A i \in 1..Len(head) : hb[i] = head[i]
        /\ \A i \in 1..Len(body) : hb[Len(head) + i] = body[i]
    <3>1. head \in Seq(Reports) /\ body \in Seq(Reports)
      BY <1>5, <1>6
    <3>2. QED
      BY <3>1, Joined
  <2> HIDE DEF hb
  <2>2. hb \in Seq(Reports) /\ Len(hb) = 1 + K /\ hb[1] = head[1] /\ \A i \in 1..K : hb[1 + i] = report(i)
    BY <1>2, <1>5, <1>6, <2>1
  <2>3. /\ w \in Seq(Reports) /\ Len(w) = Len(hb) + Len(tail)
        /\ \A i \in 1..Len(hb) : w[i] = hb[i]
        /\ \A i \in 1..Len(tail) : w[Len(hb) + i] = tail[i]
    <3>1. hb \in Seq(Reports) /\ tail \in Seq(Reports)
      BY <1>6, <2>1
    <3>2. w = hb \o tail
      BY <1>0 DEF hb
    <3>3. QED
      BY <3>1, <3>2, Joined
  <2>4. 1 \in 1..Len(hb) /\ \A i \in 1..K : 1 + i \in 1..Len(hb)
    BY <1>2, <2>2
  <2>5. \A i \in 1..K : w[1 + i] = report(i)
    BY <2>2, <2>3, <2>4
  <2>6. w[1] = head[1]
    BY <2>2, <2>3, <2>4
  <2>7. Len(hb) + 1 = K + 2 /\ Len(hb) + 2 = K + 3
    BY <1>2, <2>2
  <2>8. w[K + 2] = tail[1] /\ w[K + 3] = tail[2]
    BY <1>6, <2>3, <2>7
  <2>9. QED
    BY <1>6, <2>3, <2>5, <2>6, <2>7, <2>8
<1>8. \A i \in 2..(K + 1) : w[i].op = "color-set" /\ w[i].keys = frames[i - 1]
  <2>1. ASSUME NEW i \in 2..(K + 1) PROVE w[i].op = "color-set" /\ w[i].keys = frames[i - 1]
    <3>1. i - 1 \in 1..K /\ 1 + (i - 1) = i
      BY <1>2
    <3>2. w[i] = report(i - 1)
      BY <1>7, <3>1
    <3>3. QED
      BY <1>4, <3>1, <3>2
  <2>2. QED
    BY <2>1
<1>9. \A i \in 1..Len(w) : i = 1 \/ i \in 2..(K + 1) \/ i = K + 2 \/ i = Len(w)
  BY <1>2, <1>7
<1>10. StagedBy(w, Len(w) - 1) = ToSet(entries)
  <2>1. Len(w) - 1 = K + 2 /\ \A j \in 1..(K + 2) : w[j].op = "color-set" <=> j \in 2..(K + 1)
    BY <1>2, <1>6, <1>7, <1>8, <1>9
  <2>2. {j \in 1..(K + 2) : w[j].op = "color-set"} = 2..(K + 1)
    BY <1>2, <2>1
  <2>3. StagedBy(w, Len(w) - 1) = UNION {ToSet(w[i].keys) : i \in 2..(K + 1)}
    BY <2>1, <2>2 DEF StagedBy
  <2>4. \A i \in 2..(K + 1) : i - 1 \in 1..K /\ w[i].keys = frames[i - 1]
    BY <1>2, <1>8
  <2>5. ASSUME NEW i \in 1..K PROVE i + 1 \in 2..(K + 1) /\ w[i + 1].keys = frames[i]
    <3>1. i + 1 \in 2..(K + 1) /\ i + 1 - 1 = i
      BY <1>2
    <3>2. QED
      BY <1>8, <3>1
  <2>6. UNION {ToSet(w[i].keys) : i \in 2..(K + 1)} = UNION {ToSet(frames[i]) : i \in 1..K}
    BY <2>4, <2>5
  <2>7. QED
    BY <1>3, <2>3, <2>6
<1>11. ASSUME NEW i \in 1..Len(w) PROVE (w[i].op = "reset" <=> i = 1) /\ (w[i].op = "update" <=> i = Len(w))
  <2>1. CASE i = 1
    BY <1>2, <1>6, <1>7, <2>1
  <2>2. CASE i \in 2..(K + 1)
    BY <1>2, <1>7, <1>8, <2>2
  <2>3. CASE i = K + 2
    BY <1>2, <1>6, <1>7, <2>3
  <2>4. CASE i = Len(w)
    BY <1>2, <1>6, <1>7, <2>4
  <2>5. QED
    BY <1>9, <2>1, <2>2, <2>3, <2>4
<1>12. w \in Seq(Reports) /\ Len(w) > 2
  BY <1>2, <1>7
<1>13. QED
  BY <1>10, <1>11, <1>12 DEF w

\* A command that was let through asks for keys of the keyboard in its colours.
LEMMA EntriesTyped ==
  ASSUME NEW r \in Requests, CliAccepts(r), parseKeyColorMap(Entries(r))
  PROVE  Entries(r) \in Seq(EntrySet)
<1>1. CASE r.verb = "set-map"
  <2>1. Entries(r) = r.entries
    BY <1>1 DEF Entries
  <2>2. \A i \in 1..Len(r.entries) : [key |-> r.entries[i].key, colour |-> r.entries[i].colour] \in EntrySet
    BY <1>1, <2>1 DEF parseKeyColorMap, EntrySet
  <2>3. Len(r.entries) \in Nat /\ r.entries = [i \in 1..Len(r.entries) |->
                        [key |-> r.entries[i].key, colour |-> r.entries[i].colour]]
    BY <1>1, RequestsAssumption
  <2> DEFINE n == Len(r.entries)
             e(i) == [key |-> r.entries[i].key, colour |-> r.entries[i].colour]
  <2> HIDE DEF n, e
  <2>4. n \in Nat /\ r.entries = [i \in 1..n |-> e(i)]
    BY <2>3 DEF n, e
  <2>5. \A i \in 1..n : e(i) \in EntrySet
    BY <2>2 DEF n, e
  <2>6. [i \in 1..n |-> e(i)] \in Seq(EntrySet)
    BY <2>4, <2>5
  <2>7. QED
    BY <2>1, <2>4, <2>6
<1>2. DefaultKeyLast + 1 \in Nat /\ \A i \in 1..(DefaultKeyLast + 1) : i - 1 \in Keys
  BY DEF Keys
<1>3. ASSUME NEW colour \in Colours PROVE SetAllKeys(colour) \in Seq(EntrySet)
  <2>1. \A i \in 1..(DefaultKeyLast + 1) : [key |-> i - 1, colour |-> colour] \in EntrySet
    BY <1>2 DEF EntrySet
  <2>2. QED
    BY <1>2, <2>1 DEF SetAllKeys
<1>4. \A key : identifyKeyMap(key) \in Seq(EntrySet)
  BY <1>2 DEF identifyKeyMap, EntrySet
<1>5. CASE r.verb \in {"set-all", "identify", "off"}
  BY <1>3, <1>4, <1>5 DEF Entries, CliAccepts
<1>6. QED
  BY <1>1, <1>5 DEF CliAccepts

-----------------------------------------------------------------------------
(***************************************************************************)
(* What the keyboard shows.  The invariant: a call past polkit asks for    *)
(* what is typed; a node that went away never comes back under its old     *)
(* number; and while the cached device is the keyboard's, what has been    *)
(* staged since the call's reset report is what the call has sent.         *)
(***************************************************************************)
Asks ==
  \A c \in Callers : call[c].pc # "idle" =>
    /\ call[c].req \in Requests /\ CliAccepts(call[c].req)
    /\ call[c].pc # "auth" => parseKeyColorMap(Entries(call[c].req))

Numbered ==
  /\ node \in {0, numbers} /\ node = 0 => numbers < MaxNodes
  /\ kbdDev \in 0..numbers
  /\ \A c \in Callers : call[c].file \in 0..numbers

Whole(c) == SetKeyColors(Entries(call[c].req))
SentBy(c) == Len(Whole(c)) - Len(call[c].script)

StagedFor(c) ==
  /\ call[c].pc # "send" => call[c].script = <<>>
  /\ call[c].pc = "send" =>
       /\ call[c].script \in Seq(Reports) /\ Len(call[c].script) <= Len(Whole(c))
       /\ \A i \in 1..Len(call[c].script) : call[c].script[i] = Whole(c)[SentBy(c) + i]
       /\ Connected /\ SentBy(c) > 0 => staged = StagedBy(Whole(c), SentBy(c))

Staging == \A c \in Callers : StagedFor(c)

ShowInv == TypeOK /\ Asks /\ Numbered /\ Staging

\* A call that is not in the middle of its reports, or whose device nobody touches.
LEMMA StagedKept ==
  ASSUME NEW d \in Callers, StagedFor(d), call'[d] = call[d],
         call[d].pc = "send" /\ Connected' => Connected /\ staged' = staged
  PROVE  StagedFor(d)'
  BY DEF StagedFor, Whole, SentBy

LEMMA StagedIdle ==
  ASSUME NEW d \in Callers, call'[d].pc # "send", call'[d].script = <<>>
  PROVE  StagedFor(d)'
  BY DEF StagedFor

\* Head and tail of what is left to send.
LEMMA SentHead ==
  ASSUME ShowInv, NEW c \in Callers, call[c].pc = "send", call[c].script # <<>>
  PROVE  LET w == Whole(c)
             n == SentBy(c)
         IN  /\ Entries(call[c].req) \in Seq(EntrySet)
             /\ n \in 0..(Len(w) - 1) /\ Len(w) \in Nat
             /\ Head(call[c].script) = w[n + 1] /\ w[n + 1] \in Reports
             /\ w[n + 1].op = "reset" <=> n = 0
             /\ w[n + 1].op = "update" <=> n + 1 = Len(w)
             /\ StagedBy(w, Len(w) - 1) = ToSet(Entries(call[c].req))
<1> DEFINE w == Whole(c)
           n == SentBy(c)
           s == call[c].script
<1>1. Entries(call[c].req) \in Seq(EntrySet)
  BY EntriesTyped DEF ShowInv, Asks
<1>2. /\ w \in Seq(Reports) /\ Len(w) > 2
      /\ \A i \in 1..Len(w) : w[i].op = "reset" <=> i = 1
      /\ \A i \in 1..Len(w) : w[i].op = "update" <=> i = Len(w)
      /\ StagedBy(w, Len(w) - 1) = ToSet(Entries(call[c].req))
  BY <1>1, CommandReports DEF Whole
<1>3. s \in Seq(Reports) /\ Len(s) <= Len(w) /\ n = Len(w) - Len(s) /\ s # <<>>
      /\ \A i \in 1..Len(s) : s[i] = w[n + i]
  BY DEF ShowInv, Staging, StagedFor, SentBy
<1> HIDE DEF w, n, s
<1>4. Len(s) \in Nat \ {0} /\ Len(w) \in Nat /\ Head(s) = s[1] /\ n + 1 \in 1..Len(w) /\ w[n + 1] \in Reports
  BY <1>2, <1>3
<1>5. n \in 0..(Len(w) - 1) /\ Head(s) = w[n + 1]
  BY <1>3, <1>4
<1>6. (w[n + 1].op = "reset" <=> n = 0) /\ (w[n + 1].op = "update" <=> n + 1 = Len(w))
  BY <1>2, <1>4, <1>5
<1>7. QED
  BY <1>1, <1>2, <1>4, <1>5, <1>6 DEF w, n, s

\* What is staged after one more report.
LEMMA StagedByNext ==
  ASSUME NEW w \in Seq(Reports), NEW n \in Nat, n < Len(w)
  PROVE  StagedBy(w, n + 1) =
           IF w[n + 1].op = "color-set" THEN StagedBy(w, n) \cup ToSet(w[n + 1].keys) ELSE StagedBy(w, n)
<1> DEFINE sets(m) == {j \in 1..m : w[j].op = "color-set"}
<1>1. sets(n + 1) = IF w[n + 1].op = "color-set" THEN sets(n) \cup {n + 1} ELSE sets(n)
  <2>1. 1..(n + 1) = (1..n) \cup {n + 1}
    OBVIOUS
  <2>2. QED
    BY <2>1
<1> HIDE DEF sets
<1>2. StagedBy(w, n) = UNION {ToSet(w[i].keys) : i \in sets(n)}
      /\ StagedBy(w, n + 1) = UNION {ToSet(w[i].keys) : i \in sets(n + 1)}
  BY DEF StagedBy, sets
<1>3. CASE w[n + 1].op = "color-set"
  <2>1. UNION {ToSet(w[i].keys) : i \in sets(n) \cup {n + 1}}
          = (UNION {ToSet(w[i].keys) : i \in sets(n)}) \cup ToSet(w[n + 1].keys)
    OBVIOUS
  <2>2. QED
    BY <1>1, <1>2, <1>3, <2>1
<1>4. QED
  BY <1>1, <1>2, <1>3

\* One report: the staged entries follow what the call has sent, and every key
\* keeps a colour.
LEMMA SendShows ==
  ASSUME KInv, ShowInv, NEW c \in Callers, Send(c)
  PROVE  /\ StagedFor(c)'
         /\ staged' \subseteq EntrySet /\ keys' \in [Keys -> Colours]
<1> DEFINE w == Whole(c)
           n == SentBy(c)
           s == call[c].script
<1>1. call[c].pc = "send" /\ s # <<>> /\ Connected /\ Receive(w[n + 1])
  BY SentHead DEF Send
<1>2. /\ w \in Seq(Reports) /\ Len(w) \in Nat /\ n \in 0..(Len(w) - 1) /\ w[n + 1] \in Reports
      /\ w[n + 1].op = "reset" <=> n = 0
  <2>1. w \in Seq(Reports)
    BY <1>1, SentHead, CommandReports DEF Whole
  <2>2. QED
    BY <1>1, <2>1, SentHead
<1>3. s \in Seq(Reports) /\ Len(s) <= Len(w) /\ n = Len(w) - Len(s)
      /\ (\A i \in 1..Len(s) : s[i] = w[n + i])
      /\ (n > 0 => staged = StagedBy(w, n))
  BY <1>1 DEF ShowInv, Staging, StagedFor, SentBy
<1>4. call'[c].pc = "send" /\ call'[c].req = call[c].req /\ call'[c].script = Tail(s)
  <2> DEFINE r == call[c]
             t == Tail(s)
  <2>1. IsCall(r) /\ call'[c] = [r EXCEPT !.script = t]
    BY DEF Send, KInv, Shape
  <2> HIDE DEF r, t
  <2>2. call'[c].pc = r.pc /\ call'[c].req = r.req /\ call'[c].script = t
    BY <2>1 DEF IsCall
  <2>3. QED
    BY <1>1, <2>2 DEF r, t
<1>5. Whole(c)' = w /\ SentBy(c)' = Len(w) - Len(Tail(s)) /\ Connected' = Connected
  BY <1>4 DEF Whole, SentBy, Connected, Send, device, place
<1>6. w[n + 1].op = "color-set" => w[n + 1].keys \in Seq(EntrySet)
  BY <1>2 DEF Reports
<1>7. staged' \subseteq EntrySet
  <2>1. staged \subseteq EntrySet
    BY DEF ShowInv, TypeOK, EntrySet
  <2>2. w[n + 1].op = "color-set" => ToSet(w[n + 1].keys) \subseteq EntrySet
    BY <1>6 DEF ToSet
  <2> HIDE DEF w, n
  <2>3. QED
    BY <1>1, <2>1, <2>2 DEF Receive
<1>8. keys' \in [Keys -> Colours]
  <2>1. staged \subseteq EntrySet /\ keys \in [Keys -> Colours]
    BY DEF ShowInv, TypeOK, EntrySet
  <2>2. \A k \in Keys : (\E e \in staged : e.key = k) => (CHOOSE e \in staged : e.key = k) \in staged
    OBVIOUS
  <2> HIDE DEF w, n
  <2>3. QED
    BY <1>1, <2>1, <2>2 DEF Receive, EntrySet
<1>9. StagedFor(c)'
  <2>1. staged' = StagedBy(w, n + 1)
    <3>1. n \in Nat /\ n < Len(w)
      BY <1>2
    <3>2. StagedBy(w, n + 1) =
            IF w[n + 1].op = "color-set" THEN StagedBy(w, n) \cup ToSet(w[n + 1].keys) ELSE StagedBy(w, n)
      BY <1>2, <3>1, StagedByNext
    <3>3. StagedBy(w, 0) = {}
      BY DEF StagedBy
    <3> HIDE DEF w, n
    <3>4. staged' = CASE w[n + 1].op = "reset" -> {}
                      [] w[n + 1].op = "color-set" -> staged \cup ToSet(w[n + 1].keys)
                      [] OTHER -> staged
      BY <1>1 DEF Receive
    <3>5. CASE n = 0
      BY <1>2, <3>2, <3>3, <3>4, <3>5
    <3>6. CASE n # 0
      <4>0. n > 0
        BY <3>1, <3>6
      <4> HIDE DEF s
      <4>1. w[n + 1].op # "reset" /\ staged = StagedBy(w, n)
        BY <1>2, <1>3, <3>6, <4>0
      <4>2. QED
        BY <3>2, <3>4, <4>1
    <3>7. QED
      BY <3>5, <3>6
  <2> HIDE DEF w, n, s
  <2>2. Len(s) \in Nat \ {0} /\ Tail(s) \in Seq(Reports) /\ Len(Tail(s)) = Len(s) - 1
        /\ \A i \in 1..Len(Tail(s)) : Tail(s)[i] = s[i + 1] /\ i + 1 \in 1..Len(s)
    BY <1>1, <1>3
  <2>3. SentBy(c)' = n + 1 /\ Len(Tail(s)) <= Len(w)
    <3> DEFINE a == Len(w)
               b == Len(s)
               t == Len(Tail(s))
    <3>1. a \in Nat /\ b \in Nat \ {0} /\ t = b - 1 /\ b <= a /\ n = a - b /\ SentBy(c)' = a - t
      BY <1>2, <1>3, <1>5, <2>2
    <3> HIDE DEF a, b, t
    <3>2. a - t = n + 1 /\ t <= a
      BY <3>1
    <3>3. QED
      BY <3>1, <3>2 DEF a, t
  <2>4. ASSUME NEW i \in 1..Len(Tail(s)) PROVE Tail(s)[i] = w[n + 1 + i]
    <3>1. Tail(s)[i] = s[i + 1] /\ i + 1 \in 1..Len(s) /\ n + (i + 1) = n + 1 + i
      BY <1>2, <2>2
    <3>2. QED
      BY <1>3, <3>1
  <2>5. QED
    BY <1>4, <1>5, <2>1, <2>2, <2>3, <2>4 DEF StagedFor
<1>10. QED
  BY <1>7, <1>8, <1>9

\* A step of a call that neither sends nor touches the device.
LEMMA ShowHandler ==
  ASSUME KInv, ShowInv, NEW c \in Callers, Handler(c)
  PROVE  ShowInv'
<1> USE DEF KInv, device, place, lamps
<1>0. \A d \in Callers \ {c} : call'[d] = call[d]
  BY OthersStay
<1> DEFINE Own == /\ call'[c].pc \in {"idle", "mutex", "device", "lock", "send"}
                  /\ call'[c].pc \in {"device", "lock", "send"} => kbdMu' = c
                  /\ call'[c].pc = "send" => kbdDev' # 0
                  /\ call'[c].attempt \in 1..2 /\ call'[c].file \in 0..numbers
                  /\ call'[c].pc # "idle" => /\ call'[c].req = call[c].req /\ call[c].pc # "idle"
                                            /\ parseKeyColorMap(Entries(call[c].req))
                  /\ StagedFor(c)'
           Rest == /\ UNCHANGED <<daemon, foreign, node, numbers, made>>
                   /\ kbdMu' \in {kbdMu, c, Nobody} /\ (kbdMu' # kbdMu => \A d \in Callers \ {c} : kbdMu # d)
                   /\ kbdDev' \in 0..numbers /\ files' \subseteq 1..numbers
                   /\ staged' \subseteq EntrySet /\ keys' \in [Keys -> Colours] /\ troubled' \subseteq Callers
                   /\ \/ UNCHANGED <<kbdDev, staged>>
                      \/ kbdMu = c
<1>1. SUFFICES Own /\ Rest
  <2>1. TypeOK'
    BY <1>0 DEF ShowInv, TypeOK, EntrySet, Numbered
  <2>2. Asks'
    BY <1>0 DEF ShowInv, Asks
  <2>3. Numbered'
    BY <1>0 DEF ShowInv, Numbered
  <2>4. \A d \in Callers \ {c} : StagedFor(d)'
    <3>1. ASSUME NEW d \in Callers \ {c}, call[d].pc = "send", Connected' PROVE Connected /\ staged' = staged
      BY <3>1 DEF ShowInv, TypeOK, Connected
    <3>2. QED
      BY <1>0, <3>1, StagedKept DEF ShowInv, Staging
  <2>5. QED
    BY <2>1, <2>2, <2>3, <2>4 DEF ShowInv, Staging
<1>2. /\ IsCall(call[c]) /\ StagedFor(c) /\ call[c].attempt \in 1..2 /\ call[c].file \in 0..numbers
      /\ call[c].pc \in Inside => kbdMu = c
      /\ call[c].pc # "idle" /\ call[c].pc # "auth" => parseKeyColorMap(Entries(call[c].req))
      /\ numbers \in Nat /\ node \in 0..numbers /\ kbdDev \in 0..numbers /\ files \subseteq 1..numbers
      /\ staged \subseteq EntrySet /\ keys \in [Keys -> Colours] /\ troubled \subseteq Callers
  BY DEF ShowInv, TypeOK, Asks, Numbered, Staging, Shape, EntrySet, OneFile, Inside
<1>3. ASSUME NEW code, call'[c] = Ended(code) PROVE Own
  BY <1>2, <1>3, StagedIdle DEF Ended
<1>4. CASE Authorize(c)
  <2>1. Rest
    BY <1>2, <1>4 DEF Authorize
  <2>2. CASE \E code : call'[c] = Ended(code)
    BY <1>3, <2>1, <2>2
  <2>3. CASE parseKeyColorMap(Entries(call[c].req)) /\ call'[c] = [call[c] EXCEPT !.pc = "mutex"]
    <3>1. call'[c].pc = "mutex" /\ call'[c].req = call[c].req /\ call'[c].attempt = call[c].attempt
          /\ call'[c].file = call[c].file /\ call'[c].script = call[c].script /\ call[c].pc = "auth"
      BY <1>2, <1>4, <2>3 DEF IsCall, Authorize
    <3>2. QED
      BY <1>2, <2>1, <2>3, <3>1, StagedIdle DEF StagedFor
  <2>4. QED
    BY <1>4, <2>2, <2>3 DEF Authorize, Shape
<1>5. CASE TakeMutex(c)
  <2>1. Rest
    BY <1>2, <1>5 DEF TakeMutex, ShowInv, TypeOK
  <2>2. call'[c].pc = "device" /\ call'[c].req = call[c].req /\ call'[c].attempt = call[c].attempt
          /\ call'[c].file = call[c].file /\ call'[c].script = call[c].script
          /\ call[c].pc = "mutex" /\ kbdMu' = c
    BY <1>2, <1>5 DEF IsCall, TakeMutex, Shape
  <2>3. QED
    BY <1>2, <2>1, <2>2, StagedIdle DEF StagedFor
<1>6. CASE GetDevice(c)
  <2>1. Rest /\ call[c].pc = "device" /\ (kbdMu' = Nobody \/ kbdMu' = c)
    BY <1>2, <1>6 DEF GetDevice, GiveUp, Finish, Inside
  <2>2. CASE \E code : call'[c] = Ended(code)
    BY <1>3, <2>1, <2>2
  <2>3. CASE kbdDev # 0
    <3> DEFINE r == call[c]
               w == SetKeyColors(Entries(call[c].req))
    <3>1. IsCall(r) /\ call'[c] = [r EXCEPT !.pc = "send", !.script = w]
      BY <1>2, <1>6, <2>3 DEF GetDevice, Shape
    <3> HIDE DEF r, w
    <3>2. call'[c].pc = "send" /\ call'[c].req = r.req /\ call'[c].attempt = r.attempt
            /\ call'[c].file = r.file /\ call'[c].script = w
      BY <3>1 DEF IsCall
    <3>3. kbdMu' = kbdMu /\ kbdDev' = kbdDev
      BY <1>6, <2>3 DEF GetDevice
    <3>4. w \in Seq(Reports)
      BY <2>1, EntriesTyped, CommandReports DEF w, ShowInv, Asks
    <3>5. Whole(c)' = w /\ SentBy(c)' = 0
      <4>1. Whole(c)' = w
        BY <3>2 DEF Whole, w, r
      <4>2. Len(w) \in Nat
        BY <3>4
      <4>3. QED
        BY <3>2, <4>1, <4>2 DEF SentBy
    <3>6. StagedFor(c)'
      BY <3>2, <3>4, <3>5 DEF StagedFor
    <3>7. QED
      BY <1>2, <2>1, <2>3, <3>2, <3>3, <3>6 DEF r, Inside
  <2>4. CASE kbdDev = 0 /\ node # 0
    <3> DEFINE r == call[c]
    <3>1. IsCall(r) /\ call'[c] = [r EXCEPT !.pc = "lock", !.file = node]
      BY <1>2, <1>6, <2>4 DEF GetDevice, Shape
    <3> HIDE DEF r
    <3>2. call'[c].pc = "lock" /\ call'[c].req = r.req /\ call'[c].attempt = r.attempt
            /\ call'[c].file = node /\ call'[c].script = r.script
      BY <3>1 DEF IsCall
    <3>3. kbdMu' = kbdMu
      BY <1>6, <2>4 DEF GetDevice
    <3>4. StagedFor(c)'
      BY <1>2, <2>1, <3>2, StagedIdle DEF r, StagedFor
    <3>5. QED
      BY <1>2, <2>1, <3>2, <3>3, <3>4 DEF r, Inside
  <2>5. QED
    BY <1>6, <2>2, <2>3, <2>4 DEF GetDevice, GiveUp, Finish, Shape
<1>7. CASE TakeLock(c)
  <2>1. call[c].pc = "lock" /\ kbdMu = c /\ call[c].file \in 1..numbers
    BY <1>2, <1>7 DEF TakeLock, LocksAfresh, Inside
  <2>2. Rest
    BY <1>2, <1>7, <2>1 DEF TakeLock
  <2>3. call'[c].pc = "device" /\ call'[c].req = call[c].req /\ call'[c].attempt = call[c].attempt
          /\ call'[c].file = 0 /\ call'[c].script = call[c].script /\ kbdMu' = kbdMu
    <3> DEFINE r == call[c]
    <3>1. IsCall(r) /\ call'[c] = [r EXCEPT !.pc = "device", !.file = 0]
      BY <1>2, <1>7 DEF TakeLock, Shape
    <3> HIDE DEF r
    <3>2. call'[c].pc = "device" /\ call'[c].req = r.req /\ call'[c].attempt = r.attempt
            /\ call'[c].file = 0 /\ call'[c].script = r.script
      BY <3>1 DEF IsCall
    <3>3. QED
      BY <1>7, <3>2 DEF r, TakeLock
  <2>4. QED
    BY <1>2, <2>1, <2>2, <2>3, StagedIdle DEF StagedFor
<1>8. CASE LockTimesOut(c) \/ Return(c)
  <2>1. Rest
    BY <1>2, <1>8 DEF LockTimesOut, Return, GiveUp, Finish, Inside
  <2>2. \E code : call'[c] = Ended(code)
    BY <1>8 DEF LockTimesOut, Return, GiveUp, Finish, Shape
  <2>3. QED
    BY <1>3, <2>1, <2>2
<1>9. CASE Send(c)
  <2>1. Rest
    BY <1>2, <1>9, SendShows DEF Send, Inside
  <2>2. call'[c].pc = "send" /\ call'[c].req = call[c].req /\ call'[c].attempt = call[c].attempt
          /\ call'[c].file = call[c].file /\ kbdMu' = kbdMu /\ kbdDev' = kbdDev /\ call[c].pc = "send"
    <3> DEFINE r == call[c]
               t == Tail(call[c].script)
    <3>1. IsCall(r) /\ call'[c] = [r EXCEPT !.script = t]
      BY <1>2, <1>9 DEF Send, Shape
    <3> HIDE DEF r, t
    <3>2. call'[c].pc = r.pc /\ call'[c].req = r.req /\ call'[c].attempt = r.attempt /\ call'[c].file = r.file
      BY <3>1 DEF IsCall
    <3>3. QED
      BY <1>9, <3>2 DEF r, Send
  <2>3. QED
    BY <1>2, <1>9, <2>1, <2>2, SendShows DEF ShowInv, TypeOK, Inside
<1>10. CASE SendFails(c)
  <2>1. kbdMu = c /\ call[c].pc = "send"
    BY <1>2, <1>10 DEF SendFails, Inside
  <2>2. Rest
    BY <1>2, <1>10, <2>1 DEF SendFails, dropKeyboard, Retry, Finish
  <2>3. CASE call[c].attempt = 1
    <3> DEFINE r == call[c]
    <3>1. IsCall(r) /\ call'[c] = [r EXCEPT !.pc = "device", !.attempt = 2, !.script = <<>>] /\ kbdMu' = kbdMu
      BY <1>2, <1>10, <2>3 DEF SendFails, Retry, Shape
    <3> HIDE DEF r
    <3>2. call'[c].pc = "device" /\ call'[c].req = r.req /\ call'[c].attempt = 2 /\ call'[c].file = r.file
            /\ call'[c].script = <<>>
      BY <3>1 DEF IsCall
    <3>3. StagedFor(c)'
      BY <3>2, StagedIdle
    <3>4. QED
      BY <1>2, <2>1, <2>2, <3>1, <3>2, <3>3 DEF r
  <2>4. CASE call[c].attempt # 1
    BY <1>3, <1>10, <2>2, <2>4 DEF SendFails, Retry, Finish, Shape
  <2>5. QED
    BY <2>3, <2>4
<1>11. QED
  BY <1>4, <1>5, <1>6, <1>7, <1>8, <1>9, <1>10 DEF Handler

LEMMA InitShow == Init => ShowInv
  BY DEF Init, ShowInv, TypeOK, Asks, Numbered, Staging, StagedFor, Connected, Ended, Keys

LEMMA StepShow == KInv /\ ShowInv /\ [Next]_vars => ShowInv'
<1> SUFFICES ASSUME KInv, ShowInv, [Next]_vars PROVE ShowInv'
  OBVIOUS
<1> USE DEF KInv, device, place, lamps
<1>0. /\ TypeOK /\ Asks /\ Numbered /\ numbers \in Nat /\ numbers <= MaxNodes
      /\ \A c \in Callers : StagedFor(c)
  BY DEF ShowInv, Staging, TypeOK
<1>1. ASSUME NEW c \in Callers, Handler(c) PROVE ShowInv'
  BY <1>1, ShowHandler
<1>2. ASSUME NEW c \in Callers, NEW r \in Requests, Arrive(c, r) PROVE ShowInv'
  <2>1. \A d \in Callers \ {c} : call'[d] = call[d]
    BY <1>2 DEF Arrive, Shape
  <2>2. /\ call'[c].pc \in {"auth", "idle"} /\ call'[c].script = <<>> /\ call'[c].attempt = 1 /\ call'[c].file = 0
        /\ call'[c].pc = "auth" => call'[c].req = r /\ CliAccepts(r)
    BY <1>2 DEF Arrive, Shape, Ended
  <2>3. \A d \in Callers : StagedFor(d)'
    BY <1>0, <1>2, <2>1, <2>2, StagedKept, StagedIdle DEF Arrive, Connected
  <2>4. (TypeOK /\ Asks /\ Numbered)'
    BY <1>0, <1>2, <2>1, <2>2 DEF Arrive, TypeOK, Asks, Numbered
  <2>5. QED
    BY <2>3, <2>4 DEF ShowInv, Staging
<1>3. CASE Exit \/ Crash
  <2>1. \A d \in Callers : \/ call'[d] = call[d] /\ call[d].pc = "idle"
                          \/ \E code : call'[d] = Ended(code)
    BY <1>3 DEF Exit, Crash, Gone, Cut
  <2>2. \A d \in Callers : call'[d].pc = "idle" /\ call'[d].script = <<>> /\ call'[d].attempt \in 1..2
                          /\ call'[d].file \in 0..numbers
    <3>1. \A code : LET r == Ended(code) IN r.pc = "idle" /\ r.script = <<>> /\ r.attempt = 1 /\ r.file = 0
      BY DEF Ended
    <3>2. \A d \in Callers : call[d].pc = "idle" => call[d].script = <<>>
      BY <1>0 DEF StagedFor
    <3>3. \A d \in Callers : call[d].attempt \in 1..2 /\ call[d].file \in 0..numbers
      BY <1>0 DEF TypeOK, Numbered
    <3>4. QED
      BY <1>0, <2>1, <3>1, <3>2, <3>3
  <2>3. \A d \in Callers : StagedFor(d)'
    BY <2>2, StagedIdle
  <2>4. (TypeOK /\ Asks /\ Numbered)'
    BY <1>0, <1>3, <2>2 DEF Exit, Crash, Gone, TypeOK, Asks, Numbered
  <2>5. QED
    BY <2>3, <2>4 DEF ShowInv, Staging
<1>4. ASSUME UNCHANGED call,
             \A d \in Callers : call[d].pc = "send" /\ Connected' => Connected /\ staged' = staged,
             (TypeOK /\ Numbered)'
      PROVE  ShowInv'
  BY <1>0, <1>4, StagedKept DEF ShowInv, Staging, Asks
<1>5. CASE Signal \/ Restart \/ ForeignLocks \/ ForeignUnlocks \/ UNCHANGED vars
  <2>1. UNCHANGED <<call, kbdMu, kbdDev, files, node, numbers, staged, keys, made, troubled>>
    BY <1>5 DEF Signal, Restart, ForeignLocks, ForeignUnlocks, vars
  <2>2. daemon' \in {"serving", "closing", "exiting", "down"} /\ foreign' \in 0..MaxNodes
    BY <1>0, <1>5 DEF Signal, Restart, ForeignLocks, ForeignUnlocks, vars, TypeOK, Numbered
  <2>3. (TypeOK /\ Numbered)'
    BY <1>0, <2>1, <2>2 DEF TypeOK, Numbered
  <2>4. QED
    BY <1>4, <2>1, <2>3 DEF Connected
<1>6. CASE TakeMutexToClose \/ CloseKeyboard
  <2>1. \A c \in Callers : call[c].pc \notin Inside
    BY <1>6 DEF TakeMutexToClose, CloseKeyboard, MutexHeld
  <2>2. (TypeOK /\ Numbered)' /\ UNCHANGED call
    <3>1. UNCHANGED <<call, foreign, node, numbers, staged, keys, made, troubled>>
      BY <1>6 DEF TakeMutexToClose, CloseKeyboard
    <3>2. kbdMu' \in {Main, Nobody} /\ daemon' \in {"closing", "exiting"}
      BY <1>6 DEF TakeMutexToClose, CloseKeyboard
    <3>3. kbdDev' \in {0, kbdDev} /\ files' \subseteq files
      BY <1>6 DEF TakeMutexToClose, CloseKeyboard, dropKeyboard
    <3>4. QED
      BY <1>0, <2>1, <3>1, <3>2, <3>3 DEF TypeOK, Numbered, Inside
  <2>3. QED
    BY <1>4, <2>1, <2>2 DEF Inside
<1>7. CASE Unplug
  <2>1. (TypeOK /\ Numbered)' /\ UNCHANGED call
    BY <1>0, <1>7 DEF Unplug, Holding, TypeOK, Numbered
  <2>2. \A d \in Callers : call[d].pc = "send" => ~Connected'
    BY <1>0, <1>7 DEF Unplug, TypeOK, Connected
  <2>3. QED
    BY <1>4, <2>1, <2>2
<1>8. CASE Plug
  <2>1. (TypeOK /\ Numbered)' /\ UNCHANGED call
    BY <1>0, <1>8 DEF Plug, TypeOK, Numbered
  <2>2. ~Connected'
    BY <1>0, <1>8 DEF Plug, Numbered, Connected
  <2>3. QED
    BY <1>4, <2>1, <2>2
<1>9. QED
  BY <1>1, <1>2, <1>3, <1>5, <1>6, <1>7, <1>8 DEF Next, MainStep, World

\* An update report goes out over exactly what its call asked for.
LEMMA UpdateStep ==
  ASSUME KInv, ShowInv, [Next]_vars, NEW c \in Callers,
         call[c].script # <<>>, Head(call[c].script).op = "update",
         call'[c].script = Tail(call[c].script), call'[c].pc = "send"
  PROVE  \A k \in Keys : IF Wanted(call[c].req, k) = {} THEN keys'[k] = keys[k]
                          ELSE keys'[k] \in Wanted(call[c].req, k)
<1> DEFINE E == Entries(call[c].req)
<1> USE DEF KInv
<1>1. call[c].pc = "send"
  BY DEF ShowInv, Staging, StagedFor
<1>2. Tail(call[c].script) # call[c].script
  <2>1. call[c].script \in Seq(Reports)
    BY <1>1 DEF ShowInv, Staging, StagedFor
  <2>2. Len(Tail(call[c].script)) = Len(call[c].script) - 1 /\ Len(call[c].script) \in Nat
    BY <2>1, HeadTailProperties
  <2> DEFINE s == call[c].script
             t == Tail(s)
             n == Len(s)
  <2>3. Len(t) = n - 1 /\ n \in Nat
    BY <2>2
  <2> HIDE DEF n
  <2>4. Len(t) # n
    BY <2>3
  <2>5. QED
    BY <2>4 DEF n
<1>3. Send(c)
  <2>1. ASSUME NEW d \in Callers \ {c}, Handler(d) PROVE FALSE
    BY <1>2, <2>1, OthersStay
  <2>2. ASSUME NEW d \in Callers, NEW r \in Requests, Arrive(d, r) PROVE FALSE
    BY <1>1, <1>2, <2>2 DEF Arrive, Shape
  <2>3. Handler(c) => Send(c)
    BY <1>1 DEF Handler, Authorize, TakeMutex, GetDevice, TakeLock, LockTimesOut, Return, SendFails,
                Retry, Finish, Ended, Shape, IsCall
  <2>4. ~(Exit \/ Crash)
    BY <1>1 DEF Exit, Crash, Gone, Cut, Ended
  <2>5. UNCHANGED call => FALSE
    BY <1>2
  <2>6. QED
    BY <2>1, <2>2, <2>3, <2>4, <2>5 DEF Next, MainStep, World, TakeMutexToClose, CloseKeyboard, Signal,
       Restart, Unplug, Plug, ForeignLocks, ForeignUnlocks, vars
<1>4. staged = ToSet(E) /\ E \in Seq(EntrySet)
  <2> DEFINE w == Whole(c)
             n == SentBy(c)
  <2>1. /\ E \in Seq(EntrySet) /\ n \in 0..(Len(w) - 1) /\ Len(w) \in Nat
        /\ w[n + 1].op = "update" /\ (w[n + 1].op = "reset" <=> n = 0)
        /\ (w[n + 1].op = "update" <=> n + 1 = Len(w))
        /\ StagedBy(w, Len(w) - 1) = ToSet(E)
    BY <1>1, SentHead
  <2>2. n > 0 => staged = StagedBy(w, n)
    BY <1>1, <1>3 DEF Send, ShowInv, Staging, StagedFor
  <2> HIDE DEF w, n, E
  <2>3. n > 0 /\ n = Len(w) - 1
    BY <2>1
  <2>4. QED
    BY <2>1, <2>2, <2>3
<1>5. keys' = [k \in Keys |-> IF \E e \in staged : e.key = k
                              THEN (CHOOSE e \in staged : e.key = k).colour ELSE keys[k]]
  BY <1>3 DEF Send, Receive
<1>6. ASSUME NEW k \in Keys
      PROVE  IF Wanted(call[c].req, k) = {} THEN keys'[k] = keys[k] ELSE keys'[k] \in Wanted(call[c].req, k)
  <2>1. Wanted(call[c].req, k) = {E[i].colour : i \in {j \in DOMAIN E : E[j].key = k}}
    BY DEF Wanted
  <2> HIDE DEF E
  <2>2. \A e \in staged : e.key = k => e.colour \in Wanted(call[c].req, k)
    BY <1>4, <2>1 DEF ToSet
  <2>3. Wanted(call[c].req, k) # {} => \E e \in staged : e.key = k
    BY <1>4, <2>1 DEF ToSet
  <2>4. QED
    BY <1>5, <2>2, <2>3
<1>7. QED
  BY <1>6

\* Every variable of the keyboard's half keeps its type: whoever is at the device
\* holds kbdMu and has a device, and only typed colours reach a key.
THEOREM KeyboardTyped == Spec => []TypeOK
<1>1. ShowInv => TypeOK
  BY DEF ShowInv
<1>2. QED
  BY <1>1, InitKInv, StepKInv, InitShow, StepShow, PTL DEF Spec

\* An update shows the map of its own call, whole, for any number of callers, keys,
\* frames and faults (SetKeyColors, kbd/device.go:86-102, under kbdMu).
THEOREM UpdatesAreOwn == Spec => UpdateShowsOwn
<1>1. KInv /\ ShowInv /\ [Next]_vars =>
        [\A c \in Callers :
           call[c].script # <<>> /\ Head(call[c].script).op = "update"
             /\ call'[c].script = Tail(call[c].script) /\ call'[c].pc = "send" =>
           \A k \in Keys : IF Wanted(call[c].req, k) = {} THEN keys'[k] = keys[k]
                           ELSE keys'[k] \in Wanted(call[c].req, k)]_vars
  BY UpdateStep
<1>2. QED
  BY <1>1, InitKInv, StepKInv, InitShow, StepShow, PTL DEF Spec, UpdateShowsOwn

=============================================================================
