---------------------------- MODULE PluginLights ----------------------------
(***************************************************************************)
(* The lighting half of the shell plugin (src/Service.qml) over the write  *)
(* queue of PluginQueue, with the two controllers it paints: "rgb", the    *)
(* chassis, which alienwarectl writes itself, and "kbd", the keyboard,     *)
(* which the daemon writes if polkit finds the session active.             *)
(*                                                                         *)
(* A lamp has regions; Special is the one an overlay may claim (the power  *)
(* button shows the battery, the mute keys show what is muted).  A paint   *)
(* command is a partial map from regions to colours.  Across a suspend     *)
(* both controllers fall back to the firmware's colours and come back to   *)
(* the bus in their own time.                                              *)
(***************************************************************************)
EXTENDS PluginQueue, FiniteSets

CONSTANTS
  Lamps,      \* a subset of {"rgb", "kbd"}
  Regions,    \* the regions of a lamp
  Special,    \* the region with an overlay
  Colours,    \* what the user may choose
  Dark, Firmware, Mark,   \* 000000, the firmware's colour, the overlay's colour
  MaxTries,   \* ticks of a restore ladder, 30 in the code
  MaxOps,     \* bound: requests to repaint, by the user or an overlay
  MaxSleeps,  \* bound: suspends
  Faults      \* what commands may do: a subset of {"fail", "hang"}

Hues == Colours \cup {Dark, Firmware, Mark}
ColourMaps == [Regions -> Hues]
PartialMaps(S) == UNION {[R -> S] : R \in SUBSET Regions}

Nothing == [r \in {} |-> Dark]

\* What the queue may hold of the lamps' jobs: the last part is what is painted.
LightJobs ==
  [dev : {"rgb", "kbd"}, verb : {"set-map", "off"}, val : PartialMaps(Hues)]
    \cup [dev : {"rgb"}, verb : {"brightness"}, val : {Nothing}]

ASSUME LightsAssumption ==
  /\ Lamps \subseteq {"rgb", "kbd"}
  /\ None \notin LightJobs
  /\ Special \in Regions
  /\ Cardinality(Hues) = Cardinality(Colours) + 3
  /\ MaxTries \in Nat /\ MaxOps \in Nat /\ MaxSleeps \in Nat

VARIABLES
  elc,        \* queue, processes and timers: the record of PluginQueue
  saved,      \* what the plugin keeps: see Saved
  seen,       \* kbd.present, as the last keyboard status said
  kreading,   \* kbdProc: "no", or what the keyboard looked like when it started
  restored,   \* lightsRestored and keyboardRestored
  tries,      \* rgbRestoreTries and kbdRestoreTries
  shown,      \* what each lamp shows
  present,    \* the lamps on the bus
  locked,     \* the session is not active: polkit declines set-keyboard
  woken,      \* the machine woke up and the plugin has not heard of it yet
  asked,      \* history: what each lamp would show had every job been done
  trouble,    \* history: each lamp's regions whose last write failed or was killed
  ops, sleeps \* how much of the bounds is used up

pluginVars == <<elc, saved, seen, kreading, restored, tries>>
worldVars == <<shown, present, locked, woken>>
vars == <<pluginVars, worldVars, asked, trouble, ops, sleeps>>

-----------------------------------------------------------------------------
(* What is painted *)

AllDark == [r \in Regions |-> Dark]
Painted(map, under) == [r \in Regions |-> IF r \in DOMAIN map THEN map[r] ELSE under[r]]

\* lightsOn; the regions that have a colour, and which; regions switched on; the
\* overlay has something to show.
Saved ==
  [on : BOOLEAN, colour : [Lamps -> PartialMaps(Colours)],
   lit : [Lamps -> SUBSET Regions], marked : [Lamps -> BOOLEAN]]

\* A region that is switched on and has no colour is left out.
Effective(s, l) ==
  [r \in (Regions \ s.lit[l]) \cup DOMAIN s.colour[l] |->
     IF r \in s.lit[l] THEN s.colour[l][r] ELSE Dark]

Overlay(s, l, map) ==
  IF s.on /\ s.marked[l]
  THEN [r \in DOMAIN map \cup {Special} |-> IF r = Special THEN Mark ELSE map[r]]
  ELSE map

\* Lights that are off stay off: only the regions named are (again) blanked.
PowerPayload(s, l, R) == IF s.on THEN Effective(s, l) ELSE [r \in R |-> Dark]

SetMap(l, map) == Job(l, "set-map", map)
Off(l) == Job(l, "off", AllDark)
Brightness == Job("rgb", "brightness", Nothing)

For(l, job) == IF l \in Lamps THEN <<job>> ELSE <<>>
IfSeen(job) == IF seen THEN <<job>> ELSE <<>>

Lit(s, l) == Overlay(s, l, Effective(s, l))
Repaint(s, l) == SetMap(l, Lit(s, l))

\* No map without a key is enqueued (hasAnyKey).
RepaintAny(s, l, map) ==
  IF l \in Lamps /\ (l = "kbd" => seen) /\ DOMAIN map # {} THEN <<Repaint(s, l)>> ELSE <<>>

\* Mutant: overlays and themes repaint whether or not the lights are off.
PushAnyway(s, l) == RepaintAny(s, l, Lit(s, l))

\* pushChassis and pushKeyboard: nothing while the lights are off.
Push(s, l) == IF s.on THEN RepaintAny(s, l, Lit(s, l)) ELSE <<>>

OffJobs == For("rgb", Off("rgb")) \o IfSeen(Off("kbd"))

RestoreSavedLights == IF saved.on THEN <<Brightness>> \o Push(saved, "rgb") ELSE OffJobs
RestoreSavedKeyboard ==  \* runs where a status has just found the keyboard
  IF ~saved.on THEN <<Off("kbd")>>
  ELSE IF DOMAIN Lit(saved, "kbd") # {} THEN <<Repaint(saved, "kbd")>> ELSE <<>>

Paints(job, l) == job.dev = l /\ job.verb # "brightness"
Names(job, l, r) == Paints(job, l) /\ r \in DOMAIN job.val
SaidBy(job, before) == [l \in Lamps |-> IF Paints(job, l) THEN Painted(job.val, before[l]) ELSE before[l]]
Said(before, jobs) ==
  LET said[i \in 0..Len(jobs)] == IF i = 0 THEN before ELSE SaidBy(jobs[i], said[i - 1])
  IN  said[Len(jobs)]

Look(l) == IF l \in present THEN "ready" ELSE "absent"

-----------------------------------------------------------------------------
(* The state file is loaded: applyState ends in refreshRgb and refreshKbd *)

Init ==
  /\ saved \in [on : BOOLEAN, colour : [Lamps -> PartialMaps(Colours)],
                lit : [Lamps -> SUBSET Regions], marked : {[l \in Lamps |-> FALSE]}]
  /\ present \in SUBSET Lamps
  /\ elc = IF "rgb" \in Lamps THEN RefreshRgb(Idle, Look("rgb")) ELSE Idle
  /\ kreading = IF "kbd" \in Lamps THEN Look("kbd") ELSE "no"
  /\ seen = FALSE
  /\ restored = [l \in Lamps |-> FALSE]
  /\ tries = [l \in Lamps |-> 0]
  /\ shown = [l \in Lamps |-> [r \in Regions |-> Firmware]]
  /\ asked = shown
  /\ locked \in BOOLEAN
  /\ woken = FALSE
  /\ trouble = [l \in Lamps |-> {}]
  /\ ops = 0
  /\ sleeps = 0

-----------------------------------------------------------------------------
(* Requests *)

Request(s, jobs) ==
  /\ ops < MaxOps
  /\ ops' = ops + 1
  /\ saved' = s
  /\ elc' = EnqueueAll(elc, jobs)
  /\ asked' = Said(asked, jobs)
  /\ UNCHANGED <<seen, kreading, restored, tries, worldVars, trouble, sleeps>>

\* setColor paints the whole chassis, and leaves regions off that are off.
SetColor(c) ==
  LET s == [saved EXCEPT !.on = TRUE, !.colour["rgb"] = [r \in Regions |-> c]]
  IN  "rgb" \in Lamps /\ Request(s, <<Repaint(s, "rgb")>>)

Coloured(map, R, c) == [r \in DOMAIN map \cup R |-> IF r \in R THEN c ELSE map[r]]

\* setRegionColors and setKeyColors, which also switch the regions on.
SetColors(l, R, c) ==
  LET s == [saved EXCEPT !.on = TRUE, !.lit[l] = @ \cup R, !.colour[l] = Coloured(@, R, c)]
  IN  Request(s, <<Repaint(s, l)>>)

\* setRegionOn and setKeyOn: a region that is switched on without a colour gets
\* the last one chosen, or white.
SetRegionOn(l, R, on, last) ==
  LET new == IF on THEN R \ DOMAIN saved.colour[l] ELSE {}
      s == [saved EXCEPT !.on = @ \/ on, !.lit[l] = IF on THEN @ \cup R ELSE @ \ R,
                         !.colour[l] = Coloured(@, new, last)]
  IN  Request(s, <<SetMap(l, Overlay(s, l, PowerPayload(s, l, R)))>>)

SetBrightness(percent) ==
  "rgb" \in Lamps /\ Request([saved EXCEPT !.on = @ \/ percent > 0], <<Brightness>>)

LightsOff == Request([saved EXCEPT !.on = FALSE], OffJobs)

RestoreLights ==
  LET s == [saved EXCEPT !.on = TRUE]
      repaint(l) == RepaintAny(s, l, Effective(s, l))
  IN  Request(s, For("rgb", Brightness) \o repaint("rgb") \o repaint("kbd"))

\* applyThemeColor paints both lamps, or only remembers while they are off.
ApplyThemeColor(c) ==
  LET s == [saved EXCEPT !.colour = [l \in Lamps |-> [r \in Regions |-> c]]]
  IN  Request(s, Push(s, "rgb") \o Push(s, "kbd"))

\* The battery's colour changes or batterySync is toggled; a mute state is read.
OverlayRead(l, marked) ==
  LET s == [saved EXCEPT !.marked[l] = marked]
  IN  (l = "rgb" => s # saved) /\ Request(s, Push(s, l))

-----------------------------------------------------------------------------
(* Reads and the restore ladders *)

MayFail == IF "fail" \in Faults THEN {FALSE} ELSE {}

\* rgbProc exits: the first good status after a rearm restores the lights.
RgbReadExits ==
  /\ elc.reading # "no"
  /\ \E ok \in {elc.reading = "ready", "rgb" \in present} \cup MayFail :
       LET restores == ok /\ ~restored["rgb"]
           jobs == IF restores THEN RestoreSavedLights ELSE <<>>
       IN  /\ restored' = [restored EXCEPT !["rgb"] = @ \/ ok]
           /\ elc' = ReadDone(elc, jobs)
           /\ asked' = Said(asked, jobs)
  /\ UNCHANGED <<saved, seen, kreading, tries, worldVars, trouble, ops, sleeps>>

\* kbdProc exits, with the keyboard found or not, or without an answer.
KbdReadExits ==
  /\ kreading # "no"
  /\ kreading' = "no"
  /\ \/ \E found \in {kreading = "ready", "kbd" \in present} :
          LET restores == found /\ ~restored["kbd"]
              jobs == IF restores THEN RestoreSavedKeyboard ELSE <<>>
          IN  /\ seen' = found
              /\ restored' = [restored EXCEPT !["kbd"] = @ \/ found]
              /\ elc' = EnqueueAll(elc, jobs)
              /\ asked' = Said(asked, jobs)
     \/ "fail" \in Faults /\ UNCHANGED <<elc, seen, restored, asked>>
  /\ UNCHANGED <<saved, tries, worldVars, trouble, ops, sleeps>>

RefreshLamp(l) ==
  IF l = "rgb"
  THEN elc' = RefreshRgb(elc, Look("rgb")) /\ UNCHANGED kreading
  ELSE kreading' = (IF kreading = "no" THEN Look("kbd") ELSE kreading) /\ UNCHANGED elc

\* rgbRestoreRetry and kbdRestoreRetry.
RestoreTick(l) ==
  /\ ~restored[l] /\ tries[l] < MaxTries
  /\ tries' = [tries EXCEPT ![l] = @ + 1]
  /\ RefreshLamp(l)
  /\ UNCHANGED <<saved, seen, restored, worldVars, asked, trouble, ops, sleeps>>

ElcRetry ==
  /\ elc.retry
  /\ elc' = Retry(elc, Look("rgb"))
  /\ UNCHANGED <<saved, seen, kreading, restored, tries, worldVars, asked, trouble, ops, sleeps>>

\* reload: the latches are rearmed and both lamps read.
Reload ==
  /\ restored' = [l \in Lamps |-> FALSE]
  /\ tries' = [l \in Lamps |-> 0]
  /\ elc' = IF "rgb" \in Lamps THEN RefreshRgb(elc, Look("rgb")) ELSE elc
  /\ kreading' = IF "kbd" \in Lamps /\ kreading = "no" THEN Look("kbd") ELSE kreading
  /\ UNCHANGED <<saved, seen, asked, trouble>>

AskReload ==
  /\ ops < MaxOps /\ ops' = ops + 1
  /\ Reload
  /\ UNCHANGED <<worldVars, sleeps>>

-----------------------------------------------------------------------------
(* writeProc ends *)

WriteEnds(rearm, effect, lost) ==
  /\ elc' = WriteDone(elc)
  /\ restored' = [l \in Lamps |-> restored[l] /\ ~(l = "kbd" /\ rearm)]
  /\ tries' = [l \in Lamps |-> IF l = "kbd" /\ rearm THEN 0 ELSE tries[l]]
  /\ shown' = [l \in Lamps |-> IF effect /\ Paints(elc.writing, l)
                               THEN Painted(elc.writing.val, shown[l]) ELSE shown[l]]
  /\ trouble' = [l \in Lamps |-> LET written == {r \in Regions : Names(elc.writing, l, r)}
                                 IN  IF lost THEN trouble[l] \cup written
                                     ELSE IF effect THEN trouble[l] \ written ELSE trouble[l]]
  /\ UNCHANGED <<saved, seen, kreading, present, locked, woken, asked, ops, sleeps>>

Declined == elc.writing.dev = "kbd" /\ locked

WriteApplied ==
  /\ elc.writing # None
  /\ elc.writing.dev \in present /\ ~Declined
  /\ WriteEnds(FALSE, TRUE, FALSE)

\* Mutant: the latch stays burned.
WriteDeniedForGood ==
  /\ elc.writing # None
  /\ Declined
  /\ WriteEnds(FALSE, FALSE, FALSE)

\* polkit declines: the keyboard's restore is armed again.
WriteDenied ==
  /\ elc.writing # None
  /\ Declined
  /\ WriteEnds(seen, FALSE, FALSE)

WriteFailed ==
  /\ elc.writing # None
  /\ elc.writing.dev \notin present \/ "fail" \in Faults
  /\ ~Declined
  /\ WriteEnds(FALSE, FALSE, TRUE)

\* writeWatchdog kills a command that hangs, before or after it took effect.
WriteKilled ==
  /\ elc.writing # None
  /\ "hang" \in Faults
  /\ \E effect \in BOOLEAN :
       /\ effect => elc.writing.dev \in present /\ ~Declined
       /\ WriteEnds(FALSE, effect, TRUE)

WriteExits == WriteApplied \/ WriteDenied \/ WriteFailed \/ WriteKilled

-----------------------------------------------------------------------------
(* The machine: external *)

\* Frames are lost, the one of a command that was just exiting among them.
Wake ==
  /\ sleeps < MaxSleeps /\ ~woken
  /\ sleeps' = sleeps + 1
  /\ woken' = TRUE
  /\ shown' = [l \in Lamps |-> [r \in Regions |-> Firmware]]
  /\ present' \in SUBSET Lamps
  /\ locked' \in BOOLEAN
  /\ \/ UNCHANGED elc
     \/ elc.writing # None /\ elc' = [elc EXCEPT !.writing.val = Nothing]
  /\ UNCHANGED <<saved, seen, kreading, restored, tries, asked, trouble, ops>>

\* PrepareForSleep(false) reaches the plugin.
Resume ==
  /\ woken /\ woken' = FALSE
  /\ Reload
  /\ UNCHANGED <<shown, present, locked, ops, sleeps>>

Appear(l) ==
  /\ l \notin present
  /\ present' = present \cup {l}
  /\ UNCHANGED <<pluginVars, shown, locked, woken, asked, trouble, ops, sleeps>>

Unlock ==
  /\ locked /\ locked' = FALSE
  /\ UNCHANGED <<pluginVars, shown, present, woken, asked, trouble, ops, sleeps>>

-----------------------------------------------------------------------------
Repaints ==
  \/ \E c \in Colours : SetColor(c) \/ ApplyThemeColor(c)
  \/ \E l \in Lamps, R \in SUBSET Regions \ {{}}, c \in Colours : SetColors(l, R, c)
  \/ \E l \in Lamps, R \in SUBSET Regions \ {{}}, on \in BOOLEAN, last \in Colours : SetRegionOn(l, R, on, last)
  \/ \E percent \in {0, 100} : SetBrightness(percent)
  \/ LightsOff
  \/ RestoreLights
  \/ \E l \in Lamps, marked \in BOOLEAN : OverlayRead(l, marked)
  \/ AskReload

Next ==
  \/ Repaints
  \/ RgbReadExits \/ KbdReadExits \/ ElcRetry
  \/ \E l \in Lamps : RestoreTick(l)
  \/ WriteExits
  \/ Wake \/ Resume \/ Unlock
  \/ \E l \in Lamps : Appear(l)

Spec == Init /\ [][Next]_vars

\* Commands end or are killed, timers fire, the devices and the user return.
Fairness ==
  /\ WF_vars(RgbReadExits) /\ WF_vars(KbdReadExits) /\ WF_vars(WriteExits)
  /\ WF_vars(ElcRetry) /\ \A l \in {"rgb", "kbd"} : WF_vars(l \in Lamps /\ RestoreTick(l))
  /\ WF_vars(Resume) /\ WF_vars(Unlock)
  /\ \A l \in {"rgb", "kbd"} : WF_vars(l \in Lamps /\ Appear(l))

FairSpec == Spec /\ Fairness

-----------------------------------------------------------------------------
(* Properties *)

Jobs(e) == ({e.queue[i] : i \in DOMAIN e.queue} \cup {e.writing}) \ {None}

\* Every variable keeps its type, every job is for a lamp there is or for the
\* chassis' brightness, and no two waiting jobs share a key (enqueue).
TypeOK ==
  /\ saved \in Saved
  /\ seen \in BOOLEAN /\ locked \in BOOLEAN /\ woken \in BOOLEAN
  /\ {elc.reading, kreading} \subseteq {"no", "ready", "absent"}
  /\ elc.pending \in BOOLEAN /\ elc.retry \in BOOLEAN
  /\ \A job \in Jobs(elc) : job.dev \in Lamps \cup {"rgb"}
  /\ \A i, j \in DOMAIN elc.queue : QueueKey(elc.queue[i]) = QueueKey(elc.queue[j]) => i = j
  /\ restored \in [Lamps -> BOOLEAN]
  /\ tries \in [Lamps -> 0..MaxTries]
  /\ {shown, asked} \subseteq [Lamps -> ColourMaps]
  /\ present \subseteq Lamps /\ trouble \in [Lamps -> SUBSET Regions]
  /\ ops \in 0..MaxOps /\ sleeps \in 0..MaxSleeps

\* A status read and a write never have the AlienFX controller open together,
\* whatever timers, exits and requests do in between: two openers wedge it.
OneAtTheController == elc.reading = "no" \/ elc.writing = None

\* A waiting job, and a deferred read, always have something on its way that
\* will look at them again: a process whose exit pumps, or the retry timer.
SomebodyPumps ==
  /\ elc.queue # <<>> => elc.writing # None \/ elc.reading # "no" \/ elc.retry
  /\ elc.pending => elc.retry

\* The regions the plugin speaks for: while the lights are on those its next
\* repaint would name, while they are off the whole lamp.
Told(l) == IF saved.on THEN DOMAIN Lit(saved, l) ELSE Regions

Quiet(l) == (\A job \in Jobs(elc) : job.dev # l) /\ restored[l] /\ ~woken

\* Once the jobs of a lamp are done, every region the plugin speaks for shows
\* what the last of them said of it: what coalescing drops or moves back never
\* changes the outcome, although a map may leave out what an earlier one named.
LastWordShown ==
  \A l \in Lamps : Quiet(l) => \A r \in Told(l) \ trouble[l] : shown[l][r] = asked[l][r]

\* While the lights are off no repaint lights a lamp: not an overlay, a theme,
\* a region's switch, a restore after a suspend, nor one of their late jobs.
OffStaysOff == ~saved.on => \A l \in Lamps : restored[l] => asked[l] = AllDark

GaveUp(l) == ~restored[l] /\ tries[l] = MaxTries

\* The queue drains, and each lamp ends up with what was asked of the regions
\* the plugin speaks for: also after a suspend that hid the devices and a lock
\* that denied the keyboard, unless a write was lost for another reason or the
\* ladder ran out.
LightsSettle ==
  <>[](/\ elc.queue = <<>> /\ elc.writing = None
       /\ \A l \in Lamps : GaveUp(l) \/ \A r \in Told(l) \ trouble[l] : shown[l][r] = asked[l][r])

=============================================================================
