# A formal model of omarchy-alienware

omarchy-alienware puts the fans, platform profile, power limits and lights of an
Alienware laptop into a desktop panel.  A root daemon (`alienwarectl daemon`)
owns the hardware, a CLI relays single commands to it, and a Quickshell plugin
drives the CLI.  This directory holds TLA+ modules of the parts whose
correctness depends on the order in which things happen, their TLC
configurations, and theorems checked by TLAPS.

## 1. Inventory

| part | code | state it keeps | operations | talks to |
|---|---|---|---|---|
| fan-curve service | `helper/internal/daemon/service.go` | `active`, `last`, `cancel`, `done`, `savedProfile` under `mu`; start and stop serialised by `ctrl` | SetBoost, SetProfile, ApplyCurve, StopCurve, Stop; one goroutine per curve | sysfs (boosts, platform profile), polkit |
| daemon process | `daemon/run.go`, `daemon/notify.go`, `packaging/systemd/alienwarectl.service` | bus connection, watchdog goroutine | boot reset, serve, stop on signal or bus loss, final reset | systemd, D-Bus, the service |
| curve payload | `fan/curve.go` | none | Parse, Normalize, Interpolate | the service |
| hysteresis | `fan/hysteresis.go` | primed, boost, held temperature of one fan | Update, Reset | the curve goroutine |
| sysfs access | `hw/write.go`, `hw/read.go`, `hw/hw.go` | none (files under /sys) | SetBoost, ResetBoost, SetProfile, SetTurbo, SetPowerLimit, Snapshot, Temps | kernel |
| authorisation | `daemon/polkit.go`, `daemon/errors.go` | none | Authorize (up to 30 s), error names | polkit over the same bus |
| keyboard service | `daemon/keyboard.go` | the cached open device under `kbdMu` | SetKeyboardKeys, SetKeyboardAll, KeyboardOff, CloseKeyboard | hidraw |
| keyboard device | `kbd/*.go` | one open node | report sequences | hidraw |
| AlienFX session | `elc/session.go`, `elc/device.go` | an open, locked node | status, colours, off, brightness, identify, wedge probe | hidraw, USB reset |
| hidraw, USB reset | `hidraw/hidraw.go`, `usbreset/usbreset.go` | flock on a node | Open, find, Reset | kernel |
| client and CLI | `client/client.go`, `cli/cli.go` | none | one verb per process; `reset-fans` writes sysfs itself | daemon, AlienFX session |
| plugin service | `Service.qml` | write queue, in-flight command, restore ladders, saved state | enqueue/pump, watchdog, polls, restores, overlays | CLI |
| plugin model | `Model.js` | none | normalisation, overlays, command lines | plugin service |
| panel and widgets | `Panel.qml`, `BarWidget.qml`, `components/` | view state | user input | plugin service |
| packaging | `packaging/`, `scripts/` | files | install | systemd, polkit, udev |

What is hard here, part by part:

* **Fan-curve service.** Calls run in goroutines of their own, each curve is one
  more, and all of them write the same two kinds of sysfs attribute without a
  common lock.  Correct means: one driver at a time; a stop that is over stays
  over; no boost without somebody who will clear it; the user's profile comes
  back; nobody waits for ever.
* **Daemon process.** It may die between any two writes and the boost survives it
  in the kernel.  Correct means: each boost always has an heir that will clear
  it, and a stop that was asked for frees the fans.
* **Curve payload and hysteresis.** Clamping makes points coincide, readings come
  in any order.  Correct means: the accepted side is the function its points
  define, the boost lags it by a bounded amount, and fans do not chatter.
* **AlienFX session, hidraw, USB reset.**  Each `rgb` command is a process of its own;
  nothing but a flock with a timeout keeps two apart, any of them may be killed
  between two frames, and a controller fresh from a reset cannot be told from a wedged
  one by reading it.  Correct means: a play shows its own command's picture whole,
  success means shown, a controller is given up only when it is beyond help, and every
  command ends.
* **Keyboard service.**  Calls share one cached open device, which may have gone from
  under its handle and holds the flock for as long as it is cached.  Correct means: an
  update is one call's, a stale handle heals on the one retry, the daemon does not lock
  itself out, and shutdown gets past the calls that still come in.
* **sysfs access, authorisation, CLI.**  What the panel offers comes from readers, what
  is taken is decided by setters; a call outlives the command that made it; a driver
  may go between check and write.  Correct means: the status foretells what is taken,
  what was printed as done stands, no number is cut into something insane, and calls
  end though polkit never answers.
* **Plugin service.** One write and one status read may each be running, never
  both on the AlienFX controller; jobs wait, coalesce, fail, are denied or killed;
  overlays, themes, restores and the user all repaint.  Correct means: one at the
  controller, no job forgotten, the last word shown, off stays off, and lights and
  profile come back after a suspend without fighting the user.

`PROJECT.json` lists every hazard at its line, with the properties that would
catch it, or the reason why none does yet.

## 2. Modules

| module | models | role |
|---|---|---|
| `FanPromise` | what the service promises about the fans | abstract specification |
| `CurveControl` | `service.go`, with the sysfs writes it makes | core |
| `CurveRefinement` | the mapping from CurveControl to FanPromise | refinement |
| `DaemonLifecycle` | `run.go` and the systemd unit around CurveControl | composition |
| `FanCurve` | `fan/curve.go` | pure operators |
| `FanHysteresis` | `fan/hysteresis.go` under `Service.tick`, over FanCurve | one fan, from the side that is sent to its boost |
| `Hidraw` | finding a node and cutting lists into frames | operators |
| `AlienFX` | `elc/`, `usbreset/` and the `rgb` verbs, over Hidraw | processes and one controller |
| `ErrorCodes` | error names and codes from the device layer to the CLI | operators |
| `Keyboard` | `daemon/keyboard.go`, `kbd/` and the `kbd` verbs, over Hidraw and ErrorCodes | handlers and one cached device |
| `Sysfs` | `hw/`: the snapshot and the setters | operators on a tree |
| `Relay` | one setting from the plugin's command to sysfs, over Sysfs and ErrorCodes | composition |
| `PluginQueue` | the write queue of `Service.qml` and the AlienFX gate of `Model.js` | operators |
| `PluginLights` | the lighting half of `Service.qml` over the queue, with both lamps | composition |
| `PluginProfile` | the profile's snapshot and restore ladder over the queue | composition |
| `MC...` | instances, symmetry and reference definitions for TLC | runs |
| `DataProofs` | lists cut into frames, flattened, carried along and folded | lemmas |
| `CurveControlProofs`, `DaemonLifecycleProofs`, `FanHysteresisProofs`, `AlienFXProofs`, `KeyboardProofs`, `RelayProofs`, `PluginLightsProofs` | | proofs |

### CurveControl

A caller (`pc[t]`) is a goroutine serving one D-Bus call; `Main` is the main
goroutine, which calls `Service.Stop` once.  A loop (`loop[l]`) is one
`Service.run`.  The step boundaries are the places where another goroutine can
get in between: each sysfs access, each lock, the wait for `done`, and the
polkit call are steps of their own; code between them that touches only locals,
or only fields under `mu`, belongs to one step.

| code | model |
|---|---|
| `ctrl` mutex | `ctrl`, its holder |
| `active`, `cancel`, `done` (always set and cleared together) | `cur`, the published goroutine |
| `savedProfile`, local `saved` | `saved`, `kept[t]` |
| local `done` in `stopLocked` | `taken[t]` |
| context cancelled | `cancelled` |
| fan boosts in sysfs | `driver[f]`: *who* put the boost there, nobody when it is 0 |
| `platform_profile` | `profile` |

`stopLocked` is `TakeCurve`, `CancelCurve`, `AwaitDone`, `StopReset` (two writes,
cpu first), `StopReadProfile`, `StopRestoreProfile`; `startCurveLocked` is all of
that and then `StartReadProfile`, `StartSetCustom`, `PublishCurve`; `run` is
`Tick` (two writes), `NextTick`, `SeeCancel`, `Panic`, `Recover`, `LoopReset`,
`CloseDone`.  `Faults` says what may go wrong: a refused write, an unreadable
profile, a panic.

Three variables are history, read by properties only: `stuck` (fans whose last reset
the kernel refused), `chosen` (the profile the user last got) and `clean`.  The
last one records the cases in which the code does not promise to bring the choice
back: a choice that lands inside a start or stop (a finding shows what
happens then), `custom` chosen while a curve runs (the code cannot tell it from
its own), an unreadable or refused profile, and a panic (the saved profile is
dropped with the curve).

Left out: `last`, which only Status reads; boost values (FanHysteresis has them);
SetTurbo, SetPowerLimit and the keyboard methods, which share no state with it (Relay
and Keyboard have them).

### DaemonLifecycle

`phase` is where the process and its unit are: `boot` reset, `up`, `stopping`
(`svc.Stop` running), `final` reset, `logged`, then `gone` and `post`, which are
ExecStopPost's two writes.  `Crash` can happen in every live phase and stands for
SIGKILL, a panic outside the recovered goroutine, the OOM killer, and the error
returns of `Run` before it serves.  `LoseBus` keeps the process alive: calls past
their checks go on, new ones do not come and polkit can only be taken for a no.
TimeoutStopSec is counted from `STOPPING=1`, which `Run` sends on both ways
to its end.  `Hang` blocks a curve goroutine in a sysfs call for good.  One
process runs at a time, which is what the unit guarantees; a second daemon started
by hand is a hazard without a property.

### FanCurve and FanHysteresis

The operators carry the Go names.  Temperatures are whole degrees (sysfs has
thousandths; the code compares and interpolates doubles).  `RoundHalfUp` is
`math.Round` on exact fractions: the code divides first, in double precision, and
may give one less at an exact half.  `sort.SliceStable` is the insertion sort that Go's
library uses for so few points, as a fold of `insertByTemp`: which of two points at one
temperature comes first is the code's, not left to a choice.

FanHysteresis starts from the side of a payload (`sent`), which Parse has accepted as
`points` or not; an accepted one is followed through ticks with any temperature, in any
order, or with an unreadable sensor, which resets the state and writes 0.

### AlienFX and Hidraw

A process (`proc[p]`) is one `alienwarectl rgb ...`.  Its steps are the kernel's: open,
each attempt to lock, each status read and each frame; whatever lies between two of
them is local.

| code | model |
|---|---|
| `devicePath`, `open`, `hidraw.Open` | `OpenNode`, `TakeLock`, `LockTimesOut` |
| `looksWedged`, `probeWedged`, `openWithReset` | `ProbeAnswers`, `ProbeReadsZero`, `StillZero`, `USBReset`, `CannotReset` |
| a command's frames | `proc[p].script`, built by the code's own functions from the command line |
| `WaitForReady`, `send` | `Ready`, `ReadyTimesOut`, `Send`, `IOFails` |
| the controller | `firmware` (ok, fresh, wedged, busy), `program`, `leds`, `dim` |
| /dev/hidrawN | `node`, and `file`, the node a process has open |

The lock belongs to the node, so it is lost with it: a process that opened the node
before a reset holds the lock of a dead one, and its frames fail.  What the firmware
does with a frame (`Receive`) is external: a program of colours is cleared by
remove and start-new, and shown by finish-play.  The session finds a controller under
two product ids, the reset under the first only (`CannotReset`).  `disturbed` is
history: processes under whose session the controller wedged, vanished or was reset
by another.  No read tells them, so the properties excuse them; the code closes the
node, and with it the lock, before it resets, and docs/hardware.md:106-113 says what a
reset does.

### Keyboard

A call (`call[c]`) is one handler goroutine.  `kbdMu` is held from `TakeMutex` to
`Finish`; inside it are `GetDevice`, the lock of a newly opened node, and one step per
report.  `SendFails` is a report's error with all that `applyKeyboard` does about it:
drop the device, and try once more or return.  `files` are the daemon's open, and so
locked, nodes; forgetting to close one is what `BusyIsForeign` looks for.  `Signal`,
`CloseKeyboard` and `Exit` are the shutdown, `Crash` and `Restart` systemd's part.
`staged` and `keys` are the firmware's (external): an update shows the colours since
the last reset report.  KeyboardStatus, which only reads, is left out.

### Sysfs and Relay

A tree is what /sys holds: hwmon directories in the order of their names, attributes, which of
them are read only or refused by the kernel, and the graphics card.  An attribute whose
text cannot be parsed is a missing one.  `Snapshot` is every reader; `Refusal`,
`WriteError` and `Written` are a setter before, at and after its write.

In Relay the plugin has one command running (`served`); the daemon has a goroutine per
call, which asks polkit, checks, writes and answers, one step each.  `Kill` is the
plugin's watchdog: the call goes on without its command.  `AuthorizeTimesOut` is the
30 seconds of `authorizeTimeout`.  `Restart` carries both resets of the fans.  Numbers are
cut to `Words` when they are sent.  History: `said`, what the commands that printed ok
had put in each attribute, and `late`, the attributes that a call without a command has
written.  Left out here: the check of an active curve in SetBoost (CurveControl has it),
and the plugin's queue.

### PluginQueue, PluginLights, PluginProfile

QML runs each handler to its end, so a handler is one action, and the functions it
calls are operators from one queue record to the next: `Enqueue`, `Pump`,
`RefreshRgb`, `Retry`.  What interleaves is process exits (`RgbReadExits`,
`KbdReadExits`, `WriteApplied`, `WriteDenied`, `WriteFailed`, `WriteKilled`), timers
(`ElcRetry`, `RestoreTick`), requests (`SetColor`, `LightsOff`, `OverlayRead`, ...) and
the machine (`Wake`, `Resume`, `Appear`, `Unlock`).

| code | model |
|---|---|
| `queue`, `writeProc`, `rgbProc`, `rgbRefreshPending`, `elcRetry` | the record `elc` |
| `regionColors`, `regionOn`, `keyColors`, `keyOn`, `lightsOn`, battery and mute state | `saved` |
| `lightsRestored`, `keyboardRestored`; `...RestoreTries` | `restored`, `tries` |
| a set-map command line | a partial map from regions to colours |
| the LEDs | `shown`, what the firmware or the last commands left |

A lamp has any number of regions, `Special` standing for those an overlay may claim.
`saved.colour` holds a partial map for each lamp, as the state file does: a region that
is switched on and has no colour of its own is left out of `Effective`, and so of every
map that is sent, unless the overlay names it, and a map that names nothing is not
enqueued (`RepaintAny`).  That is the usual lamp: the panel keeps the power button out of
the selection while the battery shows there, and a keyboard that was never painted
has no colours at all.  `Told` is what the plugin speaks for: while the lights are
on the regions of `Lit`, while they are off the whole lamp, which `off` names.
Brightness is a job without a colour.  A status read remembers what it saw when it
started and may report that or what is true at its end, so a read that a suspend
interrupts may be stale.  History: `asked`, what the lamps would show had every job
been done at once, and `trouble`, each lamp's regions whose last write was lost to a
failure or a kill, which the code does not repeat.

`LastWordShown` and `LightsSettle` speak of the regions in `Told` that are not in
`trouble`, and both limits are the code's.

* A region that only the overlay named is named by nobody once the overlay goes away.
  With `{w: red}` saved and a write running, mute queues `{w, volmute}` and unmute
  queues `{w}` in its place: `volmute` lights up or not, depending on whether the
  first job had started.  Had it, the key stays red after the unmute, for no later map
  says what it should show.  docs/behaviour.md:27 ("the two mute keys follow PipeWire")
  and the tests of model.test.js:1538-1562 (on maps whose regions only grow) do not
  meet this case.  For the whole lamp `LastWordShown` would be false.
* A restore whose write fails, for any reason but a refused authorisation, is not
  repeated: neither one that a status read from before the suspend released too early
  (Service.qml:965), nor another (Service.qml:437).  docs/behaviour.md:15-16 says
  that the ladders cover the time until the devices are back; they do as long as the
  status read tells the truth, and no property here catches it when it does not.

Left out: `identify`, a change of the mute colour or of the two sync switches
themselves (beyond the push that the switches cause), jobs for
fans and power limits, which share nothing but the queue, and a daemon call that goes
on after its client was killed (Relay has it).  PluginProfile leaves out choices made in the
panel, which the ladder treats like any other.

## 3. Runs

| run | instance | shows |
|---|---|---|
| `curve` | 1 call + shutdown, 2 loops, 3 profiles; panics, unreadable profiles | TypeOK; `SingleDriver`; `CurveBoostOwned`; `CurveSilenced`; `ProfileKept`; `KeepsPromise`, the refinement of FanPromise |
| `life` | 1 call + shutdown, 1 loop; refusals, panics, hangs, crashes; fairness | `BoostHasAnHeir`; `StopFreesFans`; `StopReturns` |
| `fan` | every raw side of 0 to 3 points over 5 temperatures and 5 boosts on, inside and beyond the limits, and one with 9 points; 4 of them (rising, plateau, falling, valley) driven with 3 hystereses through readings 0..10 | TypeOK; `SideIsByDefinition`; `NormalizeIsStable`; `InterpolateFollowsThePoints`; `WithinBand`; `RisingBand`; `NoChatter` |
| `alienfx` | 2 processes, 2 commands of 6 kinds, 2 regions of 1 and 2 zones, 2 node numbers, 2 product ids; kills, wedges, resets, a busy and a vanishing controller; fairness | TypeOK; `PlayShowsOwn`; `OkMeansShown`; `WedgedOnlyWhenIncurable`; `CommandsEnd` |
| `keyboard` | 2 calls of 6 kinds, 3 keys in frames of 2, 2 node numbers; unplugging, refusals, another program, stop and crash; fairness | TypeOK; `UpdateShowsOwn`; `StaleHandleHeals`; `BusyIsForeign`; `CallsEnd`; `StopEnds` |
| `relay` | 2 goroutines, 2 commands of 11 kinds, 9 trees, 1 attribute or driver that goes; kills, crashes; fairness | TypeOK; `StatusForetellsWrites`; `SaidStands`; `WritesAreSane`; `CallsEnd` |
| `plugin_lights` | 2 lamps of 2 regions, the chassis coloured but for the power button and the keyboard never painted, lights on at first; 2 requests beside the restores at start; writes fail and hang | TypeOK; `OneAtTheController`; `SomebodyPumps`; `LastWordShown`; `OffStaysOff` |
| `plugin_suspend` | 2 lamps with every region coloured, 2 suspends, devices and session back at any time; fairness | `LightsSettle` |
| `curve_manual_boost` | 2 calls, 1 loop | **violated**: `BoostRefusedUnderCurve` |
| `curve_profile_race` | 2 calls, 1 loop, 3 profiles | **violated**: `StopSparesChoice` |
| `life_hung_loop` | 1 call, 1 loop that may hang; fairness | **violated**: `HungLoopRestarted` |
| `plugin_profile` | 2 profiles, 1 suspend, 1 choice of the user | **violated**: `NeverFought` |

What the violated ones say: SECURITY.md's "`SetBoost` is refused while a curve is
running" does not hold for a call that has already looked at `active`; a profile
chosen between the read and the write of `stopLocked` is overwritten by the saved one, a
third (balanced by performance, say), although the code and a test mean to spare it; `WatchdogSec` does not restart a hung loop,
since the pings come from another goroutine; and "never fought" does not hold around
a suspend, where the ladder writes its snapshot over a profile the user has chosen
since the last poll before it, or during its eight tries.

Bounds, and why they are enough.  Callers are interchangeable but for Main, which
calls Stop: the races of the service are between one call at a sysfs access and one in
its critical section, so a call and the shutdown show each pair but those of two
handlers, which the two violated runs have, and the proofs remove the bound.  (With two
calls, two profiles and panics `curve` has 3.3 million states and holds as well; it takes too long to be
run each time.)  Two goroutines are alive at once only when one that
panicked is still cleaning up while the next runs, so two identities reach it.
`PublishCurve` waits for a free identity, the one bound written into a guard.
`curve` has refused writes off and `life` has them on: what they
threaten is a boost nobody clears, which `BoostHasAnHeir` is about, and the proofs of the
service's own properties hold with every fault on.  `life` has one loop: it asks who is
waited for, and nobody waits for a loop that panicked.  In
`fan` three points are enough to have a duplicate beside a distinct point, and
each limit is met from both sides.

`alienfx` needs two commands in two processes for each conflict: one that holds the
lock, is killed or resets, and one that comes beside or after it; a node number more
shows a handle that outlives its node, and a frame capacity of 2 gives the three
zones a full and a partial frame.  `keyboard` has the same shape; the second call finds
what the first has cached, staged or left open.  In `relay` two commands show an orphan
beside its successor; `Words` is 2048, so that a typed number is cut to one the daemon
takes as 2^32 cuts it, and every tree lacks, protects or refuses something else.

In `plugin_lights` the restore at start already fills the queue, so two requests give
three writers of one key, enough to coalesce across a job of another kind; one colour is
enough, since dark, the overlay and the firmware's are three more. It starts from two
lamps of which the plugin does not speak for every region, so that maps leave regions
out, name them for an overlay only, or are empty; requests colour and switch the rest.
Its lights are on at first, and a request switches them off before, during or after the
restores; `plugin_suspend` starts with them on and off. The specification starts from
any partial colours, which TLC need not enumerate, since the proofs do. `plugin_suspend`
starts with every region coloured, which gives a suspend the most to bring back, and
needs no request (those of `plugin_lights` end in the same queue) and has a second
suspend to interrupt the restore after the first. Two ticks of a ladder are alike, so
`MaxTries` is 1 (30 in the code), and a ladder that ran out is an excuse in
`LightsSettle`. Both stop once their bounds are used up, hence CHECK_DEADLOCK FALSE.

Fairness.  In the plugin commands end or are killed by the watchdog, timers fire, the
devices re-enumerate and the user unlocks: weak fairness of each.  In the daemon
(`LifecycleFairness`).  Go schedules every runnable goroutine: weak
fairness of each caller's and each loop's steps.  A Go mutex hands itself over in
arrival order once a waiter has starved for a millisecond, and `select` chooses
at random among ready cases: strong fairness of `TakeCurve` and `SeeCancel`.
`Run` and systemd take their steps, the stop timeout and the watchdog among them.
In `AlienFX` each process is scheduled, deadlines included, and nothing is assumed of the
controller, of kills or of further commands; in `Keyboard` each handler and the main
goroutine are (a mutex waiter need not win: calls are bounded, so weak fairness of the
handlers is enough); in `Relay` each handler with its timer is, and polkit, the daemon's
restart and the plugin owe nothing.
Nothing is assumed of calls arriving, polkit answering, signals, the bus, or a
second start; a hung loop takes no more steps.

`BoostHasAnHeir` counts a hung loop as one that will still reset its fan: while
the daemon is up the code has no answer to a hang (`life_hung_loop`), and once a
stop is asked for `StopFreesFans` says that the fans come free all the same.

Each property of a passing run has a mutant in `PROJECT.json`: a slip a change
of the code could make, written as an operator beside the action it replaces
(`AwaitNothing`, `TakeCurveUnlocked`, `dedupKeepingLast`, ...), under which TLC finds
the property violated.

## 4. Proofs

For every number of callers, loops and profiles, from `CurveAssumption` (the
constants are distinct, `custom` is a profile):

* `TypeCorrect`, `OneDriver`, `NoBoostLeftBehind`, `StopSilences`, `ChoiceKept`:
  the invariants of the runs.  None but the first and third is inductive.  The invariant
  `IInv` says why they hold: `ctrl` is held by exactly the caller inside the section
  (`LockHeld`); inside it no curve is published except by an ApplyCurve about to
  return (`NothingPublished`); and a goroutine in its for loop is either the published
  curve or the one that the holder of `ctrl` has taken and waits for
  (`DriverKnown`).  So two drivers would be two taken curves, hence two holders.
  `SilencedSoFar` extends `CurveSilenced` to the point between the two writes of a
  reset, and `ChoiceTracked` says where the user's choice is at each step of a start
  and a stop.
* `PromiseKept`: `Spec => KeepsPromise`, the refinement.  Each step maps to a step of
  FanPromise or a stutter; opening a session needs `SingleDriver` after the
  step and `CurveSilenced` before it, closing one needs `CurveBoostOwned` after it.

* `BoostsAreInherited`: the lifecycle's `BoostHasAnHeir`, for any number of callers and
  loops.  `LInv` is the property with the types it needs; each step of the service is
  disposed of at once, for a step that writes a boost leaves its writer an heir, and each
  step of `Run` and systemd either keeps the heirs of its phase or hands them on.

For every number of processes, zones, regions and nodes, from `AlienFXAssumption`,
`TableAssumption` and `RequestsAssumption` (the region table and a command's parts are
lists) and `NeighboursAssumption` (no other device calls itself by the controller's ids):

* `AlienFXTyped`, `PlaysAreOwn` (`PlayShowsOwn`), `OkIsDone` (`OkMeansShown`) and
  `WedgedIsTheLastWord` (`WedgedOnlyWhenIncurable`).  The invariant `AInv` says that a
  node has one holder (`Exclusive`), and ties what a process has still to send to the
  controller: `proc[p].script` is a suffix of the frames of its command, and, as long as
  its session is undisturbed, `program` holds exactly the colours of the frames sent since
  the last one that clears (`Staged`), and the zones of the last play stand in `leds`.
  So when finish-play is next, `program` is the whole picture, and only the picture, of
  that command: what a killed process had staged was cleared, which is the invariant's
  point.  A session whose reset healed the controller (`Healed`) does not find it wedged,
  nor fresh once it has primed it, hence the last word.
* What the frames of a command add up to is a lemma per command (`MapScript`,
  `AllScript`, `BrightnessScript`, `IdentifyScript`, joined in `ScriptsOK`), for any map, over the lemmas of
  `DataProofs`: chunks of a list cover it (`ChunksCover`), and a flattened list lays its
  parts one after the other (`FlattenLays`).

For every number of calls, keys and nodes, from `KeyboardAssumption` and
`RequestsAssumption`:

* `NeverLocksItselfOut` (`BusyIsForeign`) and `RetryHeals` (`StaleHandleHeals`).  The
  invariant `KInv` says that a call between lock and return holds `kbdMu`
  (`MutexHeld`), that the daemon has no file open but the cached device's (`OneFile`),
  that a call which locks finds none cached (`LocksAfresh`), and that a second attempt
  has the keyboard's own node, unless the keyboard went away under it (`SecondAttempt`).
* `KeyboardTyped` and `UpdatesAreOwn` (`UpdateShowsOwn`).  `ShowInv` says of the call
  inside the section what it has sent since its reset report, and that `staged` holds
  exactly those colours while the keyboard is the one it opened; an attempt that fails
  leaves a staged rest which the next script's reset throws away.

For any requests, trees and number of goroutines, from `RelayAssumption`,
`RequestsAssumption` (what can be typed) and `TreesAssumption` (`Sound`: an
attribute is one of the known ones and holds a value of its kind, a boost 0..255):

* `RelayTyped`, `NothingUnfitWritten` (`WritesAreSane`), `WhatWasSaidStands`
  (`SaidStands`) and `StatusForetells` (`StatusForetellsWrites`).  `RelayInv` says that
  the tree stays sound whatever is written or goes, that what a call carries is lawful
  once it is checked, and that the served handler's call is the one the command waits
  for.  `SentLawful` carries a typed number through its narrowing to `Words`; the
  `...Foretold` lemmas compare what a reader shows with what the setter's checks accept.

For any regions, colours, requests, suspends and ticks, from `LightsAssumption` (None is
no job, the three special colours are nobody's choice):

* `OneOpener` (`OneAtTheController`), `QueuePumped` (`SomebodyPumps`) and `LightsTyped`:
  each operator of PluginQueue keeps a queue sound (`ElcOK`) and, once pumped, pumped.
* `LastWordStands` (`LastWordShown`) and `OffIsOff` (`OffStaysOff`).  The invariant
  `Promised` says what the queue will come to for each restored lamp.  While the lights
  are on it *settles* the regions `Speaks` that a repaint would name now: for each, the last
  waiting job that names it, or else the running write, or else the lamp, has the colour
  asked for.  Nothing is promised of a region no repaint names, which may have
  been lost with a job that an overlay's end replaced; so a request that comes to speak
  for more must queue a job that names them (`RequestKeeps`), and each one in the code does,
  unless the lamp is left with nothing to say.  While they are off
  that would not be inductive, for a region's switch then queues a job that names a few
  regions only, and takes the place of a waiting job that named all of them; instead the
  queue *darkens*: whatever would light the lamp has the off job behind it.  What darkens
  settles on the dark (`DarkSettles`), so the lights may be switched on again, and switching
  them off queues a job that claims each restored lamp (`Claims`).
  Every step keeps the promise because coalescing keeps the jobs of the other keys in their
  order (`Coalesced`, `CoalesceOther`, `CoalesceOwn`) and a pump only moves the first job
  (`PumpKeeps`); a failed write voids the promise for the regions it named (`Lost`) until
  another paints them.
* `Coalesce`, `EnqueueAll` and `Said` are recursive functions; what they return is derived
  from the least-number principle (`SiftedExists`, `EnqueuingRuns`, `SayingRuns`).

For every set of sides a payload may carry, hystereses and temperatures, from
`HysteresisAssumption` (points are pairs of integers, hystereses naturals):

* `SideIsItsDefinition` (`SideIsByDefinition`).  `SortStep` and `DedupStep` say what one
  round of each loop of normalizePoints keeps: after i insertions the points so far are in
  order and are those sent (`Sorted`), after i rounds of the second loop each temperature
  seen has one point, its loudest, in rising order (`Deduped`).  That the folds run through such rounds
  is `InsertRuns` and `DedupRuns`, from `FoldExists` of DataProofs; the last round is found
  with the least-number principle.  The number of points left is the number of clamped
  temperatures by a bijection, which is what validateSide counts.
* `AcceptedTwice` (`NormalizeIsStable`): both loops leave a side alone whose temperatures
  already rise strictly within the limits (`AcceptedIsStable`).
* `BoostInRange` (`TypeOK`) and `SideIsOrdered`: what is followed is an accepted side or an
  empty one, so the theorems below rest on no assumption about accepted sides.
* `LagIsBounded` and `NeverChatters`, from the invariant `Held`: the boost is the
  curve's at the held temperature, which is at most `hysteresis` above the
  reading and never above the hottest reading since the fan was primed or slowed.
  They rest on `InterpolateInRange`, and that on `MinOfNats`, the least-number
  principle of `DataProofs`.
* `CurveIsFollowed` (`InterpolateFollowsThePoints`) and `LagHasTwoSides` (`RisingBand`).
  `OnTheLine` says that on every closed segment the boost is the line's, unclamped,
  whichever of two neighbouring segments the scan finds first; `LineEnds`, `LineRises` and
  `LineFalls` bound the line and its order, for rounding keeps the order (`RoundRises`)
  and whole boosts (`RoundExact`).  Over a whole side, `InterpolateRises`: on one whose
  boosts never fall, a hotter reading asks for no less.

Only model-checked: the liveness properties `StopFreesFans`, `StopReturns`,
`LightsSettle`, `CommandsEnd`, `CallsEnd` and `StopEnds` (fairness and ENABLED are beyond
the prover).  Every invariant and action property of a passing run is a theorem.

## 5. Plan

1. *Done:* CurveControl, FanPromise and the refinement; DaemonLifecycle; FanCurve;
   FanHysteresis; their runs; the proofs above.
2. *Done:* Hidraw, AlienFX, ErrorCodes and Keyboard: both lighting devices, their locks,
   resets, retries and shutdown; the proofs about the cached keyboard.
3. *Done:* PluginQueue, PluginLights, PluginProfile and their runs.
4. *Done:* Sysfs and Relay: every reader and setter, and a call that outlives its
   command.
5. *Done:* the proof of `BoostHasAnHeir`; the proofs about both lighting devices, Relay,
   the plugin's lights and the curve payload.
6. *Open:* the plugin's queue over Relay, with several jobs and late calls; what
   PluginProfile guarantees of a drift when nobody chooses.
7. *Open:* pure operators of Model.js (`normalizeCurve`, the bar's formatting) against
   FanCurve; an abstract specification of the queue that PluginQueue implements.

## 6. Not modelled

The byte layout of HID reports (a frame is a record of what it says), error wording,
the JSON of the status and of answers, KeyboardStatus and keyboard brightness (reads,
and a report no call of the daemon sends), the environment variables that name a device,
layout and input of the panel and widgets, and packaging other than the systemd unit.
A second daemon started by hand, and a crash's loss of the saved profile, are
hazards without a property: nothing in the code or its docs promises more.
