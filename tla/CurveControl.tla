---------------------------- MODULE CurveControl ----------------------------
(***************************************************************************)
(* The fan-curve half of the alienwarectl daemon                           *)
(* (src/helper/internal/daemon/service.go).                                *)
(*                                                                         *)
(* Every D-Bus call runs in a goroutine of its own (a caller); a curve is  *)
(* one more goroutine (a loop), started by ApplyCurve and stopped by       *)
(* StopCurve, by the next ApplyCurve and by the daemon's own shutdown,     *)
(* which runs Stop on the main goroutine.  They meet in two sysfs          *)
(* attributes, the fan boosts and the platform profile, which no lock      *)
(* guards: `ctrl' serialises starts and stops, and `mu' makes each update  *)
(* of the Service's fields one atomic step.                                *)
(*                                                                         *)
(* Temperatures and boost values are abstracted: all that is kept of a     *)
(* boost is who put it there.  FanHysteresis has the values.               *)
(***************************************************************************)
EXTENDS Naturals, FiniteSets

CONSTANTS
  Handlers,   \* goroutines serving D-Bus calls
  Main,       \* the daemon's main goroutine, which only calls Service.Stop
  Loops,      \* identities of curve goroutines, reused once one has ended
  Profiles,   \* platform_profile_choices
  Custom,     \* the profile "custom"
  None,       \* nil, "" or nobody, according to the variable
  Manual,     \* the origin of a boost written by the SetBoost method
  Faults      \* what may go wrong: a subset of AllFaults

AllFaults == {"refuse", "unreadable", "panic"}

ASSUME CurveAssumption ==
  /\ Main \notin Handlers
  /\ Custom \in Profiles
  /\ None \notin Handlers \cup {Main} \cup Loops \cup Profiles
  /\ Manual \notin Loops \cup {None}
  /\ Faults \subseteq AllFaults

Callers == Handlers \cup {Main}
Fans == {"cpu", "gpu"}

VARIABLES
  driver,     \* driver[f]: who wrote the boost f carries, None when it is 0
  stuck,      \* history: fans whose last reset the kernel refused
  profile,    \* the platform profile
  cur,        \* the published curve: active, cancel and done together
  saved,      \* savedProfile
  ctrl,       \* the holder of the ctrl mutex
  loop,       \* loop[l]: where curve goroutine l is
  cancelled,  \* loops whose context is cancelled
  pc,         \* pc[t]: where caller t is
  starts,     \* starts[t]: t runs startCurveLocked, not just stopLocked
  taken,      \* taken[t]: the local `done' of stopLocked
  kept,       \* kept[t]: the local `saved' of stopLocked and startCurveLocked
  chosen,     \* history: the last profile the user got
  clean       \* history: nothing excuses losing that choice (see ProfileKept)

fanVars == <<driver, stuck>>
curveVars == <<cur, saved, ctrl>>
loopVars == <<loop, cancelled>>
profileVars == <<profile, chosen, clean>>
localVars == <<starts, taken, kept>>
vars == <<driver, stuck, profile, cur, saved, ctrl, loop, cancelled,
          pc, starts, taken, kept, chosen, clean>>

\* `served' is where Main stays once its only Stop has returned.
CallerPC == {"idle", "boost_auth", "boost_check", "boost_write",
             "profile_auth", "profile_write",
             "curve_auth_fan", "curve_auth_profile",
             "lock", "cancel", "wait", "reset_cpu", "reset_gpu",
             "stop_read", "stop_restore",
             "start_read", "start_custom", "publish", "return", "served"}

LoopPC == {"free", "tick_cpu", "tick_gpu", "select", "recover",
           "reset_cpu", "reset_gpu", "close"}

\* The loop's goroutine is still in its for statement.
Driving(l) == loop[l] \in {"tick_cpu", "tick_gpu", "select"}
Live(l) == loop[l] # "free"

TypeOK ==
  /\ driver \in [Fans -> Loops \cup {Manual, None}]
  /\ stuck \subseteq Fans
  /\ profile \in Profiles
  /\ cur \in Loops \cup {None}
  /\ saved \in Profiles \cup {None}
  /\ ctrl \in Callers \cup {None}
  /\ loop \in [Loops -> LoopPC]
  /\ cancelled \subseteq Loops
  /\ pc \in [Callers -> CallerPC]
  /\ starts \in [Callers -> BOOLEAN]
  /\ taken \in [Callers -> Loops \cup {None}]
  /\ kept \in [Callers -> Profiles \cup {None}]
  /\ chosen \in Profiles
  /\ clean \in BOOLEAN

Init ==
  /\ driver = [f \in Fans |-> None]
  /\ stuck = {}
  /\ profile \in Profiles
  /\ cur = None
  /\ saved = None
  /\ ctrl = None
  /\ loop = [l \in Loops |-> "free"]
  /\ cancelled = {}
  /\ pc = [t \in Callers |-> "idle"]
  /\ starts = [t \in Callers |-> FALSE]
  /\ taken = [t \in Callers |-> None]
  /\ kept = [t \in Callers |-> None]
  /\ chosen = profile
  /\ clean = TRUE

-----------------------------------------------------------------------------
(* The two sysfs attributes *)

\* hw.Reader.SetBoost, and one write of ResetBoost: the fan now carries who's
\* boost, or the kernel refuses and it carries what it carried.
WriteBoost(f, who) ==
  \/ /\ driver' = [driver EXCEPT ![f] = who]
     /\ stuck' = stuck \ {f}
  \/ /\ "refuse" \in Faults
     /\ driver' = driver
     /\ stuck' = IF who = None THEN stuck \cup {f} ELSE stuck

\* hw.Reader.SetProfile from stopLocked and startCurveLocked, where a failure is only
\* logged.
SwitchProfile(p) ==
  /\ chosen' = chosen
  /\ \/ profile' = p /\ clean' = clean
     \/ "refuse" \in Faults /\ profile' = profile /\ clean' = FALSE

GoTo(t, from, to) == pc[t] = from /\ pc' = [pc EXCEPT ![t] = to]

LoopTo(l, from, to) == loop[l] = from /\ loop' = [loop EXCEPT ![l] = to]

-----------------------------------------------------------------------------
(* Slips a change of the code could make, for the properties to catch *)

\* stopLocked cancels the curve without waiting for its goroutine.
AwaitNothing(t) ==
  /\ GoTo(t, "wait", "reset_cpu")
  /\ UNCHANGED <<fanVars, profileVars, curveVars, loopVars, localVars>>

\* StopCurve and shutdown call stopLocked without taking ctrl.
TakeCurveUnlocked(t) ==
  /\ GoTo(t, "lock", "cancel")
  /\ starts[t] => ctrl = None
  /\ ctrl' = IF starts[t] THEN t ELSE ctrl
  /\ taken' = [taken EXCEPT ![t] = cur]
  /\ kept' = [kept EXCEPT ![t] = saved]
  /\ cur' = None
  /\ saved' = None
  /\ UNCHANGED <<fanVars, profileVars, loopVars, starts>>

\* The saved profile is put back even when it was unreadable.
RestoresAnything(t) == taken[t] # None /\ kept[t] # Custom

\* A stop restores without looking at what the profile is now.
StopReadNothing(t) ==
  /\ GoTo(t, "stop_read", "stop_restore")
  /\ UNCHANGED <<fanVars, profileVars, curveVars, loopVars, localVars>>

\* StartCurve takes ctrl and does not release it.
ReturnHoldingCtrl(t) ==
  /\ GoTo(t, "return", IF t = Main THEN "served" ELSE "idle")
  /\ ctrl' = IF starts[t] THEN ctrl ELSE None
  /\ taken' = [taken EXCEPT ![t] = None]
  /\ kept' = [kept EXCEPT ![t] = None]
  /\ starts' = [starts EXCEPT ![t] = FALSE]
  /\ UNCHANGED <<fanVars, profileVars, cur, saved, loopVars>>

\* run returns without the deferred reset.
SeeCancelWithoutReset(l) ==
  /\ l \in cancelled
  /\ LoopTo(l, "select", "close")
  /\ UNCHANGED <<fanVars, profileVars, curveVars, cancelled, pc, localVars>>

-----------------------------------------------------------------------------
(* Handlers that do not touch the curve *)

\* A D-Bus call arrives: SetBoost, SetProfile and ApplyCurve ask polkit first,
\* StopCurve goes straight to Stop.
Arrive(t) ==
  /\ t \in Handlers
  /\ \/ GoTo(t, "idle", "boost_auth") /\ starts' = starts
     \/ GoTo(t, "idle", "profile_auth") /\ starts' = starts
     \/ GoTo(t, "idle", "curve_auth_fan") /\ starts' = [starts EXCEPT ![t] = TRUE]
     \/ GoTo(t, "idle", "lock") /\ starts' = [starts EXCEPT ![t] = FALSE]
  /\ UNCHANGED <<fanVars, profileVars, curveVars, loopVars, taken, kept>>

\* polkit answers: yes, and the handler goes on, or the call ends with Denied
\* (or with BadRequest, for an argument out of range).
Authorize(t) ==
  /\ \/ GoTo(t, "boost_auth", "boost_check")
     \/ GoTo(t, "profile_auth", "profile_write")
     \/ GoTo(t, "curve_auth_fan", "curve_auth_profile")
     \/ GoTo(t, "curve_auth_profile", "lock")
     \/ /\ pc[t] \in {"boost_auth", "profile_auth", "curve_auth_fan",
                      "curve_auth_profile"}
        /\ pc' = [pc EXCEPT ![t] = "idle"]
  /\ UNCHANGED <<fanVars, profileVars, curveVars, loopVars, localVars>>

\* SetBoost reads `active' under mu and gives the lock up before it writes.
BoostCheck(t) ==
  /\ IF cur = None THEN GoTo(t, "boost_check", "boost_write")
                   ELSE GoTo(t, "boost_check", "idle")
  /\ UNCHANGED <<fanVars, profileVars, curveVars, loopVars, localVars>>

BoostWrite(t) ==
  /\ GoTo(t, "boost_write", "idle")
  /\ \E f \in Fans, who \in {Manual, None} : WriteBoost(f, who)
  /\ UNCHANGED <<profileVars, curveVars, loopVars, localVars>>

\* SetProfile, or anyone else who writes platform_profile (powerprofilesctl,
\* the firmware's own key): the service sees no difference.
ProfileWrite(t) ==
  /\ GoTo(t, "profile_write", "idle")
  /\ \/ \E p \in Profiles :
          /\ profile' = p
          /\ chosen' = p
          /\ clean' = (ctrl = None /\ (p = Custom => cur = None))
     \/ "refuse" \in Faults /\ UNCHANGED profileVars
  /\ UNCHANGED <<fanVars, curveVars, loopVars, localVars>>

-----------------------------------------------------------------------------
(* stopLocked and startCurveLocked, under ctrl *)

\* ctrl.Lock, then the section under mu that takes the published curve.  Nothing
\* shared is touched between the two, so they are one step.
TakeCurve(t) ==
  /\ GoTo(t, "lock", "cancel")
  /\ ctrl = None
  /\ ctrl' = t
  /\ taken' = [taken EXCEPT ![t] = cur]
  /\ kept' = [kept EXCEPT ![t] = saved]
  /\ cur' = None
  /\ saved' = None
  /\ UNCHANGED <<fanVars, profileVars, loopVars, starts>>

CancelCurve(t) ==
  /\ GoTo(t, "cancel", "wait")
  /\ cancelled' = IF taken[t] = None THEN cancelled ELSE cancelled \cup {taken[t]}
  /\ UNCHANGED <<fanVars, profileVars, curveVars, loop, localVars>>

\* <-done: the goroutine has run its deferred reset and closed the channel.
AwaitDone(t) ==
  /\ GoTo(t, "wait", "reset_cpu")
  /\ taken[t] # None => ~Live(taken[t])
  /\ UNCHANGED <<fanVars, profileVars, curveVars, loopVars, localVars>>

\* Where stopLocked goes when it returns: back into startCurveLocked, or out.
AfterStop(t) == IF starts[t] THEN "start_read" ELSE "return"

\* Whether stopLocked has a profile to put back.
Restores(t) == taken[t] # None /\ kept[t] \notin {None, Custom}

\* stopLocked's own ResetBoost: both fans, cpu first, whatever the first says.
StopReset(t) ==
  /\ \/ GoTo(t, "reset_cpu", "reset_gpu") /\ WriteBoost("cpu", None)
     \/ /\ GoTo(t, "reset_gpu", IF Restores(t) THEN "stop_read" ELSE AfterStop(t))
        /\ WriteBoost("gpu", None)
  /\ UNCHANGED <<profileVars, curveVars, loopVars, localVars>>

\* A readable profile other than custom was picked while the curve ran and stays;
\* an unreadable one is written over.
StopReadProfile(t) ==
  /\ \/ profile # Custom /\ GoTo(t, "stop_read", AfterStop(t)) /\ clean' = clean
     \/ profile = Custom /\ GoTo(t, "stop_read", "stop_restore") /\ clean' = clean
     \/ "unreadable" \in Faults /\ GoTo(t, "stop_read", "stop_restore") /\ clean' = FALSE
  /\ UNCHANGED <<fanVars, profile, chosen, curveVars, loopVars, localVars>>

StopRestoreProfile(t) ==
  /\ GoTo(t, "stop_restore", AfterStop(t))
  /\ SwitchProfile(kept[t])
  /\ UNCHANGED <<fanVars, curveVars, loopVars, localVars>>

StartReadProfile(t) ==
  /\ GoTo(t, "start_read", "start_custom")
  /\ \/ kept' = [kept EXCEPT ![t] = profile] /\ clean' = clean
     \/ /\ "unreadable" \in Faults
        /\ kept' = [kept EXCEPT ![t] = None]
        /\ clean' = FALSE
  /\ UNCHANGED <<fanVars, profile, chosen, curveVars, loopVars, starts, taken>>

StartSetCustom(t) ==
  /\ GoTo(t, "start_custom", "publish")
  /\ SwitchProfile(Custom)
  /\ UNCHANGED <<fanVars, curveVars, loopVars, localVars>>

\* A fresh context and done channel, published under mu, then `go s.run'.  The
\* goroutine needs a free identity: the one bound of this module.
PublishCurve(t) ==
  /\ GoTo(t, "publish", "return")
  /\ \E l \in Loops :
       /\ LoopTo(l, "free", "tick_cpu")
       /\ cur' = l
       /\ cancelled' = cancelled \ {l}
  /\ saved' = kept[t]
  /\ UNCHANGED <<fanVars, profileVars, ctrl, localVars>>

\* The deferred ctrl.Unlock, the locals gone with the frame, and the reply.
Return(t) ==
  /\ GoTo(t, "return", IF t = Main THEN "served" ELSE "idle")
  /\ ctrl' = None
  /\ taken' = [taken EXCEPT ![t] = None]
  /\ kept' = [kept EXCEPT ![t] = None]
  /\ starts' = [starts EXCEPT ![t] = FALSE]
  /\ UNCHANGED <<fanVars, profileVars, cur, saved, loopVars>>

\* daemon.Run saw a signal or lost the bus and calls svc.Stop.
Shutdown ==
  /\ GoTo(Main, "idle", "lock")
  /\ UNCHANGED <<fanVars, profileVars, curveVars, loopVars, localVars>>

-----------------------------------------------------------------------------
(* The curve goroutine: Service.run *)

\* tick: cpu, then gpu.  An unreadable temperature writes 0.
Tick(l) ==
  /\ \/ /\ LoopTo(l, "tick_cpu", "tick_gpu")
        /\ \E who \in {l, None} : WriteBoost("cpu", who)
     \/ /\ LoopTo(l, "tick_gpu", "select")
        /\ \E who \in {l, None} : WriteBoost("gpu", who)
  /\ UNCHANGED <<profileVars, curveVars, cancelled, pc, localVars>>

\* The ticker's case of the select.  It may win even when the context is done.
NextTick(l) ==
  /\ LoopTo(l, "select", "tick_cpu")
  /\ UNCHANGED <<fanVars, profileVars, curveVars, cancelled, pc, localVars>>

\* The context's case: return, into the deferred calls.
SeeCancel(l) ==
  /\ l \in cancelled
  /\ LoopTo(l, "select", "reset_cpu")
  /\ UNCHANGED <<fanVars, profileVars, curveVars, cancelled, pc, localVars>>

Panic(l) ==
  /\ "panic" \in Faults
  /\ loop[l] \in {"tick_cpu", "tick_gpu"}
  /\ loop' = [loop EXCEPT ![l] = "recover"]
  /\ UNCHANGED <<fanVars, profileVars, curveVars, cancelled, pc, localVars>>

\* recover: a curve still published is withdrawn, its saved profile dropped.
Recover(l) ==
  /\ LoopTo(l, "recover", "reset_cpu")
  /\ IF cur = l THEN cur' = None /\ saved' = None
                ELSE UNCHANGED <<cur, saved>>
  /\ clean' = FALSE
  /\ UNCHANGED <<fanVars, profile, chosen, ctrl, cancelled, pc, localVars>>

\* The deferred ResetBoost of the goroutine: both fans, whatever the first says.
LoopReset(l) ==
  /\ \/ LoopTo(l, "reset_cpu", "reset_gpu") /\ WriteBoost("cpu", None)
     \/ LoopTo(l, "reset_gpu", "close") /\ WriteBoost("gpu", None)
  /\ UNCHANGED <<profileVars, curveVars, cancelled, pc, localVars>>

CloseDone(l) ==
  /\ LoopTo(l, "close", "free")
  /\ cancelled' = cancelled \ {l}
  /\ UNCHANGED <<fanVars, profileVars, curveVars, pc, localVars>>

-----------------------------------------------------------------------------
\* The steps of a caller that waits for nobody outside the daemon, nor for ctrl.
CallerStep(t) ==
  \/ BoostCheck(t) \/ BoostWrite(t) \/ ProfileWrite(t)
  \/ CancelCurve(t) \/ AwaitDone(t) \/ StopReset(t)
  \/ StopReadProfile(t) \/ StopRestoreProfile(t)
  \/ StartReadProfile(t) \/ StartSetCustom(t) \/ PublishCurve(t)
  \/ Return(t)

LoopStep(l) ==
  \/ Tick(l) \/ NextTick(l) \/ Recover(l) \/ LoopReset(l) \/ CloseDone(l)

Next ==
  \/ \E t \in Callers :
       Arrive(t) \/ Authorize(t) \/ TakeCurve(t) \/ CallerStep(t)
  \/ Shutdown
  \/ \E l \in Loops : LoopStep(l) \/ SeeCancel(l) \/ Panic(l)

Spec == Init /\ [][Next]_vars

-----------------------------------------------------------------------------
(* Properties *)

\* At most one goroutine is in the for loop of run, however starts, stops and
\* panics interleave: two would write each fan in turn with different curves.
SingleDriver ==
  \A l, m \in Loops : Driving(l) /\ Driving(m) => l = m

\* Goroutine l is still going to reset fan f before it ends.
WillReset(l, f) ==
  \/ Driving(l)
  \/ loop[l] \in {"recover", "reset_cpu"}
  \/ loop[l] = "reset_gpu" /\ f = "gpu"

\* Every boost a curve wrote has a live goroutine that will still reset it, or
\* its reset was tried and refused: run's deferred ResetBoost leaves no fan behind.
CurveBoostOwned ==
  \A f \in Fans, l \in Loops :
    driver[f] = l /\ f \notin stuck => WillReset(l, f)

\* A stop that has reset the fans stays effective until its caller returns or
\* publishes the next curve: no goroutine can put a curve's boost back.
CurveSilenced ==
  \A t \in Callers :
    \/ pc[t] \in {"stop_read", "stop_restore", "start_read", "start_custom", "publish"}
    \/ pc[t] = "return" /\ ~starts[t]
    => \A f \in Fans : driver[f] \in Loops => f \in stuck

\* With no curve and nobody starting or stopping one, the profile is the one the
\* user last chose, across any number of curves, restarts of a curve and choices
\* made while one runs.  `clean' drops the cases where the code does not promise
\* it: a choice that lands inside a start or stop (findings), "custom" chosen
\* under a curve, and after a panic, an unreadable or a refused profile.
ProfileKept ==
  clean /\ cur = None /\ ctrl = None => profile = chosen

\* SECURITY.md: "SetBoost is refused while a curve is running".
BoostRefusedUnderCurve ==
  [][\A f \in Fans : driver'[f] = Manual /\ driver[f] # Manual => cur = None]_vars

\* service.go:194 and race_test.go:80: a stop leaves alone a profile that was
\* chosen while the curve ran, which is every profile but the custom one.
StopSparesChoice ==
  [][\A t \in Callers : pc[t] = "stop_restore" /\ pc'[t] # "stop_restore" /\ profile # Custom
       => profile' = profile]_vars

=============================================================================
