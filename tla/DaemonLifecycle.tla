--------------------------- MODULE DaemonLifecycle ---------------------------
(***************************************************************************)
(* The daemon process around CurveControl: daemon.Run                      *)
(* (src/helper/internal/daemon/run.go) under the systemd unit              *)
(* packaging/systemd/alienwarectl.service.                                 *)
(*                                                                         *)
(* Run resets the fans, serves calls, and on a signal or a lost bus stops  *)
(* the curve, resets the fans again and exits.  The process may also die   *)
(* at any moment; ExecStopPost then runs `alienwarectl reset-fans', a      *)
(* process of its own, before the unit can start again.                    *)
(***************************************************************************)
EXTENDS CurveControl

CONSTANT MayHang   \* whether a curve goroutine may block forever in a sysfs call

ASSUME HangAssumption == MayHang \in BOOLEAN

VARIABLES
  phase,     \* where the process is
  lost,      \* the system bus dropped
  pinging,   \* the watchdog goroutine still sends WATCHDOG=1
  hung       \* curve goroutines blocked in the kernel

procVars == <<phase, lost, pinging, hung>>
allVars == <<vars, procVars>>

\* "post" and "gone": ExecStopPost still has one or both fans to reset.
Phases == {"down", "boot_cpu", "boot_gpu", "up", "stopping",
           "final_cpu", "final_gpu", "logged", "gone", "post"}

Serving == phase \in {"up", "stopping", "final_cpu", "final_gpu", "logged"}
Alive == Serving \/ phase \in {"boot_cpu", "boot_gpu"}

LifecycleInit ==
  /\ Init
  /\ phase = "down"
  /\ lost = FALSE
  /\ pinging = FALSE
  /\ hung = {}

PhaseTo(from, to) == phase = from /\ phase' = to

\* Everything the kernel does not keep dies with the process.
MemoryGone ==
  /\ cur' = None
  /\ saved' = None
  /\ ctrl' = None
  /\ loop' = [l \in Loops |-> "free"]
  /\ cancelled' = {}
  /\ pc' = [t \in Callers |-> "idle"]
  /\ starts' = [t \in Callers |-> FALSE]
  /\ taken' = [t \in Callers |-> None]
  /\ kept' = [t \in Callers |-> None]
  /\ clean' = FALSE
  /\ lost' = FALSE
  /\ pinging' = FALSE
  /\ hung' = {}
  /\ UNCHANGED <<fanVars, profile, chosen>>

ServiceUnchanged ==
  UNCHANGED <<profileVars, curveVars, loopVars, pc, localVars>>

-----------------------------------------------------------------------------
(* Slips a change of the code could make, for the properties to catch *)

\* ResetBoost gives up after its first failed write.
PostResetGivingUp ==
  /\ \/ /\ phase = "gone"
        /\ WriteBoost("cpu", None)
        /\ phase' = IF "cpu" \in stuck' THEN "down" ELSE "post"
     \/ PhaseTo("post", "down") /\ WriteBoost("gpu", None)
  /\ ServiceUnchanged
  /\ UNCHANGED <<lost, pinging, hung>>

\* The unit without TimeoutStopSec: only a stop that is not stuck is cut short.
KillLateUnlessStuck ==
  /\ phase \in {"stopping", "final_cpu", "final_gpu", "logged"}
  /\ hung = {}
  /\ phase' = "gone"
  /\ MemoryGone

-----------------------------------------------------------------------------
(* daemon.Run *)

\* Restart=on-failure, D-Bus activation, or `systemctl start'.
Activate ==
  /\ PhaseTo("down", "boot_cpu")
  /\ UNCHANGED <<vars, lost, pinging, hung>>

\* The reset before the methods are exported; then READY=1 and the watchdog.
BootReset ==
  /\ \/ PhaseTo("boot_cpu", "boot_gpu") /\ WriteBoost("cpu", None) /\ pinging' = pinging
     \/ PhaseTo("boot_gpu", "up") /\ WriteBoost("gpu", None) /\ pinging' = TRUE
  /\ ServiceUnchanged
  /\ UNCHANGED <<lost, hung>>

\* SIGTERM or SIGINT: the watchdog's context ends with Run's.
Signal ==
  /\ PhaseTo("up", "stopping")
  /\ Shutdown
  /\ pinging' = FALSE
  /\ UNCHANGED <<lost, hung>>

\* The bus connection drops.  The watchdog goroutine keeps pinging.
LoseBus ==
  /\ PhaseTo("up", "stopping")
  /\ Shutdown
  /\ lost' = TRUE
  /\ UNCHANGED <<pinging, hung>>

StopReturned ==
  /\ PhaseTo("stopping", "final_cpu")
  /\ pc[Main] = "served"
  /\ UNCHANGED <<vars, lost, pinging, hung>>

\* The last ResetBoost, and the log line after it.
FinalReset ==
  /\ \/ PhaseTo("final_cpu", "final_gpu") /\ WriteBoost("cpu", None)
     \/ PhaseTo("final_gpu", "logged") /\ WriteBoost("gpu", None)
  /\ ServiceUnchanged
  /\ UNCHANGED <<lost, pinging, hung>>

\* Run returns and the process ends.
Exit ==
  /\ PhaseTo("logged", "gone")
  /\ MemoryGone

-----------------------------------------------------------------------------
(* The unit *)

\* SIGKILL, an unrecovered panic, the OOM killer, a failed start.
Crash ==
  /\ Alive
  /\ phase' = "gone"
  /\ MemoryGone

\* TimeoutStopSec after STOPPING=1 (run.go:149), whatever Stop is waiting for.
KillLate ==
  /\ phase \in {"stopping", "final_cpu", "final_gpu", "logged"}
  /\ phase' = "gone"
  /\ MemoryGone

\* WatchdogSec without a ping.
WatchdogKill ==
  /\ PhaseTo("up", "gone")
  /\ ~pinging
  /\ MemoryGone

\* sd_notify fails from now on, which runWatchdog only logs.
PingsStop ==
  /\ phase = "up"
  /\ pinging
  /\ pinging' = FALSE
  /\ UNCHANGED <<vars, phase, lost, hung>>

\* ExecStopPost=alienwarectl reset-fans: both fans, whatever the first says.
PostReset ==
  /\ \/ PhaseTo("gone", "post") /\ WriteBoost("cpu", None)
     \/ PhaseTo("post", "down") /\ WriteBoost("gpu", None)
  /\ ServiceUnchanged
  /\ UNCHANGED <<lost, pinging, hung>>

-----------------------------------------------------------------------------
(* The service inside a live process *)

\* A curve goroutine blocks for good in a read or a write of its tick.
Hang(l) ==
  /\ MayHang
  /\ Serving
  /\ l \notin hung
  /\ loop[l] \in {"tick_cpu", "tick_gpu"}
  /\ hung' = hung \cup {l}
  /\ UNCHANGED <<vars, phase, lost, pinging>>

\* Once the bus is lost no call arrives and polkit, asked over the same bus, can
\* only be taken for a no; calls past their checks go on.  On a signal new calls
\* keep arriving until the process ends.
HandlerStep(t) ==
  /\ Serving
  /\ \/ ~lost /\ Arrive(t)
     \/ Authorize(t) /\ (lost => pc'[t] = "idle")
  /\ UNCHANGED procVars

ServiceCallerStep(t) == Serving /\ CallerStep(t) /\ UNCHANGED procVars
ServiceTakeCurve(t) == Serving /\ TakeCurve(t) /\ UNCHANGED procVars

ServiceLoopStep(l) ==
  Serving /\ l \notin hung /\ LoopStep(l) /\ UNCHANGED procVars
ServiceSeeCancel(l) == Serving /\ SeeCancel(l) /\ UNCHANGED procVars
ServicePanic(l) ==
  Serving /\ l \notin hung /\ Panic(l) /\ UNCHANGED procVars

LifecycleNext ==
  \/ Activate \/ BootReset \/ Signal \/ LoseBus \/ StopReturned
  \/ FinalReset \/ Exit \/ Crash \/ KillLate \/ WatchdogKill \/ PingsStop
  \/ PostReset
  \/ \E t \in Callers :
       HandlerStep(t) \/ ServiceCallerStep(t) \/ ServiceTakeCurve(t)
  \/ \E l \in Loops :
       ServiceLoopStep(l) \/ ServiceSeeCancel(l) \/ ServicePanic(l) \/ Hang(l)

LifecycleSpec == LifecycleInit /\ [][LifecycleNext]_allVars

\* Goroutines are scheduled.  Go's mutex hands itself over in arrival order once
\* a waiter starves, and select picks among ready cases at random: both are
\* strong fairness.  Then Run's own steps, and systemd's with both timeouts.
\* Nothing makes calls arrive, polkit answer, signals come or the unit start.
LifecycleFairness ==
  /\ \A t \in Callers :
       WF_allVars(ServiceCallerStep(t)) /\ SF_allVars(ServiceTakeCurve(t))
  /\ \A l \in Loops :
       WF_allVars(ServiceLoopStep(l)) /\ SF_allVars(ServiceSeeCancel(l))
  /\ WF_allVars(BootReset \/ StopReturned \/ FinalReset \/ Exit)
  /\ WF_allVars(KillLate \/ WatchdogKill \/ PostReset)

LifecycleFairSpec == LifecycleSpec /\ LifecycleFairness

-----------------------------------------------------------------------------
(* Properties *)

\* Each boost has someone still to clear it: a curve's its goroutine, any boost
\* of a dead process ExecStopPost.  A crash hands the duty over and never drops
\* it, and no process starts serving on a boost it did not set, however the one
\* before it ended (unless the kernel refused the reset).
BoostHasAnHeir ==
  \A f \in Fans :
    driver[f] # None /\ f \notin stuck =>
      \/ Serving /\ driver[f] = Manual
      \/ Serving /\ \E l \in Loops : driver[f] = l /\ WillReset(l, f)
      \/ phase = "gone"
      \/ phase = "post" /\ f = "gpu"

\* A stop that was asked for frees both fans, even when a hung loop keeps
\* svc.Stop waiting for `done' and the failsafe after it is never reached.
StopFreesFans ==
  []<>(phase \in {"boot_cpu", "boot_gpu", "up"} \/ \A f \in Fans : driver[f] = None \/ f \in stuck)

InStop(t) ==
  pc[t] \in {"lock", "cancel", "wait", "reset_cpu", "reset_gpu", "stop_read", "stop_restore",
             "start_read", "start_custom", "publish", "return"}

\* Whoever waits to start or stop a curve gets through and returns: no pending
\* polkit answer, panicking loop or rival caller can keep ctrl.  Only a hung loop can.
StopReturns ==
  \A t \in Callers : []<>(~InStop(t) \/ hung # {})

\* SECURITY.md:63 and docs/behaviour.md:64: a hung control loop is restarted.
HungLoopRestarted == \A l \in Loops : l \in hung ~> l \notin hung

=============================================================================
