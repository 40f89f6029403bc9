----------------------- MODULE DaemonLifecycleProofs -----------------------
(***************************************************************************)
(* Each boost has an heir, for any number of calls, curves, crashes and    *)
(* restarts.  The invariant is inductive but for the types it rests on:    *)
(* within a process a boost belongs to a goroutine that will still reset   *)
(* it or to SetBoost; the end of a process passes it on to ExecStopPost,   *)
(* and what ExecStopPost leaves behind the kernel has refused to clear.    *)
(***************************************************************************)
EXTENDS DaemonLifecycle, TLAPS

USE CurveAssumption DEF Fans

\* What of CurveControl's types a boost and its heir depend on.
BoostType ==
  /\ driver \in [Fans -> Loops \cup {Manual, None}]
  /\ stuck \subseteq Fans
  /\ loop \in [Loops -> LoopPC]

Heir(f) ==
  driver[f] # None /\ f \notin stuck =>
    driver[f] = Manual \/ \E l \in Loops : driver[f] = l /\ WillReset(l, f)

Owned == \A f \in Fans : Heir(f)

LInv == BoostType /\ BoostHasAnHeir

-----------------------------------------------------------------------------
\* A write leaves the other fan alone, and who writes is the heir of a boost.
LEMMA WriteBoostEffect ==
  ASSUME BoostType, NEW f \in Fans, NEW who \in Loops \cup {Manual, None}, WriteBoost(f, who)
  PROVE  /\ driver' \in [Fans -> Loops \cup {Manual, None}]
         /\ stuck' \subseteq Fans
         /\ \A g \in Fans \ {f} : driver'[g] = driver[g] /\ (g \in stuck' <=> g \in stuck)
         /\ \/ driver'[f] = who
            \/ driver'[f] = driver[f] /\ (f \in stuck => f \in stuck') /\ (who = None => f \in stuck')
<1>1. CASE driver' = [driver EXCEPT ![f] = who] /\ stuck' = stuck \ {f}
  BY <1>1 DEF BoostType
<1>2. CASE driver' = driver /\ stuck' = IF who = None THEN stuck \cup {f} ELSE stuck
  BY <1>2 DEF BoostType
<1>3. QED
  BY <1>1, <1>2 DEF WriteBoost

\* No step of the service leaves a boost without an heir.
LEMMA ServiceStep ==
  ASSUME BoostType, Owned, [Next]_vars
  PROVE  BoostType' /\ Owned'
<1> DEFINE Goal == BoostType' /\ Owned'
<1> USE DEF LoopTo, fanVars, profileVars, curveVars, loopVars, localVars
<1>1. ASSUME UNCHANGED <<driver, stuck, loop>> PROVE Goal
  BY <1>1 DEF BoostType, Owned, Heir, WillReset, Driving
<1>2. ASSUME NEW t \in Callers, Arrive(t) \/ Authorize(t) \/ TakeCurve(t) PROVE Goal
  BY <1>1, <1>2 DEF Arrive, Authorize, TakeCurve
<1>3. ASSUME NEW t \in Callers, CallerStep(t) PROVE Goal
  <2>1. CASE BoostCheck(t) \/ ProfileWrite(t) \/ CancelCurve(t) \/ AwaitDone(t) \/ Return(t)
    BY <1>1, <2>1 DEF BoostCheck, ProfileWrite, CancelCurve, AwaitDone, Return
  <2>2. CASE StopReadProfile(t) \/ StopRestoreProfile(t) \/ StartReadProfile(t) \/ StartSetCustom(t)
    BY <1>1, <2>2 DEF StopReadProfile, StopRestoreProfile, StartReadProfile, StartSetCustom
  <2>3. CASE BoostWrite(t)
    <3>1. PICK f \in Fans, who \in {Manual, None} : WriteBoost(f, who)
      BY <2>3 DEF BoostWrite
    <3>2. loop' = loop
      BY <2>3 DEF BoostWrite
    <3>3. QED
      BY <3>1, <3>2, WriteBoostEffect DEF BoostType, Owned, Heir, WillReset, Driving
  <2>4. CASE StopReset(t)
    <3>1. PICK f \in Fans : WriteBoost(f, None)
      BY <2>4 DEF StopReset
    <3>2. loop' = loop
      BY <2>4 DEF StopReset
    <3>3. QED
      BY <3>1, <3>2, WriteBoostEffect DEF BoostType, Owned, Heir, WillReset, Driving
  <2>5. CASE PublishCurve(t)
    <3>1. PICK l \in Loops : loop[l] = "free" /\ loop' = [loop EXCEPT ![l] = "tick_cpu"]
      BY <2>5 DEF PublishCurve
    <3>2. UNCHANGED fanVars
      BY <2>5 DEF PublishCurve
    <3>3. QED
      BY <3>1, <3>2 DEF BoostType, Owned, Heir, WillReset, Driving, LoopPC
  <2>6. QED
    BY <1>3, <2>1, <2>2, <2>3, <2>4, <2>5 DEF CallerStep
<1>4. CASE Shutdown
  BY <1>1, <1>4 DEF Shutdown
<1>5. ASSUME NEW l \in Loops, Tick(l) PROVE Goal
  <2>1. PICK f \in Fans, who \in {l, None} : WriteBoost(f, who)
    BY <1>5 DEF Tick
  <2>2. /\ loop[l] \in {"tick_cpu", "tick_gpu"}
        /\ \/ loop' = [loop EXCEPT ![l] = "tick_gpu"]
           \/ loop' = [loop EXCEPT ![l] = "select"]
    BY <1>5 DEF Tick
  <2>3. loop' \in [Loops -> LoopPC] /\ \A m \in Loops, g \in Fans : WillReset(m, g) => WillReset(m, g)'
    BY <2>2 DEF BoostType, WillReset, Driving, LoopPC
  <2>4. \A g \in Fans : WillReset(l, g)'
    BY <2>2 DEF BoostType, WillReset, Driving
  <2>5. QED
    BY <2>1, <2>3, <2>4, WriteBoostEffect DEF BoostType, Owned, Heir
<1>6. ASSUME NEW l \in Loops, NextTick(l) \/ SeeCancel(l) \/ Panic(l) \/ Recover(l) PROVE Goal
  <2>1. UNCHANGED fanVars
    BY <1>6 DEF NextTick, SeeCancel, Panic, Recover
  <2>2. \E to \in {"tick_cpu", "reset_cpu", "recover"} : loop' = [loop EXCEPT ![l] = to]
    BY <1>6 DEF NextTick, SeeCancel, Panic, Recover
  <2>3. loop' \in [Loops -> LoopPC] /\ \A m \in Loops, g \in Fans : WillReset(m, g) => WillReset(m, g)'
    BY <2>2 DEF BoostType, WillReset, Driving, LoopPC
  <2>4. QED
    BY <2>1, <2>3 DEF BoostType, Owned, Heir
<1>7. ASSUME NEW l \in Loops, LoopReset(l) PROVE Goal
  <2>1. CASE LoopTo(l, "reset_cpu", "reset_gpu") /\ WriteBoost("cpu", None)
    <3>1. loop' \in [Loops -> LoopPC] /\ \A m \in Loops : WillReset(m, "gpu") => WillReset(m, "gpu")'
      BY <2>1 DEF BoostType, WillReset, Driving, LoopPC
    <3>2. \A m \in Loops \ {l} : WillReset(m, "cpu") => WillReset(m, "cpu")'
      BY <2>1 DEF BoostType, WillReset, Driving
    <3>3. QED
      BY <2>1, <3>1, <3>2, WriteBoostEffect DEF BoostType, Owned, Heir
  <2>2. CASE LoopTo(l, "reset_gpu", "close") /\ WriteBoost("gpu", None)
    <3>1. loop' \in [Loops -> LoopPC] /\ \A m \in Loops : WillReset(m, "cpu") => WillReset(m, "cpu")'
      BY <2>2 DEF BoostType, WillReset, Driving, LoopPC
    <3>2. \A m \in Loops \ {l} : WillReset(m, "gpu") => WillReset(m, "gpu")'
      BY <2>2 DEF BoostType, WillReset, Driving
    <3>3. QED
      BY <2>2, <3>1, <3>2, WriteBoostEffect DEF BoostType, Owned, Heir
  <2>3. QED
    BY <1>7, <2>1, <2>2 DEF LoopReset
<1>8. ASSUME NEW l \in Loops, CloseDone(l) PROVE Goal
  <2>1. UNCHANGED fanVars
    BY <1>8 DEF CloseDone
  <2>2. loop' \in [Loops -> LoopPC] /\ \A m \in Loops, g \in Fans : WillReset(m, g) => WillReset(m, g)'
    BY <1>8 DEF CloseDone, BoostType, WillReset, Driving, LoopPC
  <2>3. QED
    BY <2>1, <2>2 DEF BoostType, Owned, Heir
<1>9. CASE UNCHANGED vars
  BY <1>1, <1>9 DEF vars
<1>10. QED
  BY <1>2, <1>3, <1>4, <1>5, <1>6, <1>7, <1>8, <1>9 DEF Next, LoopStep

-----------------------------------------------------------------------------
\* What a serving process and one that is gone owe to a boost.
LEMMA ServingOwns == Serving => (BoostHasAnHeir <=> Owned)
  BY DEF Serving, BoostHasAnHeir, Owned, Heir

LEMMA LifecycleInitInv == LifecycleInit => LInv
  BY DEF LifecycleInit, Init, LInv, BoostType, BoostHasAnHeir, LoopPC

LEMMA LifecycleStep == LInv /\ [LifecycleNext]_allVars => LInv'
<1> SUFFICES ASSUME LInv, [LifecycleNext]_allVars PROVE LInv'
  OBVIOUS
<1> USE DEF LInv, PhaseTo, procVars, ServiceUnchanged, fanVars, profileVars, curveVars, loopVars, localVars
<1>1. ASSUME Serving, [Next]_vars, phase' = phase PROVE LInv'
  <2>1. Owned
    BY <1>1, ServingOwns
  <2>2. BoostType' /\ Owned'
    BY <1>1, <2>1, ServiceStep
  <2>3. QED
    BY <1>1, <2>2 DEF Serving, BoostHasAnHeir, Owned, Heir
<1>2. ASSUME phase' = "gone", MemoryGone PROVE LInv'
  BY <1>2 DEF MemoryGone, BoostType, BoostHasAnHeir, LoopPC
<1>3. ASSUME NEW f \in Fans, WriteBoost(f, None), loop' = loop,
             phase \in {"boot_cpu", "boot_gpu", "final_cpu", "final_gpu", "gone", "post"},
             phase' \in Phases,
             Serving => phase' \in {"final_gpu", "logged"},
             phase \in {"boot_cpu", "boot_gpu"} => phase' \in {"boot_gpu", "up"},
             phase = "gone" => f = "cpu" /\ phase' = "post",
             phase = "post" => f = "gpu" /\ phase' = "down"
      PROVE  LInv'
  <2>1. BoostType'
    BY <1>3, WriteBoostEffect DEF BoostType
  <2>2. \A g \in Fans \ {f} : driver'[g] = driver[g] /\ (g \in stuck' <=> g \in stuck)
    BY <1>3, WriteBoostEffect
  <2>3. driver'[f] = None \/ f \in stuck'
    BY <1>3, WriteBoostEffect
  <2>4. \A m \in Loops, g \in Fans : WillReset(m, g) <=> WillReset(m, g)'
    BY <1>3 DEF WillReset, Driving
  <2>5. QED
    BY <1>3, <2>1, <2>2, <2>3, <2>4 DEF BoostHasAnHeir, Serving, Phases
<1>4. CASE Activate
  BY <1>4 DEF Activate, vars, BoostType, BoostHasAnHeir, Serving
<1>5. CASE BootReset
  <2>1. CASE PhaseTo("boot_cpu", "boot_gpu") /\ WriteBoost("cpu", None)
    BY <1>3, <1>5, <2>1 DEF BootReset, Serving, Phases
  <2>2. CASE PhaseTo("boot_gpu", "up") /\ WriteBoost("gpu", None)
    BY <1>3, <1>5, <2>2 DEF BootReset, Serving, Phases
  <2>3. QED
    BY <1>5, <2>1, <2>2 DEF BootReset
<1>6. CASE Signal \/ LoseBus \/ StopReturned
  BY <1>6 DEF Signal, LoseBus, StopReturned, Shutdown, vars, BoostType, BoostHasAnHeir, Serving,
              WillReset, Driving
<1>7. CASE FinalReset
  <2>1. CASE PhaseTo("final_cpu", "final_gpu") /\ WriteBoost("cpu", None)
    BY <1>3, <1>7, <2>1 DEF FinalReset, Serving, Phases
  <2>2. CASE PhaseTo("final_gpu", "logged") /\ WriteBoost("gpu", None)
    BY <1>3, <1>7, <2>2 DEF FinalReset, Serving, Phases
  <2>3. QED
    BY <1>7, <2>1, <2>2 DEF FinalReset
<1>8. CASE Exit \/ Crash \/ KillLate \/ WatchdogKill
  BY <1>2, <1>8 DEF Exit, Crash, KillLate, WatchdogKill
<1>9. CASE PostReset
  <2>1. CASE PhaseTo("gone", "post") /\ WriteBoost("cpu", None)
    BY <1>3, <1>9, <2>1 DEF PostReset, Serving, Phases
  <2>2. CASE PhaseTo("post", "down") /\ WriteBoost("gpu", None)
    BY <1>3, <1>9, <2>2 DEF PostReset, Serving, Phases
  <2>3. QED
    BY <1>9, <2>1, <2>2 DEF PostReset
<1>10. CASE PingsStop \/ \E l \in Loops : Hang(l)
  BY <1>10 DEF PingsStop, Hang, vars, BoostType, BoostHasAnHeir, Serving, WillReset, Driving
<1>11. ASSUME NEW t \in Callers, HandlerStep(t) \/ ServiceCallerStep(t) \/ ServiceTakeCurve(t) PROVE LInv'
  <2>1. Serving /\ phase' = phase
    BY <1>11 DEF HandlerStep, ServiceCallerStep, ServiceTakeCurve
  <2>2. Next
    BY <1>11 DEF HandlerStep, ServiceCallerStep, ServiceTakeCurve, Next
  <2>3. QED
    BY <1>1, <2>1, <2>2
<1>12. ASSUME NEW l \in Loops, ServiceLoopStep(l) \/ ServiceSeeCancel(l) \/ ServicePanic(l) PROVE LInv'
  <2>1. Serving /\ phase' = phase
    BY <1>12 DEF ServiceLoopStep, ServiceSeeCancel, ServicePanic
  <2>2. Next
    BY <1>12 DEF ServiceLoopStep, ServiceSeeCancel, ServicePanic, Next
  <2>3. QED
    BY <1>1, <2>1, <2>2
<1>13. CASE UNCHANGED allVars
  BY <1>13 DEF allVars, vars, BoostType, BoostHasAnHeir, Serving, WillReset, Driving
<1>14. QED
  BY <1>4, <1>5, <1>6, <1>7, <1>8, <1>9, <1>10, <1>11, <1>12, <1>13 DEF LifecycleNext

-----------------------------------------------------------------------------
\* However processes crash, stop, hang and start again, each boost in the kernel has
\* somebody who will still clear it, or the kernel refused its reset (run.go:74-164
\* and ExecStopPost of the unit, around service.go).
THEOREM BoostsAreInherited == LifecycleSpec => []BoostHasAnHeir
<1>1. LifecycleInit => LInv
  BY LifecycleInitInv
<1>2. LInv /\ [LifecycleNext]_allVars => LInv'
  BY LifecycleStep
<1>3. LInv => BoostHasAnHeir
  BY DEF LInv
<1>4. QED
  BY <1>1, <1>2, <1>3, PTL DEF LifecycleSpec
=============================================================================
