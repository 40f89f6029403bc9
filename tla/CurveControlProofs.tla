-------------------------- MODULE CurveControlProofs --------------------------
(***************************************************************************)
(* The safety of CurveControl for any number of callers, curve goroutines  *)
(* and profiles.  The inductive invariant says who may be driving: a       *)
(* goroutine in its for loop is the published curve, or the one that the   *)
(* holder of ctrl has taken and is waiting for.  After it, the same steps  *)
(* shown to be those of the abstract FanPromise.                           *)
(***************************************************************************)
EXTENDS CurveRefinement, TLAPS

USE CurveAssumption DEF Fans, Callers

\* Where a caller holds ctrl.
Holding == {"cancel", "wait", "reset_cpu", "reset_gpu", "stop_read", "stop_restore",
            "start_read", "start_custom", "publish", "return"}

\* ctrl is a mutex: its holder is the one caller inside the section.
LockHeld == \A t \in Callers : pc[t] \in Holding <=> ctrl = t

\* Inside the section no curve is published, but by an ApplyCurve about to return.
NothingPublished ==
  \A t \in Callers : pc[t] \in Holding => cur = None \/ (pc[t] = "return" /\ starts[t])

\* Only an ApplyCurve goes past the stop.
StartsPastStop ==
  \A t \in Callers : pc[t] \in {"start_read", "start_custom", "publish"} => starts[t]

\* A stop restores a profile it knows.
RestoresKnown ==
  \A t \in Callers : pc[t] \in {"stop_read", "stop_restore"} => kept[t] # None

\* A driving goroutine is published, or taken by a caller that waits for it.
DriverKnown ==
  \A l \in Loops : Driving(l) =>
    cur = l \/ \E t \in Callers : pc[t] \in {"cancel", "wait"} /\ taken[t] = l

\* The fans a stop has reset so far carry no curve's boost.
Silent(f) == driver[f] \in Loops => f \in stuck
SilencedSoFar ==
  \A t \in Callers :
    /\ pc[t] = "reset_gpu" => Silent("cpu")
    /\ \/ pc[t] \in {"stop_read", "stop_restore", "start_read", "start_custom", "publish"}
       \/ pc[t] = "return" /\ ~starts[t]
       => Silent("cpu") /\ Silent("gpu")

\* While nothing excuses losing the user's choice: it is the profile, or it is kept to
\* replace custom, at every point of a start and a stop.
OnCurve(s) == \/ profile = chosen /\ profile # Custom
              \/ profile = Custom /\ s = chosen
Settled == IF cur = None THEN profile = chosen ELSE OnCurve(saved)
ChoiceTracked ==
  clean =>
    /\ ctrl = None => Settled
    /\ \A t \in Callers :
         /\ pc[t] \in {"cancel", "wait", "reset_cpu", "reset_gpu"} =>
              IF taken[t] = None THEN profile = chosen ELSE OnCurve(kept[t])
         /\ pc[t] = "stop_read" => OnCurve(kept[t])
         /\ pc[t] = "stop_restore" => kept[t] = chosen
         /\ pc[t] = "start_read" => profile = chosen
         /\ pc[t] = "start_custom" => kept[t] = chosen
         /\ pc[t] = "publish" => profile = Custom /\ kept[t] = chosen
         /\ pc[t] = "return" => Settled

IInv ==
  /\ TypeOK
  /\ LockHeld
  /\ NothingPublished
  /\ StartsPastStop
  /\ RestoresKnown
  /\ DriverKnown
  /\ CurveBoostOwned
  /\ SilencedSoFar
  /\ ChoiceTracked



-----------------------------------------------------------------------------
(* Initial states and the steps, one conjunct of the invariant at a time *)

LEMMA InitInv == Init => IInv
  BY DEF Init, IInv, TypeOK, LockHeld, NothingPublished, StartsPastStop, RestoresKnown,
         DriverKnown, CurveBoostOwned, SilencedSoFar, Silent, ChoiceTracked, Settled,
         Holding, Driving, CallerPC, LoopPC

\* A boost write keeps both fan variables well typed.
LEMMA WriteBoostType ==
  ASSUME TypeOK, NEW f \in Fans, NEW who \in Loops \cup {Manual, None}, WriteBoost(f, who)
  PROVE  driver' \in [Fans -> Loops \cup {Manual, None}] /\ stuck' \subseteq Fans
<1>1. CASE driver' = [driver EXCEPT ![f] = who] /\ stuck' = stuck \ {f}
  BY <1>1 DEF TypeOK
<1>2. CASE driver' = driver /\ stuck' = IF who = None THEN stuck \cup {f} ELSE stuck
  BY <1>2 DEF TypeOK
<1>3. QED
  BY <1>1, <1>2 DEF WriteBoost

LEMMA TypeStep == IInv /\ [Next]_vars => TypeOK'
<1> SUFFICES ASSUME IInv, [Next]_vars PROVE TypeOK'
  OBVIOUS
<1> USE DEF IInv, GoTo, LoopTo, CallerPC, LoopPC,
            fanVars, profileVars, curveVars, loopVars, localVars
<1>1. ASSUME NEW t \in Callers, Arrive(t) PROVE TypeOK'
  <2>1. pc' \in [Callers -> CallerPC]
    BY <1>1 DEF TypeOK, Arrive
  <2>2. starts' \in [Callers -> BOOLEAN]
    BY <1>1 DEF TypeOK, Arrive
  <2>3. QED
    BY <1>1, <2>1, <2>2 DEF TypeOK, Arrive
<1>2. ASSUME NEW t \in Callers, Authorize(t) PROVE TypeOK'
  BY <1>2 DEF TypeOK, Authorize
<1>3. ASSUME NEW t \in Callers, BoostCheck(t) PROVE TypeOK'
  BY <1>3 DEF TypeOK, BoostCheck
<1>4. ASSUME NEW t \in Callers, ProfileWrite(t) PROVE TypeOK'
  <2>1. clean' \in BOOLEAN
    BY <1>4 DEF TypeOK, ProfileWrite
  <2>2. profile' \in Profiles /\ chosen' \in Profiles
    BY <1>4 DEF TypeOK, ProfileWrite
  <2>3. pc' \in [Callers -> CallerPC]
    BY <1>4 DEF TypeOK, ProfileWrite
  <2>4. QED
    BY <1>4, <2>1, <2>2, <2>3 DEF TypeOK, ProfileWrite
<1>5. ASSUME NEW t \in Callers, TakeCurve(t) PROVE TypeOK'
  BY <1>5 DEF TypeOK, TakeCurve
<1>6. ASSUME NEW t \in Callers, CancelCurve(t) PROVE TypeOK'
  BY <1>6 DEF TypeOK, CancelCurve
<1>7. ASSUME NEW t \in Callers, AwaitDone(t) PROVE TypeOK'
  BY <1>7 DEF TypeOK, AwaitDone
<1>8. ASSUME NEW t \in Callers, StopReadProfile(t) PROVE TypeOK'
  <2>1. clean' \in BOOLEAN
    BY <1>8 DEF TypeOK, StopReadProfile
  <2>2. pc' \in [Callers -> CallerPC]
    BY <1>8 DEF TypeOK, StopReadProfile, AfterStop
  <2>3. QED
    BY <1>8, <2>1, <2>2 DEF TypeOK, StopReadProfile
<1>9. ASSUME NEW t \in Callers, StopRestoreProfile(t) PROVE TypeOK'
  <2>1. kept[t] \in Profiles
    BY <1>9 DEF TypeOK, StopRestoreProfile, RestoresKnown
  <2>2. /\ profile' \in Profiles /\ clean' \in BOOLEAN /\ chosen' = chosen
    BY <1>9, <2>1 DEF TypeOK, StopRestoreProfile, SwitchProfile
  <2>3. pc' \in [Callers -> CallerPC]
    BY <1>9 DEF TypeOK, StopRestoreProfile, AfterStop
  <2>4. QED
    BY <1>9, <2>2, <2>3 DEF TypeOK, StopRestoreProfile
<1>10. ASSUME NEW t \in Callers, StartSetCustom(t) PROVE TypeOK'
  <2>1. /\ profile' \in Profiles /\ clean' \in BOOLEAN /\ chosen' = chosen
    BY <1>10 DEF TypeOK, StartSetCustom, SwitchProfile
  <2>2. pc' \in [Callers -> CallerPC]
    BY <1>10 DEF TypeOK, StartSetCustom
  <2>3. QED
    BY <1>10, <2>1, <2>2 DEF TypeOK, StartSetCustom
<1>11. ASSUME NEW t \in Callers, PublishCurve(t) PROVE TypeOK'
  BY <1>11 DEF TypeOK, PublishCurve
<1>12. ASSUME NEW t \in Callers, Return(t) PROVE TypeOK'
  BY <1>12 DEF TypeOK, Return
<1>13. ASSUME NEW t \in Callers, StartReadProfile(t) PROVE TypeOK'
  <2>1. CASE kept' = [kept EXCEPT ![t] = profile] /\ clean' = clean
    BY <1>13, <2>1 DEF TypeOK, StartReadProfile
  <2>2. CASE kept' = [kept EXCEPT ![t] = None] /\ clean' = FALSE
    BY <1>13, <2>2 DEF TypeOK, StartReadProfile
  <2>3. QED
    BY <1>13, <2>1, <2>2 DEF StartReadProfile
<1>14. ASSUME NEW t \in Callers, BoostWrite(t) PROVE TypeOK'
  <2>1. PICK f \in Fans, who \in {Manual, None} : WriteBoost(f, who)
    BY <1>14 DEF BoostWrite
  <2>2. QED
    BY <1>14, <2>1, WriteBoostType DEF TypeOK, BoostWrite
<1>15. ASSUME NEW t \in Callers, StopReset(t) PROVE TypeOK'
  <2>1. PICK f \in Fans : WriteBoost(f, None)
    BY <1>15 DEF StopReset
  <2>2. pc' \in [Callers -> CallerPC]
    BY <1>15 DEF TypeOK, StopReset, AfterStop
  <2>3. QED
    BY <1>15, <2>1, <2>2, WriteBoostType DEF TypeOK, StopReset
<1>16. CASE Shutdown
  BY <1>16 DEF TypeOK, Shutdown
<1>17. ASSUME NEW l \in Loops, Tick(l) PROVE TypeOK'
  <2>1. PICK f \in Fans, who \in {l, None} : WriteBoost(f, who)
    BY <1>17 DEF Tick
  <2>2. loop' \in [Loops -> LoopPC]
    BY <1>17 DEF TypeOK, Tick
  <2>3. QED
    BY <1>17, <2>1, <2>2, WriteBoostType DEF TypeOK, Tick
<1>18. ASSUME NEW l \in Loops, LoopReset(l) PROVE TypeOK'
  <2>1. PICK f \in Fans, who \in {l, None} : WriteBoost(f, who)
    BY <1>18 DEF LoopReset
  <2>2. loop' \in [Loops -> LoopPC]
    BY <1>18 DEF TypeOK, LoopReset
  <2>3. QED
    BY <1>18, <2>1, <2>2, WriteBoostType DEF TypeOK, LoopReset
<1>19. ASSUME NEW l \in Loops, NextTick(l) PROVE TypeOK'
  BY <1>19 DEF TypeOK, NextTick
<1>20. ASSUME NEW l \in Loops, SeeCancel(l) PROVE TypeOK'
  BY <1>20 DEF TypeOK, SeeCancel
<1>21. ASSUME NEW l \in Loops, Panic(l) PROVE TypeOK'
  BY <1>21 DEF TypeOK, Panic
<1>22. ASSUME NEW l \in Loops, Recover(l) PROVE TypeOK'
  BY <1>22 DEF TypeOK, Recover
<1>23. ASSUME NEW l \in Loops, CloseDone(l) PROVE TypeOK'
  BY <1>23 DEF TypeOK, CloseDone
<1>24. CASE UNCHANGED vars
  BY <1>24 DEF TypeOK, vars
<1>25. QED
  BY <1>1, <1>2, <1>3, <1>4, <1>5, <1>6, <1>7, <1>8, <1>9, <1>10, <1>11, <1>12, <1>13, <1>14, <1>15, <1>16, <1>17, <1>18, <1>19, <1>20, <1>21, <1>22, <1>23, <1>24
     DEF Next, CallerStep, LoopStep

\* Who holds ctrl, and what a holder may rely on.
Control == LockHeld /\ NothingPublished /\ StartsPastStop /\ RestoresKnown

LEMMA ControlStep == IInv /\ [Next]_vars => Control'
<1> SUFFICES ASSUME IInv, [Next]_vars PROVE Control'
  OBVIOUS
<1> USE DEF IInv, TypeOK, Control, LockHeld, NothingPublished, StartsPastStop, RestoresKnown,
            Holding, GoTo, fanVars, profileVars, curveVars, loopVars, localVars
<1>1. ASSUME NEW t \in Callers, Arrive(t) PROVE Control'
  BY <1>1 DEF Arrive
<1>2. ASSUME NEW t \in Callers, Authorize(t) PROVE Control'
  BY <1>2 DEF Authorize
<1>3. ASSUME NEW t \in Callers, BoostCheck(t) PROVE Control'
  BY <1>3 DEF BoostCheck
<1>4. ASSUME NEW t \in Callers, BoostWrite(t) PROVE Control'
  BY <1>4 DEF BoostWrite
<1>5. ASSUME NEW t \in Callers, ProfileWrite(t) PROVE Control'
  BY <1>5 DEF ProfileWrite
<1>6. ASSUME NEW t \in Callers, TakeCurve(t) PROVE Control'
  BY <1>6 DEF TakeCurve
<1>7. ASSUME NEW t \in Callers, CancelCurve(t) PROVE Control'
  BY <1>7 DEF CancelCurve
<1>8. ASSUME NEW t \in Callers, AwaitDone(t) PROVE Control'
  BY <1>8 DEF AwaitDone
<1>9. ASSUME NEW t \in Callers, StopReset(t) PROVE Control'
  BY <1>9 DEF StopReset, AfterStop, Restores
<1>10. ASSUME NEW t \in Callers, StopReadProfile(t) PROVE Control'
  BY <1>10 DEF StopReadProfile, AfterStop
<1>11. ASSUME NEW t \in Callers, StopRestoreProfile(t) PROVE Control'
  BY <1>11 DEF StopRestoreProfile, AfterStop
<1>12. ASSUME NEW t \in Callers, StartReadProfile(t) PROVE Control'
  BY <1>12 DEF StartReadProfile
<1>13. ASSUME NEW t \in Callers, StartSetCustom(t) PROVE Control'
  BY <1>13 DEF StartSetCustom
<1>14. ASSUME NEW t \in Callers, PublishCurve(t) PROVE Control'
  BY <1>14 DEF PublishCurve
<1>15. ASSUME NEW t \in Callers, Return(t) PROVE Control'
  BY <1>15 DEF Return
<1>16. CASE Shutdown
  BY <1>16 DEF Shutdown
<1>17. ASSUME NEW l \in Loops, LoopStep(l) \/ SeeCancel(l) \/ Panic(l) PROVE Control'
  BY <1>17 DEF LoopStep, Tick, NextTick, SeeCancel, Panic, Recover, LoopReset, CloseDone
<1>18. CASE UNCHANGED vars
  BY <1>18 DEF vars
<1>19. QED
  BY <1>1, <1>2, <1>3, <1>4, <1>5, <1>6, <1>7, <1>8, <1>9, <1>10, <1>11, <1>12, <1>13, <1>14, <1>15, <1>16, <1>17, <1>18
     DEF Next, CallerStep

LEMMA DriverStep == IInv /\ [Next]_vars => DriverKnown'
<1> SUFFICES ASSUME IInv, [Next]_vars PROVE DriverKnown'
  OBVIOUS
<1> USE DEF IInv, TypeOK, DriverKnown, Driving, GoTo, LoopTo, CallerPC,
            fanVars, profileVars, curveVars, loopVars, localVars
<1>1. ASSUME NEW t \in Callers, Arrive(t) PROVE DriverKnown'
  BY <1>1 DEF Arrive
<1>2. ASSUME NEW t \in Callers, Authorize(t) PROVE DriverKnown'
  BY <1>2 DEF Authorize
<1>3. ASSUME NEW t \in Callers, BoostCheck(t) PROVE DriverKnown'
  BY <1>3 DEF BoostCheck
<1>4. ASSUME NEW t \in Callers, BoostWrite(t) PROVE DriverKnown'
  BY <1>4 DEF BoostWrite
<1>5. ASSUME NEW t \in Callers, ProfileWrite(t) PROVE DriverKnown'
  BY <1>5 DEF ProfileWrite
<1>6. ASSUME NEW t \in Callers, TakeCurve(t) PROVE DriverKnown'
  BY <1>6 DEF TakeCurve, LockHeld, Holding
<1>7. ASSUME NEW t \in Callers, CancelCurve(t) PROVE DriverKnown'
  BY <1>7 DEF CancelCurve
<1>8. ASSUME NEW t \in Callers, AwaitDone(t) PROVE DriverKnown'
  BY <1>8 DEF AwaitDone, Live
<1>9. ASSUME NEW t \in Callers, StopReset(t) PROVE DriverKnown'
  BY <1>9 DEF StopReset, AfterStop
<1>10. ASSUME NEW t \in Callers, StopReadProfile(t) PROVE DriverKnown'
  BY <1>10 DEF StopReadProfile, AfterStop
<1>11. ASSUME NEW t \in Callers, StopRestoreProfile(t) PROVE DriverKnown'
  BY <1>11 DEF StopRestoreProfile, AfterStop
<1>12. ASSUME NEW t \in Callers, StartReadProfile(t) PROVE DriverKnown'
  BY <1>12 DEF StartReadProfile
<1>13. ASSUME NEW t \in Callers, StartSetCustom(t) PROVE DriverKnown'
  BY <1>13 DEF StartSetCustom
<1>14. ASSUME NEW t \in Callers, PublishCurve(t) PROVE DriverKnown'
  BY <1>14 DEF PublishCurve, LockHeld, NothingPublished, Holding
<1>15. ASSUME NEW t \in Callers, Return(t) PROVE DriverKnown'
  BY <1>15 DEF Return
<1>16. CASE Shutdown
  BY <1>16 DEF Shutdown
<1>17. ASSUME NEW l \in Loops, LoopStep(l) \/ SeeCancel(l) \/ Panic(l) PROVE DriverKnown'
  BY <1>17 DEF LoopStep, Tick, NextTick, SeeCancel, Panic, Recover, LoopReset, CloseDone
<1>18. CASE UNCHANGED vars
  BY <1>18 DEF vars
<1>19. QED
  BY <1>1, <1>2, <1>3, <1>4, <1>5, <1>6, <1>7, <1>8, <1>9, <1>10, <1>11, <1>12, <1>13, <1>14, <1>15, <1>16, <1>17, <1>18
     DEF Next, CallerStep

LEMMA OwnedStep == IInv /\ [Next]_vars => CurveBoostOwned'
<1> SUFFICES ASSUME IInv, [Next]_vars PROVE CurveBoostOwned'
  OBVIOUS
<1> USE DEF IInv, TypeOK, CurveBoostOwned, WillReset, Driving, LoopTo,
            fanVars, profileVars, curveVars, loopVars, localVars
<1>1. CASE UNCHANGED <<driver, stuck, loop>>
  BY <1>1
<1>2. ASSUME NEW f \in Fans, NEW who \in {Manual, None}, WriteBoost(f, who), UNCHANGED loop
      PROVE  CurveBoostOwned'
  BY <1>2 DEF WriteBoost
<1>3. ASSUME NEW t \in Callers, PublishCurve(t) PROVE CurveBoostOwned'
  BY <1>3 DEF PublishCurve
<1>4. ASSUME NEW l \in Loops, Tick(l) PROVE CurveBoostOwned'
  BY <1>4 DEF Tick, WriteBoost
<1>5. ASSUME NEW l \in Loops, LoopReset(l) PROVE CurveBoostOwned'
  BY <1>5 DEF LoopReset, WriteBoost
<1>6. ASSUME NEW l \in Loops, NextTick(l) \/ SeeCancel(l) \/ Panic(l) \/ Recover(l) \/ CloseDone(l) PROVE CurveBoostOwned'
  BY <1>6 DEF NextTick, SeeCancel, Panic, Recover, CloseDone
<1>7. ASSUME NEW t \in Callers, BoostWrite(t) \/ StopReset(t) PROVE CurveBoostOwned'
  BY <1>7, <1>2 DEF BoostWrite, StopReset
<1>8. QED
  BY <1>1, <1>2, <1>3, <1>4, <1>5, <1>6, <1>7
     DEF vars, Next, CallerStep, LoopStep, Arrive, Authorize, BoostCheck, ProfileWrite,
         TakeCurve, CancelCurve, AwaitDone, StopReadProfile, StopRestoreProfile,
         StartReadProfile, StartSetCustom, Return, Shutdown

LEMMA SilencedStep == IInv /\ [Next]_vars => SilencedSoFar'
<1> SUFFICES ASSUME IInv, [Next]_vars PROVE SilencedSoFar'
  OBVIOUS
<1> USE DEF IInv, TypeOK, SilencedSoFar, Silent, StartsPastStop, GoTo, LoopTo,
            fanVars, profileVars, curveVars, loopVars, localVars
<1>1. ASSUME NEW t \in Callers, Arrive(t) PROVE SilencedSoFar'
  BY <1>1 DEF Arrive
<1>2. ASSUME NEW t \in Callers, Authorize(t) PROVE SilencedSoFar'
  BY <1>2 DEF Authorize
<1>3. ASSUME NEW t \in Callers, BoostCheck(t) PROVE SilencedSoFar'
  BY <1>3 DEF BoostCheck
<1>4. ASSUME NEW t \in Callers, BoostWrite(t) PROVE SilencedSoFar'
  BY <1>4 DEF BoostWrite, WriteBoost
<1>5. ASSUME NEW t \in Callers, ProfileWrite(t) PROVE SilencedSoFar'
  BY <1>5 DEF ProfileWrite
<1>6. ASSUME NEW t \in Callers, TakeCurve(t) PROVE SilencedSoFar'
  BY <1>6 DEF TakeCurve, LockHeld, Holding
<1>7. ASSUME NEW t \in Callers, CancelCurve(t) PROVE SilencedSoFar'
  BY <1>7 DEF CancelCurve
<1>8. ASSUME NEW t \in Callers, AwaitDone(t) PROVE SilencedSoFar'
  BY <1>8 DEF AwaitDone
<1>9. ASSUME NEW t \in Callers, StopReset(t) PROVE SilencedSoFar'
  BY <1>9 DEF StopReset, WriteBoost, AfterStop
<1>10. ASSUME NEW t \in Callers, StopReadProfile(t) PROVE SilencedSoFar'
  BY <1>10 DEF StopReadProfile, AfterStop
<1>11. ASSUME NEW t \in Callers, StopRestoreProfile(t) PROVE SilencedSoFar'
  BY <1>11 DEF StopRestoreProfile, AfterStop
<1>12. ASSUME NEW t \in Callers, StartReadProfile(t) PROVE SilencedSoFar'
  BY <1>12 DEF StartReadProfile
<1>13. ASSUME NEW t \in Callers, StartSetCustom(t) PROVE SilencedSoFar'
  BY <1>13 DEF StartSetCustom
<1>14. ASSUME NEW t \in Callers, PublishCurve(t) PROVE SilencedSoFar'
  BY <1>14 DEF PublishCurve
<1>15. ASSUME NEW t \in Callers, Return(t) PROVE SilencedSoFar'
  BY <1>15 DEF Return
<1>16. CASE Shutdown
  BY <1>16 DEF Shutdown
<1>17. ASSUME NEW l \in Loops, Tick(l) PROVE SilencedSoFar'
  BY <1>17 DEF Tick, WriteBoost, Driving, DriverKnown, LockHeld, Holding, NothingPublished, StartsPastStop
<1>18. ASSUME NEW l \in Loops, LoopReset(l) PROVE SilencedSoFar'
  BY <1>18 DEF LoopReset, WriteBoost
<1>19. ASSUME NEW l \in Loops, NextTick(l) \/ SeeCancel(l) \/ Panic(l) \/ Recover(l) \/ CloseDone(l) PROVE SilencedSoFar'
  BY <1>19 DEF NextTick, SeeCancel, Panic, Recover, CloseDone
<1>20. CASE UNCHANGED vars
  BY <1>20 DEF vars
<1>21. QED
  BY <1>1, <1>2, <1>3, <1>4, <1>5, <1>6, <1>7, <1>8, <1>9, <1>10, <1>11, <1>12, <1>13, <1>14, <1>15, <1>16, <1>17, <1>18, <1>19, <1>20
     DEF Next, CallerStep, LoopStep

LEMMA ChoiceStep == IInv /\ [Next]_vars => ChoiceTracked'
<1> SUFFICES ASSUME IInv, [Next]_vars PROVE ChoiceTracked'
  OBVIOUS
<1> USE DEF IInv, TypeOK, ChoiceTracked, Settled, OnCurve, LockHeld, NothingPublished, Holding,
            GoTo, fanVars, profileVars, curveVars, loopVars, localVars
<1>1. ASSUME NEW t \in Callers, Arrive(t) PROVE ChoiceTracked'
  BY <1>1 DEF Arrive
<1>2. ASSUME NEW t \in Callers, Authorize(t) PROVE ChoiceTracked'
  BY <1>2 DEF Authorize
<1>3. ASSUME NEW t \in Callers, BoostCheck(t) PROVE ChoiceTracked'
  BY <1>3 DEF BoostCheck
<1>4. ASSUME NEW t \in Callers, BoostWrite(t) PROVE ChoiceTracked'
  BY <1>4 DEF BoostWrite
<1>5. ASSUME NEW t \in Callers, ProfileWrite(t) PROVE ChoiceTracked'
  BY <1>5 DEF ProfileWrite
<1>6. ASSUME NEW t \in Callers, TakeCurve(t) PROVE ChoiceTracked'
  BY <1>6 DEF TakeCurve
<1>7. ASSUME NEW t \in Callers, CancelCurve(t) PROVE ChoiceTracked'
  BY <1>7 DEF CancelCurve
<1>8. ASSUME NEW t \in Callers, AwaitDone(t) PROVE ChoiceTracked'
  BY <1>8 DEF AwaitDone
<1>9. ASSUME NEW t \in Callers, StopReset(t) PROVE ChoiceTracked'
  BY <1>9 DEF StopReset, AfterStop, Restores
<1>10. ASSUME NEW t \in Callers, StopReadProfile(t) PROVE ChoiceTracked'
  <2>1. /\ pc[t] = "stop_read" /\ ctrl = t
        /\ \A u \in Callers \ {t} : pc'[u] = pc[u] /\ pc[u] \notin Holding
        /\ UNCHANGED <<profile, chosen, cur, saved, ctrl, kept, taken>>
    BY <1>10 DEF StopReadProfile, AfterStop
  <2>2. CASE profile # Custom /\ GoTo(t, "stop_read", AfterStop(t)) /\ clean' = clean
    <3>1. pc'[t] \in {"start_read", "return"}
      BY <2>2 DEF AfterStop
    <3>2. clean => profile = chosen
      BY <2>1, <2>2
    <3>3. cur = None
      BY <2>1
    <3>4. QED
      BY <2>1, <2>2, <3>1, <3>2, <3>3
  <2>3. CASE profile = Custom /\ GoTo(t, "stop_read", "stop_restore") /\ clean' = clean
    BY <2>1, <2>3
  <2>4. CASE clean' = FALSE
    BY <2>4
  <2>5. QED
    BY <1>10, <2>2, <2>3, <2>4 DEF StopReadProfile
<1>11. ASSUME NEW t \in Callers, StopRestoreProfile(t) PROVE ChoiceTracked'
  BY <1>11 DEF StopRestoreProfile, AfterStop, SwitchProfile
<1>12. ASSUME NEW t \in Callers, StartReadProfile(t) PROVE ChoiceTracked'
  BY <1>12 DEF StartReadProfile
<1>13. ASSUME NEW t \in Callers, StartSetCustom(t) PROVE ChoiceTracked'
  BY <1>13 DEF StartSetCustom, SwitchProfile
<1>14. ASSUME NEW t \in Callers, PublishCurve(t) PROVE ChoiceTracked'
  BY <1>14 DEF PublishCurve
<1>15. ASSUME NEW t \in Callers, Return(t) PROVE ChoiceTracked'
  BY <1>15 DEF Return
<1>16. CASE Shutdown
  BY <1>16 DEF Shutdown
<1>17. ASSUME NEW l \in Loops, Recover(l) PROVE ChoiceTracked'
  BY <1>17 DEF Recover
<1>18. ASSUME NEW l \in Loops, (LoopStep(l) /\ ~Recover(l)) \/ SeeCancel(l) \/ Panic(l) PROVE ChoiceTracked'
  BY <1>18 DEF LoopStep, Tick, NextTick, SeeCancel, Panic, LoopReset, CloseDone
<1>19. CASE UNCHANGED vars
  BY <1>19 DEF vars
<1>20. QED
  BY <1>1, <1>2, <1>3, <1>4, <1>5, <1>6, <1>7, <1>8, <1>9, <1>10, <1>11, <1>12, <1>13, <1>14, <1>15, <1>16, <1>17, <1>18, <1>19
     DEF Next, CallerStep

LEMMA StepInv == IInv /\ [Next]_vars => IInv'
<1> SUFFICES ASSUME IInv, [Next]_vars PROVE IInv'
  OBVIOUS
<1>1. TypeOK'
  BY TypeStep
<1>2. Control'
  BY ControlStep
<1>3. DriverKnown' /\ CurveBoostOwned'
  BY DriverStep, OwnedStep
<1>4. SilencedSoFar' /\ ChoiceTracked'
  BY SilencedStep, ChoiceStep
<1>5. QED
  BY <1>1, <1>2, <1>3, <1>4 DEF IInv, Control

LEMMA Invariance == Spec => []IInv
<1>1. QED
  BY InitInv, StepInv, PTL DEF Spec

-----------------------------------------------------------------------------
(* The properties *)

\* Every variable keeps its type: in particular a stop never writes an unknown profile.
THEOREM TypeCorrect == Spec => []TypeOK
<1>1. IInv => TypeOK
  BY DEF IInv
<1>2. QED
  BY <1>1, Invariance, PTL

\* However many callers start and stop curves, and whatever panics, two curve
\* goroutines are never both in the for loop of Service.run.
LEMMA InvSingleDriver == IInv => SingleDriver
<1> SUFFICES ASSUME IInv, NEW l \in Loops, NEW m \in Loops, Driving(l), Driving(m)
             PROVE  l = m
  BY DEF SingleDriver
<1>1. CASE cur = l
  BY <1>1 DEF IInv, DriverKnown, NothingPublished, Holding
<1>2. CASE cur = m
  BY <1>2 DEF IInv, DriverKnown, NothingPublished, Holding
<1>3. CASE cur \notin {l, m}
  BY <1>3 DEF IInv, DriverKnown, LockHeld, Holding
<1>4. QED
  BY <1>1, <1>2, <1>3

THEOREM OneDriver == Spec => []SingleDriver
<1>1. QED
  BY InvSingleDriver, Invariance, PTL

\* No curve goroutine ends leaving its boost on a fan unless the kernel refused the
\* reset: the deferred ResetBoost of Service.run covers cancellation and panics.
THEOREM NoBoostLeftBehind == Spec => []CurveBoostOwned
<1>1. IInv => CurveBoostOwned
  BY DEF IInv
<1>2. QED
  BY <1>1, Invariance, PTL

\* From the reset of stopLocked until the stop returns or the next curve is published,
\* no fan carries a curve's boost.
THEOREM StopSilences == Spec => []CurveSilenced
<1>1. IInv => CurveSilenced
  BY DEF IInv, SilencedSoFar, Silent, CurveSilenced
<1>2. QED
  BY <1>1, Invariance, PTL

\* The profile the user last chose is back once no curve runs, for the choices the
\* code keeps.
THEOREM ChoiceKept == Spec => []ProfileKept
<1>1. IInv => ProfileKept
  BY DEF IInv, ChoiceTracked, Settled, ProfileKept
<1>2. QED
  BY <1>1, Invariance, PTL

-----------------------------------------------------------------------------
(***************************************************************************)
(* CurveControl implements FanPromise, for any number of callers, curve    *)
(* goroutines and profiles: each step of a goroutine is one step of the    *)
(* abstract session, or leaves it alone.                                   *)
(***************************************************************************)
Sources == [f \in Fans |-> SourceOf(f)]

\* What the implementation proof needs of a step's two states.
Sound == TypeOK /\ CurveBoostOwned /\ CurveSilenced /\ SingleDriver

LEMMA InvSound == IInv => Sound
  BY InvSingleDriver DEF IInv, Sound, SilencedSoFar, Silent, CurveSilenced

LEMMA InitPromise == Init => Promise!Init
  BY DEF Init, Promise!Init, SessionOf, SourceOf, Driving, Live

\* A write of one fan's boost is one of FanPromise's changes of that fan.
LEMMA WritePromise ==
  ASSUME Sound, NEW f \in Fans, NEW who \in Loops \cup {Manual, None},
         WriteBoost(f, who), SessionOf' = SessionOf,
         who \in Loops => SessionOf = "driving"
  PROVE  [Promise!Next]_(Promise!vars)
<1> USE DEF Sound, TypeOK, SourceOf, Sources
<1>1. CASE driver' = [driver EXCEPT ![f] = who] /\ stuck' = stuck \ {f}
  <2>1. ASSUME NEW s, SourceOf(f)' = s PROVE Sources' = [Sources EXCEPT ![f] = s]
    BY <1>1, <2>1
  <2>2. CASE who = None
    <3>1. SourceOf(f)' = "firmware"
      BY <1>1, <2>2
    <3>2. Promise!Release(f)
      BY <2>1, <3>1 DEF Promise!Release, Promise!SetSrc
    <3>3. QED
      BY <3>2 DEF Promise!Next
  <2>3. CASE who = Manual
    <3>1. SourceOf(f)' = "manual"
      BY <1>1, <2>3
    <3>2. Promise!SetByHand(f)
      BY <2>1, <3>1 DEF Promise!SetByHand, Promise!SetSrc
    <3>3. QED
      BY <3>2 DEF Promise!Next
  <2>4. CASE who \in Loops
    <3>1. SourceOf(f)' = "curve"
      BY <1>1, <2>4
    <3>2. Promise!Drive(f)
      BY <2>1, <2>4, <3>1 DEF Promise!Drive, Promise!SetSrc
    <3>3. QED
      BY <3>2 DEF Promise!Next
  <2>5. QED
    BY <2>2, <2>3, <2>4
<1>2. CASE driver' = driver /\ stuck' = IF who = None THEN stuck \cup {f} ELSE stuck
  <2>1. CASE who = None /\ SourceOf(f) = "curve"
    <3>1. SourceOf(f)' = "stuck" /\ \A g \in Fans \ {f} : SourceOf(g)' = SourceOf(g)
      BY <1>2, <2>1
    <3>2. Sources' = [Sources EXCEPT ![f] = "stuck"]
      BY <3>1
    <3>3. Promise!RefuseRelease(f)
      BY <2>1, <3>2 DEF Promise!RefuseRelease, Promise!SetSrc
    <3>4. QED
      BY <3>3 DEF Promise!Next
  <2>2. CASE ~(who = None /\ SourceOf(f) = "curve")
    <3>1. Sources' = Sources
      BY <1>2, <2>2
    <3>2. QED
      BY <3>1 DEF Promise!vars
  <2>3. QED
    BY <2>1, <2>2
<1>3. QED
  BY <1>1, <1>2 DEF WriteBoost

LEMMA StepPromise ==
  Sound /\ Sound' /\ [Next]_vars => [Promise!Next]_(Promise!vars)
<1> SUFFICES ASSUME Sound, Sound', [Next]_vars PROVE [Promise!Next]_(Promise!vars)
  OBVIOUS
<1> USE DEF fanVars, profileVars, curveVars, loopVars, localVars, LoopTo
<1>1. CASE UNCHANGED <<driver, stuck, loop>>
  BY <1>1 DEF Promise!vars, SessionOf, SourceOf, Driving, Live
<1>2. ASSUME NEW t \in Callers, BoostWrite(t) \/ StopReset(t)
      PROVE  [Promise!Next]_(Promise!vars)
  <2>1. PICK f \in Fans, who \in {Manual, None} : WriteBoost(f, who)
    BY <1>2 DEF BoostWrite, StopReset
  <2>2. SessionOf' = SessionOf
    BY <1>2 DEF BoostWrite, StopReset, SessionOf, Driving, Live
  <2>3. QED
    BY <2>1, <2>2, WritePromise
<1>3. ASSUME NEW l \in Loops, Tick(l) PROVE [Promise!Next]_(Promise!vars)
  <2>1. PICK f \in Fans, who \in {l, None} : WriteBoost(f, who)
    BY <1>3 DEF Tick
  <2>2. Driving(l) /\ Driving(l)'
    BY <1>3 DEF Tick, Driving, Sound, TypeOK
  <2>3. SessionOf = "driving" /\ SessionOf' = "driving"
    BY <2>2 DEF SessionOf
  <2>4. QED
    BY <2>1, <2>3, WritePromise
<1>4. ASSUME NEW l \in Loops, LoopReset(l) PROVE [Promise!Next]_(Promise!vars)
  <2>1. PICK f \in Fans : WriteBoost(f, None)
    BY <1>4 DEF LoopReset
  <2>2. \A m \in Loops : (Driving(m)' <=> Driving(m)) /\ (Live(m)' <=> Live(m))
    BY <1>4 DEF LoopReset, Driving, Live, Sound, TypeOK
  <2>3. SessionOf' = SessionOf
    BY <2>2 DEF SessionOf
  <2>4. QED
    BY <2>1, <2>3, WritePromise
<1>5. ASSUME NEW l \in Loops, NextTick(l) \/ Recover(l) PROVE [Promise!Next]_(Promise!vars)
  <2>1. \A m \in Loops : (Driving(m)' <=> Driving(m)) /\ (Live(m)' <=> Live(m))
    BY <1>5 DEF NextTick, Recover, Driving, Live, Sound, TypeOK
  <2>2. SessionOf' = SessionOf
    BY <2>1 DEF SessionOf
  <2>3. QED
    BY <1>5, <2>2 DEF NextTick, Recover, Promise!vars, SourceOf
<1>6. ASSUME NEW l \in Loops, SeeCancel(l) \/ Panic(l) PROVE [Promise!Next]_(Promise!vars)
  <2>1. Driving(l) /\ ~Driving(l)' /\ Live(l)'
    BY <1>6 DEF SeeCancel, Panic, Driving, Live, Sound, TypeOK
  <2>2. \A m \in Loops \ {l} : ~Driving(m)'
    BY <1>6, <2>1 DEF SeeCancel, Panic, Driving, Sound, TypeOK, SingleDriver
  <2>3. SessionOf = "driving" /\ SessionOf' = "closing"
    BY <2>1, <2>2 DEF SessionOf
  <2>4. Sources' = Sources
    BY <1>6 DEF SeeCancel, Panic, Sources, SourceOf
  <2>5. Promise!Leave
    BY <2>3, <2>4 DEF Promise!Leave, Sources
  <2>6. QED
    BY <2>5 DEF Promise!Next
<1>7. ASSUME NEW l \in Loops, CloseDone(l) PROVE [Promise!Next]_(Promise!vars)
  <2>1. Sources' = Sources
    BY <1>7 DEF CloseDone, Sources, SourceOf
  <2>2. Live(l) /\ ~Driving(l) /\ ~Live(l)' /\ ~Driving(l)'
    BY <1>7 DEF CloseDone, Driving, Live, Sound, TypeOK
  <2>3. \A m \in Loops \ {l} : (Driving(m)' <=> Driving(m)) /\ (Live(m)' <=> Live(m))
    BY <1>7 DEF CloseDone, Driving, Live, Sound, TypeOK
  <2>4. CASE \E m \in Loops : Live(m)'
    <3>1. SessionOf' = SessionOf
      BY <2>2, <2>3, <2>4 DEF SessionOf
    <3>2. QED
      BY <2>1, <3>1 DEF Promise!vars, Sources
  <2>5. CASE \A m \in Loops : ~Live(m)'
    <3>1. SessionOf = "closing" /\ SessionOf' = "none"
      BY <2>2, <2>3, <2>5 DEF SessionOf, Driving, Live
    <3>2. \A f \in Fans, m \in Loops : ~WillReset(m, f)'
      BY <2>5 DEF WillReset, Driving, Live
    <3>3. \A f \in Fans : SourceOf(f) # "curve"
      BY <1>7, <3>2 DEF CloseDone, Sound, TypeOK, CurveBoostOwned, SourceOf
    <3>4. Promise!Close
      BY <2>1, <3>1, <3>3 DEF Promise!Close, Promise!NoCurveBoost, Sources
    <3>5. QED
      BY <3>4 DEF Promise!Next
  <2>6. QED
    BY <2>4, <2>5
<1>8. ASSUME NEW t \in Callers, PublishCurve(t) PROVE [Promise!Next]_(Promise!vars)
  <2>1. PICK l \in Loops : LoopTo(l, "free", "tick_cpu")
    BY <1>8 DEF PublishCurve
  <2>2. Driving(l)' /\ ~Driving(l)
    BY <2>1 DEF Driving, Sound, TypeOK
  <2>3. \A m \in Loops \ {l} : Driving(m) => Driving(m)'
    BY <2>1 DEF Driving, Sound, TypeOK
  <2>4. \A m \in Loops : ~Driving(m)
    BY <2>2, <2>3 DEF Sound, SingleDriver
  <2>5. SessionOf # "driving" /\ SessionOf' = "driving"
    BY <2>2, <2>4 DEF SessionOf
  <2>6. \A f \in Fans : SourceOf(f) # "curve"
    BY <1>8 DEF PublishCurve, GoTo, Sound, TypeOK, CurveSilenced, SourceOf
  <2>7. Sources' = Sources
    BY <1>8 DEF PublishCurve, Sources, SourceOf
  <2>8. Promise!Open
    BY <2>5, <2>6, <2>7 DEF Promise!Open, Promise!NoCurveBoost, Sources
  <2>9. QED
    BY <2>8 DEF Promise!Next
<1>9. QED
  BY <1>1, <1>2, <1>3, <1>4, <1>5, <1>6, <1>7, <1>8
     DEF vars, Next, CallerStep, LoopStep, Arrive, Authorize, BoostCheck, ProfileWrite,
         TakeCurve, CancelCurve, AwaitDone, StopReadProfile, StopRestoreProfile,
         StartReadProfile, StartSetCustom, Return, Shutdown

\* The goroutines, locks and calls of service.go implement FanPromise: curves never
\* overlap, never inherit a boost and never end with one left behind.
THEOREM PromiseKept == Spec => KeepsPromise
<1>1. Spec => []Sound
  BY Invariance, InvSound, PTL
<1>2. QED
  BY InitPromise, StepPromise, <1>1, PTL DEF Spec, KeepsPromise, Promise!Spec

=============================================================================
