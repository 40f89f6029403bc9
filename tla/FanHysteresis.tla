----------------------------- MODULE FanHysteresis -----------------------------
(***************************************************************************)
(* One fan from the payload to its boost: Parse normalises the side of the *)
(* curve that was sent, and when it accepts it, the fan.State (src/helper/ *)
(* internal/fan/hysteresis.go) follows it, driven by Service.tick, which   *)
(* updates it with every readable temperature and resets it on an          *)
(* unreadable one.                                                         *)
(***************************************************************************)
EXTENDS FanCurve, FiniteSets

CONSTANTS
  Sides,        \* the sides a payload may carry
  Numbers,      \* what it may set the interval and the hysteresis to
  Hystereses,   \* the accepted hysteresis settings, in degrees
  Temps,        \* the temperatures the sensor may report
  NoTemp        \* an unreadable sensor

ASSUME HysteresisAssumption ==
  /\ Sides \subseteq Seq([temp : Int, boost : Int])
  /\ Numbers \subseteq Int
  /\ Hystereses \subseteq Nat
  /\ Temps \subseteq Int
  /\ NoTemp \notin Temps

VARIABLES
  sent,        \* this fan's side of the curve as it was sent
  points,      \* and as it was accepted, fixed while the curve runs
  hysteresis,
  primed,
  boost,
  heldTemp,
  temp,        \* the last reading
  hottest      \* history: the hottest reading since the fan was primed or slowed

vars == <<sent, points, hysteresis, primed, boost, heldTemp, temp, hottest>>

TypeOK ==
  /\ sent \in Sides
  /\ points \in Seq([temp : MinTemp .. MaxTemp, boost : MinBoost .. MaxBoost])
  /\ hysteresis \in Hystereses
  /\ primed \in BOOLEAN
  /\ boost \in MinBoost .. MaxBoost
  /\ heldTemp \in Temps \cup {0}
  /\ temp \in Temps \cup {NoTemp}
  /\ hottest \in Temps \cup {0}

\* Parse, and NewState before the first tick.
Init ==
  /\ sent \in Sides
  /\ points = validateSide(sent)
  /\ hysteresis \in Hystereses
  /\ primed = FALSE
  /\ boost = 0
  /\ heldTemp = 0
  /\ temp = NoTemp
  /\ hottest = 0

\* The boost is the curve's at t, and t the temperature it is held for.
Take(target, t) ==
  /\ boost' = target
  /\ heldTemp' = t

Keep == UNCHANGED <<boost, heldTemp>>

\* Slips in Update: a fan slowed down keeps the temperature it was held for, and a
\* held fan follows the temperature down.
UpdateForgettingHeld(t) ==
  LET target == Interpolate(points, t)
  IN  /\ primed' = TRUE
      /\ IF ~primed \/ target >= boost THEN Take(target, t)
         ELSE IF heldTemp - t > hysteresis THEN boost' = target /\ UNCHANGED heldTemp
         ELSE Keep

UpdateDrifting(t) ==
  LET target == Interpolate(points, t)
  IN  /\ primed' = TRUE
      /\ IF ~primed \/ target >= boost \/ heldTemp - t > hysteresis THEN Take(target, t)
         ELSE heldTemp' = t /\ UNCHANGED boost

Update(t) ==
  LET target == Interpolate(points, t)
  IN  /\ primed' = TRUE
      /\ IF ~primed \/ target >= boost \/ heldTemp - t > hysteresis
         THEN Take(target, t)
         ELSE Keep

\* A tick that could read the sensor.
Readable ==
  \E t \in Temps :
    /\ Update(t)
    /\ temp' = t
    /\ hottest' = IF ~primed \/ boost' < boost \/ t > hottest THEN t ELSE hottest
    /\ UNCHANGED <<sent, points, hysteresis>>

\* A tick that could not: State.Reset, and the tick writes boost 0.
Unreadable ==
  /\ primed' = FALSE
  /\ boost' = 0
  /\ heldTemp' = 0
  /\ temp' = NoTemp
  /\ hottest' = 0
  /\ UNCHANGED <<sent, points, hysteresis>>

\* A side that is not accepted drives no fan.
Next == points # Invalid /\ (Readable \/ Unreadable)

Spec == Init /\ [][Next]_vars

-----------------------------------------------------------------------------
(* Properties *)

\* The definition a side is compared with: a function from temperatures.
ClampedTemps == {clampInt(sent[i].temp, MinTemp, MaxTemp) : i \in DOMAIN sent}

Loudest(t) ==
  Max({clampInt(sent[i].boost, MinBoost, MaxBoost) :
         i \in {j \in DOMAIN sent : clampInt(sent[j].temp, MinTemp, MaxTemp) = t}})

\* Parse accepts exactly the sides with 2 to 8 points that still have two distinct
\* temperatures after clamping, and keeps the loudest boost asked for at each, in
\* strictly rising temperature order (normalizePoints, validateSide).
SideIsByDefinition ==
  IF Len(sent) <= MaxPoints /\ Cardinality(ClampedTemps) >= MinPoints
  THEN /\ {points[i] : i \in DOMAIN points} = {Point(t, Loudest(t)) : t \in ClampedTemps}
       /\ \A i \in 1 .. Len(points) - 1 : points[i].temp < points[i + 1].temp
  ELSE points = Invalid

\* A saved curve survives the round trip: the panel reads an applied curve back from
\* Status and sends it again, so accepting it twice must change nothing.
NormalizeIsStable ==
  points # Invalid =>
    \A n \in Numbers :
      LET once == Normalize([interval |-> n, hysteresis |-> n, cpu |-> points, gpu |-> points])
      IN  once # Invalid /\ once.cpu = points /\ Normalize(once) = once

\* The boost goes through the points of the side, between two of them it never leaves
\* the two they set, and where a segment rises a hotter fan is never given less
\* (Interpolate).
InterpolateFollowsThePoints ==
  /\ \A i \in 1 .. Len(points) : Interpolate(points, points[i].temp) = points[i].boost
  /\ \A i \in 1 .. Len(points) - 1 :
       LET lo == Min({points[i].boost, points[i + 1].boost})
           hi == Max({points[i].boost, points[i + 1].boost})
       IN  \A t \in points[i].temp .. points[i + 1].temp :
             /\ Interpolate(points, t) \in lo .. hi
             /\ (points[i].boost <= points[i + 1].boost /\ t > points[i].temp)
                  => Interpolate(points, t - 1) <= Interpolate(points, t)

\* What the fan is given lags the curve by at most the hysteresis: it is the
\* curve's boost at a temperature no more than that above the last reading, never
\* below the curve's boost at the reading itself, and 0 while the sensor is
\* unreadable, whatever the curve's shape and the order of the readings.
WithinBand ==
  IF temp = NoTemp THEN boost = 0
  ELSE /\ boost = Interpolate(points, heldTemp)
       /\ boost >= Interpolate(points, temp)
       /\ heldTemp - temp <= hysteresis

\* A side whose boosts never fall as the temperature rises.
NeverFalls(s) == \A i \in 1 .. Len(s) - 1 : s[i].boost <= s[i + 1].boost
Rising == NeverFalls(points)

\* On a rising curve the lag has two sides: the boost is between the curve's at the
\* reading and the curve's hysteresis degrees above it.
RisingBand ==
  Rising /\ temp # NoTemp =>
    boost \in Interpolate(points, temp) .. Interpolate(points, temp + hysteresis)

\* The fan does not chatter: between two slowdowns the temperature has swung by more
\* than the hysteresis, so noise inside it never makes a fan audible.
NoChatter ==
  [][primed /\ primed' /\ boost' < boost => hottest - temp' > hysteresis]_vars

=============================================================================
