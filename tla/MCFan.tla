------------------------------- MODULE MCFan -------------------------------
(***************************************************************************)
(* Every side of up to 3 points over temperatures and boosts that straddle *)
(* the limits is sent and compared with what a curve is by definition;     *)
(* SampleSides are also driven.                                            *)
(***************************************************************************)
EXTENDS FanHysteresis

\* Values for the constants: on, inside and beyond each limit.
TempsAround == {-5, 0, 7, 110, 120}
BoostsAround == {-1, 0, 3, 255, 300}
NumbersAround == {-3, 0, 1, 15, 31}
PointsAround == {Point(t, b) : t \in TempsAround, b \in BoostsAround}

\* A rising side, one with a plateau and a repeated point, the falling one of the
\* tests (curve_test.go, TestInterpolateDescendingSegment), and a valley sent in
\* the wrong order.
SampleSides ==
  {<<Point(2, 0), Point(5, 40), Point(9, 200)>>,
   <<Point(1, 10), Point(4, 10), Point(6, 255), Point(4, 5)>>,
   <<Point(2, 200), Point(8, 100)>>,
   <<Point(5, 10), Point(8, 90), Point(2, 50)>>}

\* One side too long to be accepted; lengths between are like those below.
Oversized == [i \in 1 .. MaxPoints + 1 |-> Point(i, i)]

SidesAround == UNION {[1 .. n -> PointsAround] : n \in 0 .. 3} \cup {Oversized} \cup SampleSides

MCInit == Init /\ (sent \in SampleSides \/ hysteresis = 0)

MCNext == sent \in SampleSides /\ Next

MCSpec == MCInit /\ [][MCNext]_vars

=============================================================================
