--------------------------- MODULE CurveRefinement ---------------------------
(* CurveControl keeps the promise of FanPromise. *)
EXTENDS CurveControl

\* What a session is in the code: a goroutine in run's for loop, then one that
\* runs its deferred calls.
SessionOf ==
  IF \E l \in Loops : Driving(l) THEN "driving"
  ELSE IF \E l \in Loops : Live(l) THEN "closing"
  ELSE "none"

SourceOf(f) ==
  IF driver[f] = None THEN "firmware"
  ELSE IF driver[f] = Manual THEN "manual"
  ELSE IF f \in stuck THEN "stuck"
  ELSE "curve"

Promise == INSTANCE FanPromise WITH
  session <- SessionOf,
  src <- [f \in Fans |-> SourceOf(f)]

\* Every behaviour of the goroutines is one of the abstract sessions: curves
\* never overlap, never inherit a boost and never end with one left behind.
KeepsPromise == Promise!Spec

=============================================================================
