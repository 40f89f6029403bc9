----------------------------- MODULE FanPromise -----------------------------
(***************************************************************************)
(* What the daemon promises about the fans while curves come and go,       *)
(* without goroutines, locks or method calls.                              *)
(*                                                                         *)
(* A fan curve is a session.  Only an open session puts a curve's boost on *)
(* a fan, a session opens on fans no earlier curve still holds, and it     *)
(* is over only when it has given both fans back to the firmware (or the   *)
(* kernel refused to take one, which the daemon can only log).             *)
(***************************************************************************)
CONSTANT Fans

VARIABLES
  session,   \* "none", "driving", or "closing": resetting what it drove
  src        \* src[f]: who set the boost f carries

vars == <<session, src>>

Sessions == {"none", "driving", "closing"}
Sources == {"firmware", "manual", "curve", "stuck"}

TypeOK ==
  /\ session \in Sessions
  /\ src \in [Fans -> Sources]

NoCurveBoost == \A f \in Fans : src[f] # "curve"

Init ==
  /\ session = "none"
  /\ src = [f \in Fans |-> "firmware"]

SetSrc(f, s) == src' = [src EXCEPT ![f] = s]

\* A curve starts, possibly while one that panicked is still cleaning up.
Open ==
  /\ session # "driving"
  /\ NoCurveBoost
  /\ session' = "driving"
  /\ UNCHANGED src

Drive(f) ==
  /\ session = "driving"
  /\ SetSrc(f, "curve")
  /\ UNCHANGED session

\* Anyone may set a boost by hand or reset it at any time.
SetByHand(f) == SetSrc(f, "manual") /\ UNCHANGED session
Release(f) == SetSrc(f, "firmware") /\ UNCHANGED session

\* A reset of a curve's boost is refused by the kernel.
RefuseRelease(f) ==
  /\ src[f] = "curve"
  /\ SetSrc(f, "stuck")
  /\ UNCHANGED session

Leave ==
  /\ session = "driving"
  /\ session' = "closing"
  /\ UNCHANGED src

Close ==
  /\ session = "closing"
  /\ NoCurveBoost
  /\ session' = "none"
  /\ UNCHANGED src

Next ==
  \/ Open \/ Leave \/ Close
  \/ \E f \in Fans : Drive(f) \/ SetByHand(f) \/ Release(f) \/ RefuseRelease(f)

Spec == Init /\ [][Next]_vars

=============================================================================
