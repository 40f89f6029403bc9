--------------------------- MODULE MCCurveControl ---------------------------
(* Instances of CurveControl for TLC. *)
EXTENDS CurveRefinement, TLC

\* Callers and curve goroutines are interchangeable; used by safety runs only.
Symmetry == Permutations(Handlers) \cup Permutations(Loops)

=============================================================================
