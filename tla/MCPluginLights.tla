--------------------------- MODULE MCPluginLights ---------------------------
(***************************************************************************)
(* Instances of PluginLights for TLC, with the state files they start      *)
(* from: every region is switched on.                                      *)
(***************************************************************************)
EXTENDS PluginLights

Colouring(R) == [R -> Colours]

StartsLit == Init /\ saved.lit = [l \in Lamps |-> Regions]

\* The lights are on.  The chassis has a colour but for the power button, which
\* shows the battery; the keyboard was never painted.
PartlyColoured ==
  /\ StartsLit /\ saved.on
  /\ \A l \in Lamps : saved.colour[l] \in Colouring(IF l = "rgb" THEN Regions \ {Special} ELSE {})

\* Every region has a colour: a suspend has the most to bring back.
AllColoured == StartsLit /\ \A l \in Lamps : saved.colour[l] \in Colouring(Regions)

LightsSpec == PartlyColoured /\ [][Next]_vars
SuspendSpec == AllColoured /\ [][Next]_vars /\ Fairness

=============================================================================
