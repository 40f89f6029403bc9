\* Temperatures and boosts on, inside and beyond the limits 0-110 and 0-255, and
\* readings from below the first point of each driven side to above its last.  A
\* side that is not driven has no next step.
CONSTANTS
  Sides <- SidesAround
  Numbers <- NumbersAround
  Hystereses = {0, 1, 3}
  Temps = {0, 1, 2, 3, 4, 5, 6, 7, 8, 9, 10}
  NoTemp = NoTemp
SPECIFICATION MCSpec
INVARIANTS TypeOK SideIsByDefinition NormalizeIsStable InterpolateFollowsThePoints WithinBand RisingBand
PROPERTIES NoChatter
CHECK_DEADLOCK FALSE
