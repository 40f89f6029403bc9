\* A D-Bus call in flight beside the shutdown, two curve goroutines alive at once when
\* one has panicked, and profiles that cannot always be read.  Refused writes are in
\* life.cfg, two calls in the runs of the races.
CONSTANTS
  h1 = h1
  l1 = l1
  l2 = l2
  Handlers = {h1}
  Main = main
  Loops = {l1, l2}
  Profiles = {"balanced", "performance", "custom"}
  Custom = "custom"
  None = None
  Manual = Manual
  Faults = {"unreadable", "panic"}
SPECIFICATION Spec
SYMMETRY Symmetry
INVARIANTS TypeOK SingleDriver CurveBoostOwned CurveSilenced ProfileKept
PROPERTIES KeepsPromise
