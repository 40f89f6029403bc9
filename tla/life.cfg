\* One call in flight beside the shutdown, refused writes, panics, a hung loop, a bus
\* that drops, and a crash at any moment.
CONSTANTS
  h1 = h1
  l1 = l1
  Handlers = {h1}
  Main = main
  Loops = {l1}
  Profiles = {"custom"}
  Custom = "custom"
  None = None
  Manual = Manual
  Faults = {"refuse", "panic"}
  MayHang = TRUE
SPECIFICATION LifecycleFairSpec
INVARIANTS BoostHasAnHeir
PROPERTIES StopFreesFans StopReturns
