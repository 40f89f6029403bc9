\* Everything is fair, and one curve goroutine hangs.
CONSTANTS
  h1 = h1
  l1 = l1
  Handlers = {h1}
  Main = main
  Loops = {l1}
  Profiles = {"custom"}
  Custom = "custom"
  None = None
  Manual = Manual
  Faults = {}
  MayHang = TRUE
SPECIFICATION LifecycleFairSpec
PROPERTIES HungLoopRestarted
