\* Two calls in flight over a keyboard that is unplugged, refuses reports or is held
\* by another program, in a daemon that stops and dies.
CONSTANTS
  c1 = c1
  c2 = c2
  Main = Main
  Nobody = Nobody
  Callers = {c1, c2}
  DefaultKeyLast = 2
  MaxKeysPerColorSetFrame = 2
  Colours = {"red", "dark", "white"}
  Dark = "dark"
  White = "white"
  Requests <- SomeRequests
  Faults = {"refuse", "unplug", "foreign", "crash", "stop"}
  MaxCalls = 2
  MaxNodes = 2
SPECIFICATION FairSpec
INVARIANTS TypeOK
PROPERTIES UpdateShowsOwn StaleHandleHeals BusyIsForeign CallsEnd StopEnds
