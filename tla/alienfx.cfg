\* Two processes and two commands over a controller that wedges, turns busy
\* and drops off the bus.  With its bounds used up the model stops.
CONSTANTS
  p1 = p1
  p2 = p2
  Procs = {p1, p2}
  RegionIDs <- Table
  ZoneIDs <- TableZones
  MaxColorZonesPerFrame = 2
  MaxTurnOnZonesPerFrame = 2
  Colours = {"red", "green", "dark"}
  Dark = "dark"
  Blinks = 1
  Requests <- AllRequests
  Neighbours <- Others
  Faults = {"kill", "wedge", "busy", "refuse", "incurable", "vanish"}
  MaxCommands = 2
  MaxNodes = 2
SPECIFICATION FairSpec
INVARIANTS TypeOK
PROPERTIES PlayShowsOwn OkMeansShown WedgedOnlyWhenIncurable CommandsEnd
CHECK_DEADLOCK FALSE
