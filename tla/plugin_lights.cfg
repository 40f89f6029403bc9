\* Two requests beside the restore at start, and writes that fail or hang.
\* With its bounds used up the model stops, where the plugin would go on.
CONSTANTS
  None = None
  Dark = Dark
  Firmware = Firmware
  Mark = Mark
  red = red
  Lamps = {"rgb", "kbd"}
  Regions = {"plain", "special"}
  Special = "special"
  Colours = {red}
  MaxTries = 1
  MaxOps = 2
  MaxSleeps = 0
  Faults = {"fail", "hang"}
SPECIFICATION LightsSpec
INVARIANTS TypeOK OneAtTheController SomebodyPumps LastWordShown OffStaysOff
CHECK_DEADLOCK FALSE
