\* Two suspends, after which the devices and the user return in any order.
\* With its bounds used up the model stops, where the plugin would go on.
CONSTANTS
  None = None
  Dark = Dark
  Firmware = Firmware
  Mark = Mark
  red = red
  Lamps = {"rgb", "kbd"}
  Regions = {"special"}
  Special = "special"
  Colours = {red}
  MaxTries = 1
  MaxOps = 0
  MaxSleeps = 2
  Faults = {}
SPECIFICATION SuspendSpec
PROPERTIES LightsSettle
CHECK_DEADLOCK FALSE
