\* One call stops a curve while another chooses a profile.
CONSTANTS
  h1 = h1
  h2 = h2
  l1 = l1
  Handlers = {h1, h2}
  Main = main
  Loops = {l1}
  Profiles = {"balanced", "performance", "custom"}
  Custom = "custom"
  None = None
  Manual = Manual
  Faults = {}
SPECIFICATION Spec
PROPERTIES StopSparesChoice
