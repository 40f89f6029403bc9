\* One call checks `active' while another starts a curve.
CONSTANTS
  h1 = h1
  h2 = h2
  l1 = l1
  Handlers = {h1, h2}
  Main = main
  Loops = {l1}
  Profiles = {"custom"}
  Custom = "custom"
  None = None
  Manual = Manual
  Faults = {}
SPECIFICATION Spec
PROPERTIES BoostRefusedUnderCurve
