\* One suspend, and one profile the user chooses.
CONSTANTS
  None = None
  Profiles = {"balanced", "performance"}
  MaxTries = 3
  MaxChoices = 1
  MaxSleeps = 1
SPECIFICATION Spec
PROPERTIES NeverFought
