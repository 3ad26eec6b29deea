SPECIFICATION Spec
CONSTANTS
  Call = {1}
  Platforms = {"ios"}
PROPERTIES
  StopIsHeard
CHECK_DEADLOCK FALSE
