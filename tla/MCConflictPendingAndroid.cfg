SPECIFICATION Spec
CONSTANTS
  c1 = c1
  c2 = c2
  c3 = c3
  Call = {c1}
PROPERTIES
  EveryCallSettles
CHECK_DEADLOCK FALSE
