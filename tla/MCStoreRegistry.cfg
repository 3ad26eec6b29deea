SPECIFICATION Spec
CONSTANTS
  Manager = {1, 2}
  Call = {1, 2, 3}
  OnDisk = {1}
  Platforms = {"android", "ios"}
INVARIANTS
  TypeOK
  ManagersApart
  StaysInPlace
  StoresAgree
PROPERTIES
  EveryPromiseSettles
CHECK_DEADLOCK FALSE
