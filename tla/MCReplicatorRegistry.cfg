SPECIFICATION Spec
CONSTANTS
  Call = {1, 2, 3}
  Platforms = {"android", "ios"}
INVARIANTS
  TypeOK
  OutcomesAgree
  EventsAskedFor
PROPERTIES
  EveryPromiseSettles
  EveryRunReported
  OutcomeIsHeard
CHECK_DEADLOCK FALSE
