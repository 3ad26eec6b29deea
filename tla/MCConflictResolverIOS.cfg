SPECIFICATION Spec
CONSTANTS
  c1 = c1
  c2 = c2
  Call = {c1, c2}
INVARIANTS
  TypeOK
  OwnAnswer
  PromiseAfterDocument
  EntryLeftUnanswered
PROPERTIES
  EveryCallSettles
  ImplementsResolution
CHECK_DEADLOCK FALSE
