SPECIFICATION Spec
CONSTANTS
  c1 = c1
  c2 = c2
  c3 = c3
  Call = {c1, c2, c3}
INVARIANTS
  OwnAnswer
  PromiseTellsOutcome
  AnswerAccounted
  EntryLeftUnasked
PROPERTIES
  ImplementsResolution
  AnsweredCallSettles
CHECK_DEADLOCK FALSE
