SPECIFICATION Spec
CONSTANTS
  u1 = u1
  u2 = u2
  r1 = r1
  r2 = r2
  Uuid = {u1, u2}
  Token = {r1}
  Installed <- MCInstalled
  SurplusDone = 0
  NativeTimer = TRUE
INVARIANTS
  MapsFollowThread
  AnswerApplied
  AllOrNothing
  SerialInterceptors
PROPERTIES
  LateAnswerIgnored
  ImplementsInterception
CHECK_DEADLOCK FALSE
