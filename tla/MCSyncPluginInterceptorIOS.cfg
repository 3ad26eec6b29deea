SPECIFICATION Spec
CONSTANTS
  u1 = u1
  u2 = u2
  r1 = r1
  Uuid = {u1, u2}
  Token = {r1}
  Installed <- MCInstalled
  SurplusDone = 0
INVARIANTS
  TypeOK
  MapsFollowThread
  AnswerApplied
  CrashNeedsTimer
PROPERTIES
  ImplementsInterception
  AnswerReachesThread
CHECK_DEADLOCK FALSE
