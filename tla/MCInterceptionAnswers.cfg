SPECIFICATION Spec
CONSTANTS
  u1 = u1
  u2 = u2
  r1 = r1
  r2 = r2
  Uuid = {u1, u2}
  Token = {r1, r2}
  Installed <- MCInstalledTwo
  SurplusDone = 1
  NativeTimer = FALSE
INVARIANTS
  SingleAnswer
PROPERTIES
  AnswerReachesThread
CHECK_DEADLOCK FALSE
