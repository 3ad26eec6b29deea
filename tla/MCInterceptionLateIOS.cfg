SPECIFICATION Safe
CONSTANTS
  u1 = u1
  u2 = u2
  r1 = r1
  Uuid = {u1}
  Token = {r1}
  Installed <- MCInstalled
  SurplusDone = 0
INVARIANTS
  LateAnswerSurvived
CHECK_DEADLOCK FALSE
