SPECIFICATION Spec
CONSTANTS
  a = a
  b = b
  x = x
  Platforms = {a, b}
  Registered = {a, b}
  Calls = {1, 2}
  Intents <- MCIntents
  MaxRetries = 1
  MaxFaults = 0
  ReplyLoss = FALSE
INVARIANTS
  ExhaustedTaskIsDead
CHECK_DEADLOCK FALSE
