SPECIFICATION FairSpec
CONSTANTS
  a = a
  b = b
  x = x
  Platforms = {a, b}
  Registered = {a, b}
  Calls = {1, 2}
  Intents <- MCIntents
  MaxRetries = 1
  MaxFaults = 1
  ReplyLoss = FALSE
PROPERTIES
  CallsReturn
  ImplementsPromise
CHECK_DEADLOCK FALSE
