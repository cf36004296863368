SPECIFICATION Spec
CONSTANTS
  a = a
  b = b
  x = x
  Platforms = {a, b}
  Registered = {a, b}
  Calls = {1, 2, 3}
  Intents <- MCIntents
  MaxRetries = 1
  MaxFaults = 0
  ReplyLoss = FALSE
INVARIANTS
  PublishingIsExclusive
  PublishingHasExecutor
  AtMostOnePost
  PublishedMeansPosted
  RecordsAgreeAtRest
PROPERTIES
  SendsOnlyWhileProcessing
  ImplementsPromise
CHECK_DEADLOCK FALSE
