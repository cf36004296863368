SPECIFICATION FairSpec
CONSTANTS
  a = a
  b = b
  x = x
  Platforms = {a, x}
  Registered = {a}
  Calls = {1, 2, 3}
  Intents <- MCEdgeIntents
  MaxRetries = 2
  MaxFaults = 0
  ReplyLoss = TRUE
INVARIANTS
  TypeOK
  ReportedOutcomeIsStored
  AttemptLogIsFaithful
  HeldKeyHasTask
  PostsAreBounded
PROPERTIES
  PublishingEnds
CHECK_DEADLOCK FALSE
