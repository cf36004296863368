SPECIFICATION FairRetrySpec
CONSTANTS
  Tasks = {t1, t2}
  Policies <- MCPolicies
  Outages = {0, 1, 2, 3, 6}
  MaxDuration = 15
  Inf = 64
INVARIANTS
  RetryTypeOK
  
  PostsDiffer
  BackoffMatchesFormula
PROPERTIES
  LoopsEnd
CHECK_DEADLOCK FALSE
