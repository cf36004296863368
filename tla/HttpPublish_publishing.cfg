SPECIFICATION HttpSpec
CONSTANTS
  q1 = q1
  q2 = q2
  a = a
  b = b
  Requests = {q1, q2}
  Platforms = {a}
  Submissions <- MCOnePlatform
  Tasks <- MCTasks
  Runs = {r1}
  MaxRetry = 1
  MaxIncidents = 0
  ValidatingStore = FALSE
  LeaseCovers = TRUE
  StoreFails = FALSE
  GuardFails = FALSE
  WriteFails = FALSE
  EnqueueFails = FALSE
INVARIANTS
  PublishingHasActiveTask
CHECK_DEADLOCK FALSE
