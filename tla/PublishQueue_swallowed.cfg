SPECIFICATION QueueSpec
CONSTANTS
  Tasks = {t1, t2}
  Runs = {r1, r2}
  MaxRetry = 3
  MaxIncidents = 0
  ValidatingStore = FALSE
  LeaseCovers = TRUE
  StoreFails = FALSE
  GuardFails = FALSE
INVARIANTS
  CompletedMeansSettled
CHECK_DEADLOCK FALSE
