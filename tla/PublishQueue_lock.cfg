SPECIFICATION QueueSpec
CONSTANTS
  Tasks = {t1, t2}
  Runs = {r1, r2, r3}
  MaxRetry = 2
  MaxIncidents = 3
  ValidatingStore = TRUE
  LeaseCovers = FALSE
  StoreFails = TRUE
  GuardFails = TRUE
INVARIANTS
  QueueTypeOK
  PostedAtMostOnce
  SucceededHasResult
SYMMETRY RunSymmetry
CHECK_DEADLOCK FALSE
