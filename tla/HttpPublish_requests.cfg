SPECIFICATION FairHttpSpec
CONSTANTS
  q1 = q1
  q2 = q2
  a = a
  b = b
  Requests = {q1}
  Platforms = {a, b}
  Submissions <- MCSubmissions
  Tasks <- MCTasks
  Runs = {r1, r2}
  MaxRetry = 1
  MaxIncidents = 1
  ValidatingStore = FALSE
  LeaseCovers = TRUE
  StoreFails = FALSE
  GuardFails = FALSE
  WriteFails = TRUE
  EnqueueFails = TRUE
INVARIANTS
  HttpTypeOK
  AnswerIsExact
  FailedStartsNothing
  MessagesNeedPublishing
  
  OneRunWorks
  PostsArePaidFor
PROPERTIES
  ImplementsQueue
  RequestsAnswered
  MessagesSettle
CHECK_DEADLOCK FALSE
