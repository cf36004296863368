--------------------------- MODULE PublishQueueProofs ---------------------------
(***************************************************************************)
(* Theorems about PublishQueue for every set of tasks and runs, every      *)
(* MaxRetry and every number of interruptions.                             *)
(***************************************************************************)
EXTENDS PublishQueue, FiniteSetTheorems, TLAPS

RunsOK ==
  /\ run \in [Runs -> RunState]
  /\ \A r \in Runs : run[r].pc # "free" => run[r].task \in Tasks

LEMMA QueueTypeOKRuns == QueueTypeOK => RunsOK
BY DEF QueueTypeOK, RunsOK

-------------------------------------------------------------------------------
(* What the steps do to the runs.                                           *)

\* A call of the handler moves its own run and no other.
LEMMA StepRun ==
  ASSUME RunsOK, NEW r \in Runs, ~RunAt(r, "free"),
         NEW l \in RunLabels, Step(r, l)
  PROVE  /\ RunsOK'
         /\ RunAt(r, l)'
         /\ Task(r) \in Tasks
         /\ Task(r)' = Task(r)
         /\ \A q \in Runs \ {r} : run'[q] = run[q]
BY DEF RunsOK, RunAt, Step, Task, RunState

\* Ending a run.
LEMMA FreeRun ==
  ASSUME RunsOK, NEW r \in Runs, run' = [run EXCEPT ![r] = Free]
  PROVE  /\ RunsOK'
         /\ RunAt(r, "free")'
         /\ \A q \in Runs \ {r} : run'[q] = run[q]
BY DEF RunsOK, RunAt, Free, RunState, RunLabels

\* Delivering a message to a free run.
LEMMA DeliverRun ==
  ASSUME RunsOK, NEW t \in Tasks, NEW r \in Runs, Deliver(t, r)
  PROVE  /\ RunsOK'
         /\ RunAt(r, "acquire")'
         /\ Task(r)' = t
         /\ \A q \in Runs \ {r} : run'[q] = run[q]
BY DEF RunsOK, Deliver, RunAt, Task, RunState, RunLabels

\* Detaching a run leaves what it does alone.
LEMMA TimeoutRun ==
  ASSUME RunsOK, NEW r \in Runs, Timeout(r)
  PROVE  /\ RunsOK'
         /\ \A q \in Runs : run'[q].pc = run[q].pc /\ run'[q].task = run[q].task
BY DEF RunsOK, Timeout, RunState

LEMMA LabelSets ==
  /\ Working \subseteq RunLabels
  /\ \A l \in {"setProcessing", "publish", "record", "markSucceeded", "markDead"} :
       l \in Working
  /\ \A l \in {"free", "acquire", "returnNil", "returnError"} :
       l \in RunLabels \ Working
BY DEF Working, RunLabels

\* Only a run that has a task moves.
LEMMA HandlerBusy ==
  ASSUME NEW r \in Runs, HandlerStep(r)
  PROVE  ~RunAt(r, "free")
BY DEF HandlerStep, Acquire, SetProcessing, Publish, HandleFailure, RecordPublishResult,
       SetSucceeded, SetDead, Return, RunAt

-------------------------------------------------------------------------------
(* Which steps touch the records of a task.                                 *)

\* The status, result and posts of tasks change only in the steps named here.
LEMMA QuietSteps ==
  ASSUME [QueueNext]_queueVars
  PROVE  \/ UNCHANGED taskVars
         \/ \E t \in Tasks : CreateStoredTask(t)
         \/ \E r \in Runs : \/ SetProcessing(r) \/ Publish(r)
                            \/ RecordPublishResult(r)
                            \/ SetSucceeded(r) \/ SetDead(r)
BY DEF QueueNext, queueVars, taskVars, brokerVars, Broker, Operator, HandlerStep,
       EnqueuePublish, Deliver, Timeout, Crash, Recover, Reschedule, Shutdown,
       Return, ExpireGuard, Acquire, RetryDeadTask, RetryAllDeadTasks,
       DeleteDeadTask, DeleteAllDeadTasks

\* What becomes of a run in one step, whatever step it is: it stays as it is
\* (perhaps detached), ends, begins, or makes one call of the handler.
RunStays(r) == run'[r].pc = run[r].pc /\ run'[r].task = run[r].task

LEMMA RunChanges ==
  ASSUME RunsOK, [QueueNext]_queueVars, NEW r \in Runs
  PROVE  \/ RunStays(r)
         \/ RunAt(r, "free")'
         \/ RunAt(r, "acquire")'
         \/ HandlerStep(r)
<1>1. CASE UNCHANGED queueVars
  BY <1>1 DEF queueVars, RunStays
<1>2. CASE \E t \in Tasks : CreateStoredTask(t) \/ EnqueuePublish(t)
  BY <1>2 DEF CreateStoredTask, EnqueuePublish, RunStays
<1>3. CASE \E t \in Tasks : Recover(t) \/ Reschedule(t) \/ ExpireGuard(t)
  BY <1>3 DEF Recover, Reschedule, ExpireGuard, RunStays
<1>4. CASE \E t \in Tasks, q \in Runs : Deliver(t, q)
  BY <1>4, DeliverRun DEF RunStays
<1>5. CASE \E q \in Runs : Timeout(q)
  BY <1>5, TimeoutRun DEF RunStays
<1>6. CASE \E q \in Runs : Crash(q) \/ Shutdown(q)
  BY <1>6, FreeRun DEF Crash, Shutdown, RunStays
<1>7. CASE Operator
  BY <1>7 DEF Operator, RetryDeadTask, RetryAllDeadTasks, DeleteDeadTask,
              DeleteAllDeadTasks, RunStays
<1>8. CASE \E q \in Runs : HandlerStep(q)
  <2>1. PICK q \in Runs : HandlerStep(q)
    BY <1>8
  <2>2. CASE q = r
    BY <2>1, <2>2
  <2>3. CASE q # r
    <3>1. run'[r] = run[r]
      BY <2>1, <2>3 DEF RunsOK, HandlerStep, Acquire, SetProcessing, Publish, HandleFailure,
         RecordPublishResult, SetSucceeded, SetDead, Return, Step
    <3>2. QED
      BY <3>1 DEF RunStays
  <2>4. QED
    BY <2>2, <2>3
<1>9. QED
  BY <1>1, <1>2, <1>3, <1>4, <1>5, <1>6, <1>7, <1>8 DEF QueueNext, Broker

-------------------------------------------------------------------------------
(* Type correctness.                                                        *)

LEMMA FailDeliveryType ==
  ASSUME QueueTypeOK, NEW t \in Tasks, FailDelivery(t)
  PROVE  /\ msg' \in [Tasks -> MessageStates]
         /\ retried' \in [Tasks -> 0 .. MaxRetry]
BY QueueAssumption DEF QueueTypeOK, FailDelivery, MessageStates

LEMMA IncidentType ==
  ASSUME QueueTypeOK, Incident
  PROVE  incidents' \in 0 .. MaxIncidents
BY QueueAssumption DEF QueueTypeOK, Incident

\* The types of everything but the runs.
RecordsOK ==
  /\ msg \in [Tasks -> MessageStates]
  /\ retried \in [Tasks -> 0 .. MaxRetry]
  /\ guard \subseteq Tasks
  /\ stored \in [Tasks -> TaskStatuses \union {"none"}]
  /\ recorded \subseteq Tasks
  /\ live \in [Tasks -> Nat]
  /\ incidents \in 0 .. MaxIncidents

\* A handler step has a task in its hands.
LEMMA BusyTask ==
  ASSUME QueueTypeOK, NEW r \in Runs, ~RunAt(r, "free")
  PROVE  Task(r) \in Tasks
BY DEF QueueTypeOK, RunAt, Task

\* A run is attached only while it is busy.
AttachedIsBusy == \A r \in Runs : run[r].attached => ~RunAt(r, "free")

LEMMA HandlerStepType ==
  ASSUME QueueTypeOK, NEW r \in Runs, HandlerStep(r)
  PROVE  QueueTypeOK'
<1> DEFINE t == Task(r)
<1> USE QueueTypeOKRuns, LabelSets
<1>1. ~RunAt(r, "free") /\ t \in Tasks
  BY HandlerBusy, BusyTask
<1>2. CASE Acquire(r)
  <2>1. RunsOK'
    BY <1>1, <1>2, StepRun DEF Acquire
  <2>2. RecordsOK'
    BY <1>1, <1>2 DEF Acquire, QueueTypeOK, RecordsOK, brokerVars, taskVars
  <2>3. QED
    BY <2>1, <2>2 DEF QueueTypeOK, RecordsOK, RunsOK
<1>3. CASE SetProcessing(r)
  <2>1. RunsOK'
    BY <1>1, <1>3, StepRun DEF SetProcessing
  <2>2. RecordsOK'
    BY <1>1, <1>3 DEF SetProcessing, SetStored, QueueTypeOK, RecordsOK, brokerVars,
                      TaskStatuses
  <2>3. QED
    BY <2>1, <2>2 DEF QueueTypeOK, RecordsOK, RunsOK
<1>4. CASE Publish(r)
  <2>1. RunsOK'
    BY <1>1, <1>4, StepRun DEF Publish, HandleFailure
  <2>2. RecordsOK'
    BY <1>1, <1>4 DEF Publish, HandleFailure, QueueTypeOK, RecordsOK, brokerVars
  <2>3. QED
    BY <2>1, <2>2 DEF QueueTypeOK, RecordsOK, RunsOK
<1>5. CASE RecordPublishResult(r)
  <2>1. RunsOK'
    BY <1>1, <1>5, StepRun DEF RecordPublishResult
  <2>2. RecordsOK'
    BY <1>1, <1>5 DEF RecordPublishResult, QueueTypeOK, RecordsOK, brokerVars
  <2>3. QED
    BY <2>1, <2>2 DEF QueueTypeOK, RecordsOK, RunsOK
<1>6. CASE SetSucceeded(r)
  <2>1. RunsOK'
    BY <1>1, <1>6, StepRun DEF SetSucceeded
  <2>2. RecordsOK'
    BY <1>1, <1>6 DEF SetSucceeded, SetStored, QueueTypeOK, RecordsOK, brokerVars,
                      TaskStatuses
  <2>3. QED
    BY <2>1, <2>2 DEF QueueTypeOK, RecordsOK, RunsOK
<1>7. CASE SetDead(r)
  <2>1. RunsOK'
    BY <1>1, <1>7, StepRun DEF SetDead
  <2>2. RecordsOK'
    BY <1>1, <1>7 DEF SetDead, SetStored, QueueTypeOK, RecordsOK, brokerVars,
                      TaskStatuses
  <2>3. QED
    BY <2>1, <2>2 DEF QueueTypeOK, RecordsOK, RunsOK
<1>8. CASE Return(r)
  <2>1. RunsOK'
    BY <1>1, <1>8, FreeRun DEF Return
  <2>2. msg' \in [Tasks -> MessageStates] /\ retried' \in [Tasks -> 0 .. MaxRetry]
    BY <1>1, <1>8, FailDeliveryType DEF Return, QueueTypeOK, MessageStates, brokerVars
  <2>3. RecordsOK'
    BY <2>2, <1>8 DEF Return, QueueTypeOK, RecordsOK, taskVars
  <2>4. QED
    BY <2>1, <2>3 DEF QueueTypeOK, RecordsOK, RunsOK
<1>9. QED
  BY <1>2, <1>3, <1>4, <1>5, <1>6, <1>7, <1>8 DEF HandlerStep

LEMMA AttachedInvariant ==
  ASSUME QueueTypeOK, AttachedIsBusy, [QueueNext]_queueVars
  PROVE  AttachedIsBusy'
<1> USE DEF AttachedIsBusy, RunAt
<1>1. CASE UNCHANGED run
  BY <1>1
<1>2. CASE \E t \in Tasks, q \in Runs : Deliver(t, q)
  BY <1>2 DEF Deliver, QueueTypeOK
<1>3. CASE \E q \in Runs : Timeout(q)
  BY <1>3 DEF Timeout, QueueTypeOK, RunState
<1>4. CASE \E q \in Runs : run' = [run EXCEPT ![q] = Free]
  BY <1>4 DEF Free, QueueTypeOK
<1>5. CASE \E q \in Runs, l \in RunLabels \ {"free"} : Step(q, l)
  BY <1>5 DEF Step, QueueTypeOK, RunState
<1>6. QED
  BY <1>1, <1>2, <1>3, <1>4, <1>5, LabelSets
  DEF QueueNext, queueVars, Broker, Operator, HandlerStep, CreateStoredTask,
      EnqueuePublish, Crash, Shutdown, Recover, Reschedule, ExpireGuard,
      RetryDeadTask, RetryAllDeadTasks, DeleteDeadTask, DeleteAllDeadTasks,
      Acquire, SetProcessing, Publish, HandleFailure, RecordPublishResult, SetSucceeded,
      SetDead, Return

\* Every other step: the broker, the producer, the operator.
LEMMA OtherStepType ==
  ASSUME QueueTypeOK, AttachedIsBusy,
         \/ \E t \in Tasks : CreateStoredTask(t) \/ EnqueuePublish(t)
         \/ Broker
         \/ Operator
         \/ UNCHANGED queueVars
  PROVE  QueueTypeOK'
<1> USE QueueTypeOKRuns
<1>1. ASSUME NEW r \in Runs, run[r].attached
      PROVE  Task(r) \in Tasks
  BY <1>1, BusyTask DEF AttachedIsBusy
<1>2. CASE UNCHANGED queueVars
  BY <1>2 DEF queueVars, brokerVars, taskVars, QueueTypeOK
<1>3. CASE \E t \in Tasks : CreateStoredTask(t) \/ EnqueuePublish(t)
  BY <1>3 DEF CreateStoredTask, EnqueuePublish, SetStored, QueueTypeOK, brokerVars,
              taskVars, MessageStates, TaskStatuses
<1>4. CASE \E t \in Tasks : Recover(t)
  BY <1>4, FailDeliveryType DEF Recover, QueueTypeOK, taskVars
<1>5. CASE \E t \in Tasks : Reschedule(t) \/ ExpireGuard(t)
  BY <1>5 DEF Reschedule, ExpireGuard, QueueTypeOK, brokerVars, taskVars,
              MessageStates
<1>6. CASE \E t \in Tasks, r \in Runs : Deliver(t, r)
  <2>1. RunsOK'
    BY <1>6, DeliverRun
  <2>2. RecordsOK'
    BY <1>6 DEF Deliver, QueueTypeOK, RecordsOK, taskVars, MessageStates
  <2>3. QED
    BY <2>1, <2>2 DEF QueueTypeOK, RecordsOK, RunsOK
<1>7. CASE \E r \in Runs : Timeout(r)
  <2>1. RunsOK'
    BY <1>7, TimeoutRun
  <2>2. RecordsOK'
    BY <1>7, <1>1, FailDeliveryType, IncidentType
    DEF Timeout, QueueTypeOK, RecordsOK, taskVars
  <2>3. QED
    BY <2>1, <2>2 DEF QueueTypeOK, RecordsOK, RunsOK
<1>8. CASE \E r \in Runs : Crash(r) \/ Shutdown(r)
  <2>1. RunsOK'
    BY <1>8, FreeRun DEF Crash, Shutdown
  <2>2. RecordsOK'
    BY <1>8, <1>1, IncidentType
    DEF Crash, Shutdown, QueueTypeOK, RecordsOK, taskVars, brokerVars, MessageStates
  <2>3. QED
    BY <2>1, <2>2 DEF QueueTypeOK, RecordsOK, RunsOK
<1>9. CASE Operator
  BY <1>9, IncidentType
  DEF Operator, RetryDeadTask, RetryAllDeadTasks, DeleteDeadTask,
      DeleteAllDeadTasks, QueueTypeOK, taskVars, MessageStates
<1>10. QED
  BY <1>2, <1>3, <1>4, <1>5, <1>6, <1>7, <1>8, <1>9 DEF Broker

LEMMA QueueTypeInit == QueueInit => QueueTypeOK /\ AttachedIsBusy
BY QueueAssumption
DEF QueueInit, QueueTypeOK, AttachedIsBusy, Free, RunState, RunLabels,
    MessageStates, RunAt

LEMMA QueueTypeStep ==
  QueueTypeOK /\ AttachedIsBusy /\ [QueueNext]_queueVars
    => (QueueTypeOK /\ AttachedIsBusy)'
BY HandlerStepType, OtherStepType, AttachedInvariant DEF QueueNext

\* Every variable keeps its type: whatever is delivered, retried, timed out or
\* crashed, a run that is busy has a task and no message is retried more often
\* than MaxRetry.
THEOREM QueueTypeCorrect == QueueSpec => []QueueTypeOK
<1>1. QueueSpec => [](QueueTypeOK /\ AttachedIsBusy)
  BY QueueTypeInit, QueueTypeStep, PTL DEF QueueSpec
<1>2. QED
  BY <1>1, PTL

-------------------------------------------------------------------------------
(* A validating store is a lock: PostedAtMostOnce.                          *)

Owning == {"publish", "record", "markSucceeded", "markDead"}

\* A run past the transition to processing owns its task: the store shows the
\* task as processing, and no other run is past it.  A task that still can be
\* moved to processing has no post, and neither has one about to be published.
StatusLocksTask ==
  /\ \A r \in Runs : run[r].pc \in Owning => stored[Task(r)] = "processing"
  /\ \A q, r \in Runs :
       run[q].pc \in Owning /\ run[r].pc \in Owning /\ Task(q) = Task(r) => q = r
  /\ \A t \in Tasks :
       /\ live[t] <= 1
       /\ stored[t] # "retrying"
       /\ stored[t] \in {"none", "pending"} => live[t] = 0
  /\ \A r \in Runs : RunAt(r, "publish") => live[Task(r)] = 0

\* Only the transition to processing makes a run an owner.
LEMMA OwnersBegin ==
  ASSUME RunsOK, [QueueNext]_queueVars, NEW r \in Runs, run'[r].pc \in Owning
  PROVE  \/ RunStays(r)
         \/ SetProcessing(r) /\ CanStore(Task(r), "processing")
         \/ run[r].pc \in Owning /\ Task(r)' = Task(r) /\ ~RunAt(r, "publish")'
<1>1. CASE RunAt(r, "free")' \/ RunAt(r, "acquire")'
  BY <1>1 DEF RunAt, Owning
<1>2. CASE HandlerStep(r)
  BY <1>2 DEF HandlerStep, Acquire, SetProcessing, Publish, HandleFailure, RecordPublishResult,
     SetSucceeded, SetDead, Return, Step, RunAt, Owning, Free, Task, RunsOK, RunState
<1>3. QED
  BY <1>1, <1>2, RunChanges

\* Entering processing is possible only for a task nobody owns.
LEMMA EntryIsFree ==
  ASSUME QueueTypeOK, StatusLocksTask, ValidatingStore, NEW t \in Tasks,
         CanStore(t, "processing")
  PROVE  /\ stored[t] = "pending"
         /\ live[t] = 0
         /\ \A r \in Runs : run[r].pc \in Owning => Task(r) # t
BY DEF StatusLocksTask, CanStore, TaskCanTransition, TaskEdges

\* An owner that goes on to a later call keeps the lock; one that gives it up
\* may leave a settled status behind.
LEMMA OwnerMoves ==
  ASSUME QueueTypeOK, StatusLocksTask, NEW r \in Runs, run[r].pc \in Owning,
         NEW l, Step(r, l), l # "publish", UNCHANGED live,
         \/ UNCHANGED stored
         \/ /\ l \notin Owning
            /\ \E s \in {"succeeded", "dead"} : SetStored(Task(r), s)
  PROVE  StatusLocksTask'
<1>1. /\ run'[r].pc = l
      /\ \A q \in Runs : Task(q)' = Task(q)
      /\ \A q \in Runs : q # r => run'[q].pc = run[q].pc
  BY DEF Step, Task, QueueTypeOK, RunState
<1>2. Task(r) \in Tasks
  BY DEF QueueTypeOK, Task, Owning
<1>3. \A q \in Runs : run'[q].pc \in Owning => run[q].pc \in Owning
  BY <1>1
<1>4. \A q \in Runs : RunAt(q, "publish")' => RunAt(q, "publish")
  BY <1>1 DEF RunAt
<1>5. \A t \in Tasks : t # Task(r) => stored'[t] = stored[t]
  BY DEF QueueTypeOK, SetStored
<1>6. \/ UNCHANGED stored
      \/ l \notin Owning /\ stored'[Task(r)] \in {"succeeded", "dead"}
  BY <1>2 DEF QueueTypeOK, SetStored
<1>7. ASSUME NEW q \in Runs, run'[q].pc \in Owning
      PROVE  stored'[Task(q)'] = "processing"
  <2>1. run[q].pc \in Owning /\ Task(q)' = Task(q) /\ stored[Task(q)] = "processing"
    BY <1>1, <1>3, <1>7 DEF StatusLocksTask
  <2>2. CASE UNCHANGED stored
    BY <2>1, <2>2
  <2>3. CASE l \notin Owning
    <3>1. q # r
      BY <1>1, <1>7, <2>3
    <3>2. Task(q) # Task(r)
      BY <2>1, <3>1 DEF StatusLocksTask
    <3>3. Task(q) \in Tasks
      BY <2>1 DEF QueueTypeOK, Task, Owning
    <3>4. QED BY <1>5, <2>1, <3>2, <3>3
  <2>4. QED BY <1>6, <2>2, <2>3
<1>8. ASSUME NEW t \in Tasks
      PROVE  /\ live'[t] <= 1
             /\ stored'[t] # "retrying"
             /\ stored'[t] \in {"none", "pending"} => live'[t] = 0
  BY <1>5, <1>6, <1>8 DEF StatusLocksTask
<1>9. ASSUME NEW q \in Runs, RunAt(q, "publish")' PROVE live'[Task(q)'] = 0
  BY <1>1, <1>4, <1>9 DEF StatusLocksTask
<1>10. \A q, p \in Runs :
         run'[q].pc \in Owning /\ run'[p].pc \in Owning /\ Task(q)' = Task(p)' => q = p
  BY <1>1, <1>3 DEF StatusLocksTask
<1>11. QED BY <1>7, <1>8, <1>9, <1>10 DEF StatusLocksTask

LEMMA LockStep ==
  ASSUME QueueTypeOK, StatusLocksTask, ValidatingStore, [QueueNext]_queueVars
  PROVE  StatusLocksTask'
<1> USE QueueTypeOKRuns
<1>1. CASE UNCHANGED taskVars
  <2>1. ASSUME NEW r \in Runs, run'[r].pc \in Owning
        PROVE  run[r].pc \in Owning /\ Task(r)' = Task(r)
               /\ (RunAt(r, "publish")' => RunAt(r, "publish"))
    <3>1. CASE SetProcessing(r) /\ CanStore(Task(r), "processing")
      <4>1. Task(r) \in Tasks /\ stored[Task(r)] = "pending"
        BY <3>1, EntryIsFree, HandlerBusy, BusyTask DEF HandlerStep
      <4>2. stored' = [stored EXCEPT ![Task(r)] = "processing"]
        <5>1. run'[r].pc # "returnError"
          BY <2>1 DEF Owning
        <5>2. Step(r, "returnError") => run'[r].pc = "returnError"
          BY DEF Step, QueueTypeOK, RunState
        <5>3. QED
          BY <3>1, <5>1, <5>2 DEF SetProcessing, SetStored
      <4>3. stored' = stored
        BY <1>1 DEF taskVars
      <4>4. QED
        BY <4>1, <4>2, <4>3 DEF QueueTypeOK
    <3>2. QED
      BY <2>1, <3>1, OwnersBegin DEF RunStays, RunAt, Task
  <2>2. QED
    BY <1>1, <2>1 DEF StatusLocksTask, taskVars, RunAt, Owning
<1>2. ASSUME NEW t \in Tasks, CreateStoredTask(t)
      PROVE  StatusLocksTask'
  BY <1>2 DEF CreateStoredTask, SetStored, StatusLocksTask, QueueTypeOK, RunAt, Task
<1>3. ASSUME NEW r \in Runs, SetProcessing(r) \/ Publish(r)
                 \/ RecordPublishResult(r) \/ SetSucceeded(r) \/ SetDead(r)
      PROVE  StatusLocksTask'
  <2>1. ~RunAt(r, "free") /\ Task(r) \in Tasks
    BY <1>3, HandlerBusy, BusyTask DEF HandlerStep
  <2>2. /\ \A q \in Runs \ {r} : run'[q] = run[q]
        /\ Task(r)' = Task(r)
    BY <1>3, <2>1, StepRun, LabelSets
    DEF SetProcessing, Publish, HandleFailure, RecordPublishResult, SetSucceeded, SetDead
  <2>3. CASE SetProcessing(r)
    BY <2>1, <2>2, <2>3, EntryIsFree
    DEF SetProcessing, SetStored, Step, StatusLocksTask, QueueTypeOK, RunAt, Task,
        Owning, RunState
  <2>4. CASE Publish(r)
    <3>1. /\ RunAt(r, "publish") /\ run'[r].pc \in {"record", "markDead", "returnError"}
          /\ stored' = stored
          /\ live' = live \/ live' = [live EXCEPT ![Task(r)] = @ + 1]
      BY <2>4 DEF Publish, HandleFailure, Step, QueueTypeOK, RunState
    <3>2. stored[Task(r)] = "processing" /\ live[Task(r)] = 0
      BY <3>1 DEF StatusLocksTask, RunAt, Owning
    <3>3. /\ \A q \in Runs : Task(q)' = Task(q)
          /\ \A q \in Runs : run'[q].pc \in Owning => run[q].pc \in Owning
          /\ \A q \in Runs : RunAt(q, "publish")' => q # r /\ RunAt(q, "publish")
      BY <2>2, <3>1 DEF Task, RunAt, Owning
    <3>4. \A t \in Tasks : t # Task(r) => live'[t] = live[t]
      BY <3>1 DEF QueueTypeOK
    <3>5. live'[Task(r)] <= 1
      BY <2>1, <3>1, <3>2 DEF QueueTypeOK
    <3>6. ASSUME NEW t \in Tasks
          PROVE  /\ live'[t] <= 1
                 /\ stored'[t] # "retrying"
                 /\ stored'[t] \in {"none", "pending"} => live'[t] = 0
      BY <3>1, <3>2, <3>4, <3>5 DEF StatusLocksTask
    <3>7. ASSUME NEW q \in Runs, RunAt(q, "publish")' PROVE live'[Task(q)'] = 0
      <4>1. q # r /\ RunAt(q, "publish") /\ Task(q)' = Task(q)
        BY <3>3, <3>7
      <4>2. Task(q) # Task(r)
        BY <3>1, <4>1 DEF StatusLocksTask, RunAt, Owning
      <4>3. Task(q) \in Tasks
        BY <4>1 DEF QueueTypeOK, RunAt, Task
      <4>4. QED BY <3>4, <4>1, <4>2, <4>3 DEF StatusLocksTask
    <3>8. QED BY <3>1, <3>3, <3>6, <3>7 DEF StatusLocksTask
  <2>5. CASE RecordPublishResult(r)
    <3>1. \E l \in {"markSucceeded", "returnError"} : Step(r, l)
      BY <2>5 DEF RecordPublishResult
    <3>2. run[r].pc \in Owning /\ UNCHANGED << stored, live >>
      BY <2>5 DEF RecordPublishResult, RunAt, Owning
    <3>3. QED BY <3>1, <3>2, OwnerMoves
  <2>6. CASE SetSucceeded(r)
    <3>1. /\ \E l \in {"returnNil", "returnError"} : Step(r, l)
          /\ UNCHANGED stored \/ SetStored(Task(r), "succeeded")
          /\ run[r].pc \in Owning /\ UNCHANGED live
      BY <2>6 DEF SetSucceeded, RunAt, Owning
    <3>2. {"returnNil", "returnError"} \intersect Owning = {}
      BY DEF Owning
    <3>3. QED BY <3>1, <3>2, OwnerMoves
  <2>7. CASE SetDead(r)
    <3>1. /\ Step(r, "returnNil") /\ run[r].pc \in Owning /\ UNCHANGED live
          /\ UNCHANGED stored \/ SetStored(Task(r), "dead")
      BY <2>7 DEF SetDead, RunAt, Owning
    <3>2. "returnNil" \notin Owning
      BY DEF Owning
    <3>3. QED BY <3>1, <3>2, OwnerMoves
  <2>8. QED
    BY <1>3, <2>3, <2>4, <2>5, <2>6, <2>7
<1>4. QED
  BY <1>1, <1>2, <1>3, QuietSteps

\* With a store that refuses illegal edges no task is ever posted twice: for
\* any number of runs, retries, interruptions and lost replies, and whatever
\* the idempotency guard does.
THEOREM PostedOncePerTask ==
  ASSUME ValidatingStore PROVE QueueSpec => []PostedAtMostOnce
<1>1. QueueInit => StatusLocksTask
  BY DEF QueueInit, StatusLocksTask, Free, RunAt, Owning
<1>2. QueueTypeOK /\ StatusLocksTask /\ [QueueNext]_queueVars => StatusLocksTask'
  BY LockStep
<1>3. StatusLocksTask => PostedAtMostOnce
  BY DEF StatusLocksTask, PostedAtMostOnce
<1>4. QED
  BY <1>1, <1>2, <1>3, QueueTypeCorrect, PTL DEF QueueSpec

-------------------------------------------------------------------------------
(* Abandoned tasks.                                                         *)

\* A task shown as processing on which no run works any more: its run ended with
\* a retryable failure or a store error, or was interrupted.
Abandoned(t) ==
  /\ stored[t] = "processing"
  /\ \A r \in Runs : run[r].pc \in Owning => Task(r) # t

\* A status is written for a new task, at the start of a delivery, or by an owner.
LEMMA StatusWriters ==
  ASSUME QueueTypeOK, ValidatingStore, [QueueNext]_queueVars,
         NEW t \in Tasks, stored'[t] # stored[t]
  PROVE  \/ stored[t] # "processing"
         \/ \E r \in Runs : run[r].pc \in Owning /\ Task(r) = t
<1>1. ASSUME NEW u, NEW s, SetStored(u, s) PROVE u = t
  BY <1>1 DEF SetStored, QueueTypeOK
<1>2. ~UNCHANGED stored
  OBVIOUS
<1>3. ASSUME NEW u \in Tasks, CreateStoredTask(u) PROVE stored[t] # "processing"
  BY <1>1, <1>3 DEF CreateStoredTask
<1>4. ASSUME NEW r \in Runs, SetProcessing(r) PROVE stored[t] # "processing"
  <2>1. SetStored(Task(r), "processing") /\ CanStore(Task(r), "processing")
    BY <1>2, <1>4 DEF SetProcessing
  <2>2. Task(r) = t
    BY <1>1, <2>1
  <2>3. QED BY <2>1, <2>2 DEF CanStore, TaskCanTransition, TaskEdges
<1>5. ASSUME NEW r \in Runs, Publish(r) \/ RecordPublishResult(r) PROVE FALSE
  BY <1>2, <1>5 DEF Publish, RecordPublishResult
<1>6. ASSUME NEW r \in Runs, SetSucceeded(r) \/ SetDead(r)
      PROVE  run[r].pc \in Owning /\ Task(r) = t
  <2>1. run[r].pc \in Owning /\ \E s : SetStored(Task(r), s)
    BY <1>2, <1>6 DEF SetSucceeded, SetDead, RunAt, Owning
  <2>2. QED BY <1>1, <2>1
<1>7. QED
  BY <1>2, <1>3, <1>4, <1>5, <1>6, QuietSteps DEF taskVars

LEMMA AbandonedStep ==
  ASSUME QueueTypeOK, ValidatingStore, [QueueNext]_queueVars,
         NEW t \in Tasks, Abandoned(t)
  PROVE  Abandoned(t)'
<1>1. stored'[t] = "processing"
  BY StatusWriters DEF Abandoned
<1>2. ASSUME NEW r \in Runs, run'[r].pc \in Owning
      PROVE  Task(r)' # t
  <2>1. CASE SetProcessing(r) /\ CanStore(Task(r), "processing")
    <3>1. Task(r) # t
      BY <2>1 DEF Abandoned, CanStore, TaskCanTransition, TaskEdges
    <3>2. Task(r)' = Task(r)
      BY <2>1 DEF SetProcessing, Step, Task, QueueTypeOK, RunState
    <3>3. QED BY <3>1, <3>2
  <2>2. CASE run[r].pc \in Owning /\ Task(r)' = Task(r)
    BY <2>2 DEF Abandoned
  <2>3. CASE RunStays(r)
    BY <1>2, <2>3 DEF RunStays, Abandoned, Task
  <2>4. QED BY <1>2, <2>1, <2>2, <2>3, OwnersBegin, QueueTypeOKRuns
<1>3. QED BY <1>1, <1>2 DEF Abandoned

\* With a store that refuses illegal edges a task whose run has left it at
\* processing is lost: no redelivery, recovery after a crash or rerun from the
\* dead-letter queue ever works on it or settles it (handler.go:101, 130).
THEOREM AbandonedTasksStay ==
  ASSUME ValidatingStore, NEW t \in Tasks
  PROVE  QueueSpec => [](Abandoned(t) => []Abandoned(t))
<1>1. QueueTypeOK /\ Abandoned(t) /\ [QueueNext]_queueVars => Abandoned(t)'
  BY AbandonedStep
<1>2. QED
  BY <1>1, QueueTypeCorrect, PTL DEF QueueSpec

-------------------------------------------------------------------------------
(* The guard: OneRunWorks.                                                  *)

\* A run that works on a task holds its key.
WorkersHoldKeys == \A r \in Runs : run[r].pc \in Working => Task(r) \in guard

\* Only a fresh key lets a run past the guard.
LEMMA WorkersBegin ==
  ASSUME RunsOK, ~GuardFails, [QueueNext]_queueVars,
         NEW r \in Runs, run'[r].pc \in Working
  PROVE  \/ run[r].pc \in Working /\ Task(r)' = Task(r)
         \/ Acquire(r) /\ Task(r) \notin guard /\ guard' = guard \union {Task(r)}
              /\ Task(r)' = Task(r) /\ \A q \in Runs \ {r} : run'[q] = run[q]
<1>1. CASE RunStays(r)
  BY <1>1 DEF RunStays, Task
<1>2. CASE RunAt(r, "free")' \/ RunAt(r, "acquire")'
  BY <1>2 DEF RunAt, Working
<1>3. CASE Acquire(r)
  <2>1. ~Step(r, "returnNil")
    BY DEF Step, RunsOK, RunState, Working
  <2>2. Step(r, "setProcessing") /\ Task(r) \notin guard
        /\ guard' = guard \union {Task(r)}
    BY <1>3, <2>1 DEF Acquire
  <2>3. QED
    BY <1>3, <2>2, StepRun, LabelSets DEF Acquire, RunAt
<1>4. CASE Return(r)
  BY <1>4 DEF Return, Free, RunsOK, Working
<1>5. CASE SetProcessing(r) \/ Publish(r) \/ RecordPublishResult(r)
             \/ SetSucceeded(r) \/ SetDead(r)
  BY <1>5, StepRun, LabelSets
  DEF SetProcessing, Publish, HandleFailure, RecordPublishResult, SetSucceeded, SetDead, RunAt
<1>6. QED
  BY <1>1, <1>2, <1>3, <1>4, <1>5, RunChanges DEF HandlerStep

\* Keys disappear only by expiry.
LEMMA KeysStay ==
  ASSUME [QueueNext]_queueVars, NEW t \in Tasks, t \in guard, t \notin guard'
  PROVE  ExpireGuard(t) /\ UNCHANGED run
BY DEF QueueNext, queueVars, Broker, Operator, HandlerStep, CreateStoredTask,
       EnqueuePublish, Deliver, Timeout, Crash, Recover, Reschedule, Shutdown,
       Return, ExpireGuard, RetryDeadTask, RetryAllDeadTasks, DeleteDeadTask,
       DeleteAllDeadTasks, Acquire, SetProcessing, Publish, HandleFailure, RecordPublishResult,
       SetSucceeded, SetDead

LEMMA GuardStep ==
  ASSUME QueueTypeOK, LeaseCovers, ~GuardFails,
         WorkersHoldKeys, OneRunWorks, [QueueNext]_queueVars
  PROVE  WorkersHoldKeys' /\ OneRunWorks'
<1> USE QueueTypeOKRuns
<1>1. ASSUME NEW r \in Runs, run'[r].pc \in Working
      PROVE  Task(r)' \in guard'
  <2>1. CASE run[r].pc \in Working /\ Task(r)' = Task(r)
    <3>1. Task(r) \in guard /\ Task(r) \in Tasks
      BY <2>1, LabelSets DEF WorkersHoldKeys, QueueTypeOK, Task
    <3>2. ~ExpireGuard(Task(r))
      BY <2>1 DEF ExpireGuard, IsWorking
    <3>3. QED
      BY <2>1, <3>1, <3>2, KeysStay
  <2>2. QED
    BY <1>1, <2>1, WorkersBegin
<1>2. ASSUME NEW q \in Runs, NEW r \in Runs, run'[q].pc \in Working,
             run'[r].pc \in Working, Task(q)' = Task(r)', q # r
      PROVE  FALSE
  <2>1. CASE run[q].pc \in Working /\ run[r].pc \in Working
             /\ Task(q)' = Task(q) /\ Task(r)' = Task(r)
    BY <1>2, <2>1 DEF OneRunWorks
  <2>2. QED
    BY <1>2, <2>1, WorkersBegin DEF WorkersHoldKeys, Task, Acquire, RunAt, Working
<1>3. QED
  BY <1>1, <1>2 DEF WorkersHoldKeys, OneRunWorks

\* If keys outlive the runs that took them and the guard answers, no two runs
\* ever work on the same task, detached and recovered ones included.
THEOREM OneRunPerTask ==
  ASSUME LeaseCovers, ~GuardFails PROVE QueueSpec => []OneRunWorks
<1>1. QueueInit => WorkersHoldKeys /\ OneRunWorks
  BY DEF QueueInit, WorkersHoldKeys, OneRunWorks, Free, Working
<1>2. QueueTypeOK /\ (WorkersHoldKeys /\ OneRunWorks) /\ [QueueNext]_queueVars
        => (WorkersHoldKeys /\ OneRunWorks)'
  BY GuardStep
<1>3. QED
  BY <1>1, <1>2, QueueTypeCorrect, PTL DEF QueueSpec

-------------------------------------------------------------------------------
(* Results: SucceededHasResult.                                             *)

\* What a run has done is on record before it moves on.
ResultsInHand ==
  /\ \A r \in Runs : RunAt(r, "record") => live[Task(r)] > 0
  /\ \A r \in Runs :
       RunAt(r, "markSucceeded") => Task(r) \in recorded /\ live[Task(r)] > 0

\* Posts and results are never taken back.
LEMMA RecordsGrow ==
  ASSUME QueueTypeOK, [QueueNext]_queueVars
  PROVE  /\ recorded \subseteq recorded'
         /\ \A t \in Tasks : live[t] > 0 => live'[t] > 0
<1>1. CASE \E r \in Runs : Publish(r)
  BY <1>1 DEF Publish, HandleFailure, QueueTypeOK
<1>2. QED
  BY <1>1, QuietSteps
  DEF taskVars, CreateStoredTask, SetProcessing, RecordPublishResult, SetSucceeded,
      SetDead

LEMMA ResultsStep ==
  ASSUME QueueTypeOK, ResultsInHand, SucceededHasResult, [QueueNext]_queueVars
  PROVE  ResultsInHand' /\ SucceededHasResult'
<1> USE QueueTypeOKRuns
<1>1. ASSUME NEW r \in Runs, RunAt(r, "record")'
      PROVE  live'[Task(r)'] > 0
  <2>1. CASE RunStays(r)
    BY <1>1, <2>1, RecordsGrow
    DEF RunStays, RunAt, Task, ResultsInHand, QueueTypeOK
  <2>2. CASE HandlerStep(r)
    <3>1. ~RunAt(r, "free") /\ Task(r) \in Tasks
      BY <2>2, HandlerBusy, BusyTask
    <3>2. Publish(r) /\ live' = [live EXCEPT ![Task(r)] = @ + 1] /\ Step(r, "record")
      BY <1>1, <2>2, <3>1, StepRun, FreeRun, LabelSets
      DEF HandlerStep, Acquire, SetProcessing, Publish, HandleFailure, RecordPublishResult,
          SetSucceeded, SetDead, Return, RunAt
    <3>3. Task(r)' = Task(r)
      BY <3>1, <3>2, StepRun, LabelSets
    <3>4. QED
      BY <3>1, <3>2, <3>3 DEF QueueTypeOK
  <2>3. QED
    BY <1>1, <2>1, <2>2, RunChanges DEF RunAt
<1>2. ASSUME NEW r \in Runs, RunAt(r, "markSucceeded")'
      PROVE  Task(r)' \in recorded' /\ live'[Task(r)'] > 0
  <2>1. CASE RunStays(r)
    BY <1>2, <2>1, RecordsGrow
    DEF RunStays, RunAt, Task, ResultsInHand, QueueTypeOK
  <2>2. CASE HandlerStep(r)
    <3>1. ~RunAt(r, "free") /\ Task(r) \in Tasks
      BY <2>2, HandlerBusy, BusyTask
    <3>2. RunAt(r, "record") /\ recorded' = recorded \union {Task(r)}
          /\ live' = live /\ Step(r, "markSucceeded")
      BY <1>2, <2>2, <3>1, StepRun, FreeRun, LabelSets
      DEF HandlerStep, Acquire, SetProcessing, Publish, HandleFailure, RecordPublishResult,
          SetSucceeded, SetDead, Return, RunAt
    <3>3. Task(r)' = Task(r)
      BY <3>1, <3>2, StepRun, LabelSets
    <3>4. QED
      BY <3>1, <3>2, <3>3 DEF ResultsInHand
  <2>3. QED
    BY <1>2, <2>1, <2>2, RunChanges DEF RunAt
<1>3. ASSUME NEW t \in Tasks, stored'[t] = "succeeded"
      PROVE  t \in recorded' /\ live'[t] > 0
  <2>1. CASE stored[t] = "succeeded"
    BY <2>1, RecordsGrow DEF SucceededHasResult
  <2>2. CASE \E r \in Runs : SetSucceeded(r) /\ Task(r) = t
    BY <2>2, RecordsGrow DEF SetSucceeded, ResultsInHand
  <2>3. CASE \E r \in Runs : SetSucceeded(r) /\ Task(r) # t
    BY <1>3, <2>1, <2>3 DEF SetSucceeded, SetStored, QueueTypeOK
  <2>4. QED
    BY <1>3, <2>1, <2>2, <2>3, QuietSteps
    DEF taskVars, CreateStoredTask, SetProcessing, Publish, HandleFailure, RecordPublishResult,
        SetDead, SetStored, QueueTypeOK
<1>4. QED
  BY <1>1, <1>2, <1>3 DEF ResultsInHand, SucceededHasResult

\* A stored success always has its post and its recorded result, whatever store
\* is used and whatever fails.
THEOREM SuccessHasResult == QueueSpec => []SucceededHasResult
<1>1. QueueInit => ResultsInHand /\ SucceededHasResult
  BY DEF QueueInit, ResultsInHand, SucceededHasResult, Free, RunAt
<1>2. QueueTypeOK /\ (ResultsInHand /\ SucceededHasResult) /\ [QueueNext]_queueVars
        => (ResultsInHand /\ SucceededHasResult)'
  BY ResultsStep
<1>3. QED
  BY <1>1, <1>2, QueueTypeCorrect, PTL DEF QueueSpec

-------------------------------------------------------------------------------
(* Deliveries nobody interrupts.                                            *)

\* The task has an outcome; neither a task to do nor none at all.
Settled(t) == stored[t] \notin ActiveTaskStatuses \union {"none"}

\* Until the first interruption a message has at most one run, its broker waits
\* for it, and an outcome is stored by the last store call of that run.
OneDelivery ==
  /\ \A r \in Runs :
       ~RunAt(r, "free") => run[r].attached /\ msg[Task(r)] = "active"
  /\ \A q, r \in Runs :
       ~RunAt(q, "free") /\ ~RunAt(r, "free") /\ Task(q) = Task(r) => q = r
  /\ \A t \in Tasks :
       Settled(t) => \/ msg[t] = "completed"
                     \/ \E r \in Runs : RunAt(r, "returnNil") /\ Task(r) = t

Uninterrupted == incidents = 0 => OneDelivery

\* The run of a settled task has only to return.
LEMMA SettledRun ==
  ASSUME OneDelivery, NEW r \in Runs, ~RunAt(r, "free"), Task(r) \in Tasks,
         Settled(Task(r))
  PROVE  RunAt(r, "returnNil")
<1>1. msg[Task(r)] = "active"
  BY DEF OneDelivery
<1>2. PICK q \in Runs : RunAt(q, "returnNil") /\ Task(q) = Task(r)
  BY <1>1 DEF OneDelivery
<1>3. q = r
  BY <1>2 DEF OneDelivery, RunAt
<1>4. QED BY <1>2, <1>3

\* An outcome is never taken back.
LEMMA SettledStays ==
  ASSUME QueueTypeOK, OneDelivery, [QueueNext]_queueVars, NEW t \in Tasks, Settled(t)
  PROVE  Settled(t)'
<1> USE DEF Settled
<1>1. CASE UNCHANGED taskVars
  BY <1>1 DEF taskVars
<1>2. CASE \E u \in Tasks : CreateStoredTask(u)
  BY <1>2 DEF CreateStoredTask, SetStored, QueueTypeOK
<1>3. ASSUME NEW r \in Runs, SetProcessing(r) \/ Publish(r)
                 \/ RecordPublishResult(r) \/ SetSucceeded(r) \/ SetDead(r)
      PROVE  Settled(t)'
  <2>1. ~RunAt(r, "free") /\ Task(r) \in Tasks /\ ~RunAt(r, "returnNil")
    BY <1>3, HandlerBusy, BusyTask DEF HandlerStep, SetProcessing, Publish,
       RecordPublishResult, SetSucceeded, SetDead, RunAt
  <2>2. Task(r) # t
    BY <2>1, SettledRun
  <2>3. stored'[t] = stored[t]
    BY <1>3, <2>1, <2>2 DEF SetProcessing, Publish, RecordPublishResult, SetSucceeded,
       SetDead, SetStored, QueueTypeOK
  <2>4. QED BY <2>3
<1>4. QED
  BY <1>1, <1>2, <1>3, QuietSteps

\* A call of the handler before its return.
LEMMA CallKeepsDelivery ==
  ASSUME QueueTypeOK, OneDelivery, NEW r \in Runs,
         \/ Acquire(r) \/ SetProcessing(r) \/ Publish(r) \/ RecordPublishResult(r)
         \/ SetSucceeded(r) \/ SetDead(r)
  PROVE  OneDelivery'
<1>1. /\ ~RunAt(r, "free") /\ ~RunAt(r, "returnNil") /\ Task(r) \in Tasks
      /\ run \in [Runs -> RunState]
  BY HandlerBusy, BusyTask DEF HandlerStep, Acquire, SetProcessing, Publish,
     RecordPublishResult, SetSucceeded, SetDead, RunAt, QueueTypeOK
<1>2. PICK l \in RunLabels \ {"free"} : Step(r, l)
  BY LabelSets DEF Acquire, SetProcessing, Publish, HandleFailure, RecordPublishResult,
     SetSucceeded, SetDead
<1>3. /\ run'[r].pc = l /\ run'[r].task = run[r].task
      /\ run'[r].attached = run[r].attached
      /\ \A q \in Runs \ {r} : run'[q] = run[q]
      /\ UNCHANGED msg
  BY <1>1, <1>2 DEF Step, RunState, Acquire, SetProcessing, Publish,
     RecordPublishResult, SetSucceeded, SetDead, brokerVars
<1>4. /\ \A t \in Tasks \ {Task(r)} : stored'[t] = stored[t]
      /\ stored'[Task(r)] \notin ActiveTaskStatuses \union {"none"} =>
           stored'[Task(r)] = stored[Task(r)] \/ run'[r].pc = "returnNil"
  BY <1>1, <1>3 DEF Acquire, SetProcessing, Publish, RecordPublishResult, SetSucceeded,
     SetDead, SetStored, Step, QueueTypeOK, taskVars, ActiveTaskStatuses, RunState
<1>5. \A q \in Runs : /\ (RunAt(q, "free")' <=> RunAt(q, "free"))
                      /\ Task(q)' = Task(q) /\ run'[q].attached = run[q].attached
  BY <1>1, <1>2, <1>3 DEF RunAt, Task
<1>6. ASSUME NEW t \in Tasks, Settled(t)'
      PROVE  \/ msg'[t] = "completed"
             \/ \E q \in Runs : RunAt(q, "returnNil")' /\ Task(q)' = t
  <2>1. CASE t # Task(r)
    <3>1. Settled(t)
      BY <1>4, <1>6, <2>1 DEF Settled
    <3>2. \A q \in Runs : RunAt(q, "returnNil") => RunAt(q, "returnNil")'
      BY <1>1, <1>3 DEF RunAt
    <3>3. QED BY <1>3, <1>5, <3>1, <3>2 DEF OneDelivery
  <2>2. CASE t = Task(r)
    <3>1. ~Settled(Task(r))
      BY <1>1, SettledRun
    <3>2. run'[r].pc = "returnNil"
      BY <1>4, <1>6, <2>2, <3>1 DEF Settled
    <3>3. QED BY <1>5, <2>2, <3>2 DEF RunAt
  <2>3. QED BY <2>1, <2>2
<1>7. QED
  BY <1>3, <1>5, <1>6 DEF OneDelivery

\* Its return.
LEMMA ReturnKeepsDelivery ==
  ASSUME QueueTypeOK, OneDelivery, NEW r \in Runs, Return(r)
  PROVE  OneDelivery'
<1>1. /\ ~RunAt(r, "free") /\ Task(r) \in Tasks /\ run[r].attached
      /\ run \in [Runs -> RunState] /\ msg \in [Tasks -> MessageStates]
      /\ UNCHANGED stored
  BY HandlerBusy, BusyTask DEF HandlerStep, Return, RunAt, QueueTypeOK, OneDelivery,
     taskVars
<1>2. /\ run'[r].pc = "free"
      /\ \A q \in Runs \ {r} : run'[q] = run[q]
  BY <1>1 DEF Return, Free
<1>3. /\ \A t \in Tasks \ {Task(r)} : msg'[t] = msg[t]
      /\ RunAt(r, "returnNil") => msg'[Task(r)] = "completed"
  BY <1>1 DEF Return, RunAt, FailDelivery
<1>4. \A q \in Runs \ {r} : ~RunAt(q, "free") => Task(q) # Task(r)
  BY <1>1 DEF OneDelivery
<1>5. ASSUME NEW q \in Runs, ~RunAt(q, "free")'
      PROVE  /\ q # r /\ ~RunAt(q, "free") /\ Task(q)' = Task(q)
             /\ run'[q].attached /\ msg'[Task(q)] = "active"
  <2>1. q # r /\ ~RunAt(q, "free") /\ run'[q] = run[q]
    BY <1>2, <1>5 DEF RunAt
  <2>2. Task(q) \in Tasks /\ Task(q) # Task(r)
    BY <1>4, <2>1, BusyTask
  <2>3. QED BY <1>3, <2>1, <2>2 DEF OneDelivery, Task
<1>6. ASSUME NEW t \in Tasks, Settled(t)'
      PROVE  \/ msg'[t] = "completed"
             \/ \E q \in Runs : RunAt(q, "returnNil")' /\ Task(q)' = t
  <2>1. Settled(t)
    BY <1>1, <1>6 DEF Settled
  <2>2. CASE t = Task(r)
    BY <1>1, <1>3, <2>1, <2>2, SettledRun
  <2>3. CASE t # Task(r)
    <3>1. CASE msg[t] = "completed"
      BY <1>3, <2>3, <3>1
    <3>2. ASSUME NEW q \in Runs, RunAt(q, "returnNil"), Task(q) = t
          PROVE  RunAt(q, "returnNil")' /\ Task(q)' = t
      BY <1>2, <2>3, <3>2 DEF RunAt, Task
    <3>3. QED BY <2>1, <3>1, <3>2 DEF OneDelivery
  <2>4. QED BY <2>2, <2>3
<1>7. QED
  BY <1>5, <1>6 DEF OneDelivery

\* The steps that move messages without a run, or nothing of all this.
LEMMA MessagesKeepDelivery ==
  ASSUME QueueTypeOK, OneDelivery, UNCHANGED run,
         \A t \in Tasks : Settled(t)' => Settled(t),
         \A t \in Tasks : (msg[t] = "active" /\ HasAttachedRun(t))
                            \/ msg[t] = "completed" => msg'[t] = msg[t]
  PROVE  OneDelivery'
<1>1. ASSUME NEW r \in Runs, ~RunAt(r, "free") PROVE msg'[Task(r)] = "active"
  <2>1. run[r].attached /\ msg[Task(r)] = "active" /\ Task(r) \in Tasks
    BY <1>1, BusyTask DEF OneDelivery
  <2>2. QED BY <2>1 DEF HasAttachedRun
<1>2. QED
  BY <1>1 DEF OneDelivery, RunAt, Task

\* A delivery: the message was pending, so neither another run nor an outcome.
LEMMA DeliverKeepsDelivery ==
  ASSUME QueueTypeOK, OneDelivery, NEW t \in Tasks, NEW r \in Runs, Deliver(t, r)
  PROVE  OneDelivery'
<1>1. /\ run' = [run EXCEPT ![r] = [pc |-> "acquire", task |-> t, attached |-> TRUE]]
      /\ run \in [Runs -> RunState] /\ RunAt(r, "free")
      /\ msg[t] = "pending" /\ UNCHANGED stored
      /\ msg' = [msg EXCEPT ![t] = "active"] /\ msg \in [Tasks -> MessageStates]
  BY DEF Deliver, QueueTypeOK, taskVars
<1>2. /\ RunAt(r, "acquire")' /\ Task(r)' = t /\ run'[r].attached
      /\ \A q \in Runs \ {r} : run'[q] = run[q]
  BY <1>1 DEF RunAt, Task
<1>3. \A q \in Runs : ~RunAt(q, "free") => Task(q) \in Tasks \ {t}
  BY <1>1, BusyTask DEF OneDelivery
<1>4. ASSUME NEW q \in Runs \ {r}, ~RunAt(q, "free")'
      PROVE  /\ ~RunAt(q, "free") /\ Task(q)' = Task(q) /\ Task(q) # t
             /\ run'[q].attached /\ msg'[Task(q)] = "active"
  <2>1. ~RunAt(q, "free") /\ run'[q] = run[q]
    BY <1>2, <1>4 DEF RunAt
  <2>2. QED BY <1>1, <1>3, <2>1 DEF OneDelivery, Task
<1>5. msg'[t] = "active"
  BY <1>1
<1>6. ASSUME NEW u \in Tasks, Settled(u)'
      PROVE  \/ msg'[u] = "completed"
             \/ \E q \in Runs : RunAt(q, "returnNil")' /\ Task(q)' = u
  <2>1. Settled(u)
    BY <1>1, <1>6 DEF Settled
  <2>2. CASE msg[u] = "completed"
    BY <1>1, <2>2
  <2>3. ASSUME NEW q \in Runs, RunAt(q, "returnNil"), Task(q) = u
        PROVE  RunAt(q, "returnNil")' /\ Task(q)' = u
    BY <1>1, <1>2, <2>3 DEF RunAt, Task
  <2>4. QED BY <2>1, <2>2, <2>3 DEF OneDelivery
<1>7. QED
  BY <1>2, <1>4, <1>5, <1>6 DEF OneDelivery

\* Incidents are counted, never forgotten.
LEMMA IncidentsGrow ==
  ASSUME QueueTypeOK, [QueueNext]_queueVars, incidents' = 0
  PROVE  incidents = 0
<1>0. incidents \in Nat /\ ~Incident
  BY DEF QueueTypeOK, Incident
<1>1. QED
  BY <1>0 DEF QueueNext, queueVars, Broker, Operator, HandlerStep, CreateStoredTask,
     EnqueuePublish, Recover, Reschedule, ExpireGuard, Deliver, Timeout, Crash, Shutdown,
     RetryDeadTask, RetryAllDeadTasks, DeleteDeadTask, DeleteAllDeadTasks, Acquire,
     SetProcessing, Publish, RecordPublishResult, SetSucceeded, SetDead, Return

LEMMA UninterruptedStep ==
  ASSUME QueueTypeOK, AttachedIsBusy, Uninterrupted, [QueueNext]_queueVars
  PROVE  Uninterrupted'
<1> SUFFICES ASSUME incidents' = 0 PROVE OneDelivery'
  BY DEF Uninterrupted
<1>0. incidents \in Nat /\ ~Incident
  BY DEF QueueTypeOK, Incident
<1>1. incidents = 0
  BY IncidentsGrow
<1>2. OneDelivery
  BY <1>1 DEF Uninterrupted
<1> USE <1>2
<1>3. CASE UNCHANGED queueVars
  BY <1>3, MessagesKeepDelivery DEF queueVars, brokerVars, taskVars, Settled
<1>4. ASSUME NEW t \in Tasks, CreateStoredTask(t) PROVE OneDelivery'
  <2>1. /\ UNCHANGED << run, msg >>
        /\ \A u \in Tasks : u # t => stored'[u] = stored[u]
        /\ stored'[t] = "pending"
    BY <1>4 DEF CreateStoredTask, SetStored, QueueTypeOK, brokerVars
  <2>2. \A u \in Tasks : Settled(u)' => Settled(u)
    BY <2>1 DEF Settled, ActiveTaskStatuses
  <2>3. QED BY <2>1, <2>2, MessagesKeepDelivery
<1>5. ASSUME NEW t \in Tasks,
             \/ EnqueuePublish(t) \/ Recover(t) \/ Reschedule(t) \/ ExpireGuard(t)
             \/ DeleteDeadTask(t) \/ DeleteAllDeadTasks
      PROVE  OneDelivery'
  <2>1. UNCHANGED << run, stored >>
    BY <1>5 DEF EnqueuePublish, Recover, Reschedule, ExpireGuard, DeleteDeadTask,
       DeleteAllDeadTasks, taskVars
  <2>2. \A u \in Tasks : (msg[u] = "active" /\ HasAttachedRun(u))
                           \/ msg[u] = "completed" => msg'[u] = msg[u]
    BY <1>5 DEF EnqueuePublish, Recover, FailDelivery, Reschedule, ExpireGuard,
       DeleteDeadTask, DeleteAllDeadTasks, QueueTypeOK, brokerVars
  <2>3. QED BY <2>1, <2>2, MessagesKeepDelivery DEF Settled
<1>6. ASSUME NEW t \in Tasks, NEW r \in Runs, Deliver(t, r) PROVE OneDelivery'
  BY <1>6, DeliverKeepsDelivery
<1>7. ASSUME NEW r \in Runs, HandlerStep(r) PROVE OneDelivery'
  BY <1>7, CallKeepsDelivery, ReturnKeepsDelivery DEF HandlerStep
<1>8. Broker \/ Operator => OneDelivery'
  <2>1. ASSUME DeleteAllDeadTasks PROVE OneDelivery'
    BY <1>5, <2>1 DEF DeleteAllDeadTasks
  <2>2. QED
    BY <1>0, <1>5, <1>6, <2>1 DEF Broker, Operator, Timeout, Crash, Shutdown,
       RetryDeadTask, RetryAllDeadTasks
<1>9. QED
  BY <1>3, <1>4, <1>5, <1>7, <1>8 DEF QueueNext

LEMMA UninterruptedInit == QueueInit => Uninterrupted
BY DEF QueueInit, Uninterrupted, OneDelivery, Settled, Free, RunAt

-------------------------------------------------------------------------------
(* Progress of messages and handlers.                                       *)

\* The broker waits for at most one run of a message, and only while the message
\* is active.
DeliveryIsExclusive ==
  /\ \A r \in Runs : run[r].attached => msg[Task(r)] = "active"
  /\ \A q, r \in Runs :
       run[q].attached /\ run[r].attached /\ Task(q) = Task(r) => q = r

\* What a step does to messages without a run the broker waits for.
LEMMA MessagesKeepExclusive ==
  ASSUME QueueTypeOK, AttachedIsBusy, DeliveryIsExclusive,
         \A r \in Runs : Task(r)' = Task(r) /\ run'[r].attached = run[r].attached,
         \A t \in Tasks : msg[t] = "active" /\ HasAttachedRun(t) => msg'[t] = "active"
  PROVE  DeliveryIsExclusive'
<1>1. ASSUME NEW r \in Runs, run[r].attached PROVE msg'[Task(r)] = "active"
  <2>1. Task(r) \in Tasks /\ msg[Task(r)] = "active" /\ HasAttachedRun(Task(r))
    BY <1>1, BusyTask DEF AttachedIsBusy, DeliveryIsExclusive, HasAttachedRun
  <2>2. QED BY <2>1
<1>2. QED
  BY <1>1 DEF DeliveryIsExclusive

\* A run the broker waited for leaves it, with the message of its task.
LEMMA DetachKeepsExclusive ==
  ASSUME QueueTypeOK, AttachedIsBusy, DeliveryIsExclusive, NEW r \in Runs,
         run[r].attached, ~run'[r].attached,
         \A q \in Runs \ {r} : run'[q] = run[q],
         \A t \in Tasks \ {Task(r)} : msg'[t] = msg[t]
  PROVE  DeliveryIsExclusive'
<1>1. ASSUME NEW q \in Runs, run'[q].attached
      PROVE  /\ q # r /\ run[q].attached /\ Task(q)' = Task(q)
             /\ msg'[Task(q)] = "active"
  <2>1. q # r /\ run'[q] = run[q]
    BY <1>1
  <2>2. Task(q) \in Tasks \ {Task(r)} /\ msg[Task(q)] = "active"
    BY <1>1, <2>1, BusyTask DEF AttachedIsBusy, DeliveryIsExclusive
  <2>3. QED BY <1>1, <2>1, <2>2 DEF Task
<1>2. QED
  BY <1>1 DEF DeliveryIsExclusive

LEMMA ExclusiveStep ==
  ASSUME QueueTypeOK, AttachedIsBusy, DeliveryIsExclusive, [QueueNext]_queueVars
  PROVE  DeliveryIsExclusive'
<1>0. run \in [Runs -> RunState] /\ msg \in [Tasks -> MessageStates]
  BY DEF QueueTypeOK
<1>1. CASE UNCHANGED << run, msg >>
  BY <1>1 DEF DeliveryIsExclusive, Task
<1>2. ASSUME NEW t \in Tasks,
             EnqueuePublish(t) \/ Recover(t) \/ Reschedule(t) \/ RetryDeadTask(t)
               \/ RetryAllDeadTasks \/ DeleteDeadTask(t) \/ DeleteAllDeadTasks
      PROVE  DeliveryIsExclusive'
  <2>1. UNCHANGED run
    BY <1>2 DEF EnqueuePublish, Recover, Reschedule, RetryDeadTask, RetryAllDeadTasks,
       DeleteDeadTask, DeleteAllDeadTasks
  <2>2. \A u \in Tasks : msg[u] = "active" /\ HasAttachedRun(u) => msg'[u] = "active"
    BY <1>0, <1>2 DEF EnqueuePublish, Recover, FailDelivery, Reschedule, RetryDeadTask,
       RetryAllDeadTasks, DeleteDeadTask, DeleteAllDeadTasks
  <2>3. QED BY <2>1, <2>2, MessagesKeepExclusive DEF Task
<1>3. ASSUME NEW t \in Tasks, NEW r \in Runs, Deliver(t, r)
      PROVE  DeliveryIsExclusive'
  <2>1. /\ run'[r] = [pc |-> "acquire", task |-> t, attached |-> TRUE]
        /\ \A q \in Runs \ {r} : run'[q] = run[q]
        /\ msg[t] = "pending" /\ msg' = [msg EXCEPT ![t] = "active"]
    BY <1>0, <1>3 DEF Deliver
  <2>2. ASSUME NEW q \in Runs \ {r}, run'[q].attached
        PROVE  /\ run[q].attached /\ Task(q)' = Task(q) /\ Task(q) # t
               /\ msg'[Task(q)] = "active"
    <3>1. run[q].attached /\ Task(q)' = Task(q) /\ Task(q) \in Tasks
      BY <2>1, <2>2, BusyTask DEF AttachedIsBusy, Task
    <3>2. msg[Task(q)] = "active" /\ Task(q) # t
      BY <2>1, <3>1 DEF DeliveryIsExclusive
    <3>3. QED BY <1>0, <2>1, <3>1, <3>2
  <2>3. Task(r)' = t /\ msg'[t] = "active"
    BY <1>0, <2>1 DEF Task
  <2>4. QED
    BY <2>1, <2>2, <2>3 DEF DeliveryIsExclusive
<1>4. ASSUME NEW r \in Runs, Timeout(r) \/ Shutdown(r) PROVE DeliveryIsExclusive'
  <2>1. /\ run[r].attached /\ ~run'[r].attached
        /\ \A q \in Runs \ {r} : run'[q] = run[q]
        /\ \A t \in Tasks \ {Task(r)} : msg'[t] = msg[t]
    BY <1>0, <1>4 DEF Timeout, Shutdown, FailDelivery, Free, RunState
  <2>2. QED BY <2>1, DetachKeepsExclusive
<1>5. ASSUME NEW r \in Runs, Crash(r) \/ Return(r) PROVE DeliveryIsExclusive'
  <2>1. /\ run' = [run EXCEPT ![r] = Free] /\ ~run'[r].attached
        /\ \A q \in Runs \ {r} : run'[q] = run[q]
        /\ \A t \in Tasks \ {Task(r)} : msg'[t] = msg[t]
        /\ ~run[r].attached => UNCHANGED msg
    BY <1>0, <1>5 DEF Crash, Return, FailDelivery, Free, brokerVars
  <2>2. CASE run[r].attached
    BY <2>1, <2>2, DetachKeepsExclusive
  <2>3. CASE ~run[r].attached
    BY <2>1, <2>3 DEF DeliveryIsExclusive, Task
  <2>4. QED BY <2>2, <2>3
<1>6. ASSUME NEW r \in Runs,
             \/ Acquire(r) \/ SetProcessing(r) \/ Publish(r) \/ RecordPublishResult(r)
             \/ SetSucceeded(r) \/ SetDead(r)
      PROVE  DeliveryIsExclusive'
  <2>1. UNCHANGED msg
    BY <1>6 DEF Acquire, SetProcessing, Publish, RecordPublishResult, SetSucceeded,
       SetDead, brokerVars
  <2>2. \E l \in RunLabels : Step(r, l)
    BY <1>6, LabelSets DEF Acquire, SetProcessing, Publish, HandleFailure,
       RecordPublishResult, SetSucceeded, SetDead
  <2>3. \A q \in Runs : Task(q)' = Task(q) /\ run'[q].attached = run[q].attached
    BY <1>0, <2>2 DEF Step, Task, RunState
  <2>4. QED BY <2>1, <2>3, MessagesKeepExclusive
<1>7. QED
  BY <1>1, <1>2, <1>3, <1>4, <1>5, <1>6 DEF QueueNext, queueVars, brokerVars, Broker,
     Operator, HandlerStep, CreateStoredTask, ExpireGuard, RetryAllDeadTasks,
     DeleteAllDeadTasks

LEMMA ExclusiveDelivery ==
  QueueSpec => [](QueueTypeOK /\ AttachedIsBusy /\ DeliveryIsExclusive)
<1>1. QueueInit => DeliveryIsExclusive
  BY DEF QueueInit, DeliveryIsExclusive, Free
<1>2. QED
  BY <1>1, QueueTypeInit, QueueTypeStep, ExclusiveStep, PTL DEF QueueSpec

\* What a step may do to a message: send it on without touching its retries, or
\* fail its delivery, which sends it back at the price of a retry.
Forward ==
  { <<"none", "pending">>, <<"retry", "pending">>, <<"pending", "active">>,
    <<"active", "completed">>, <<"archived", "deleted">>, <<"retry", "deleted">>,
    <<"pending", "deleted">> }

MessageMoves(t) ==
  \/ msg'[t] = msg[t]
  \/ <<msg[t], msg'[t]>> \in Forward /\ retried'[t] = retried[t]
  \/ msg[t] = "active" /\ msg'[t] = "archived" /\ retried'[t] = retried[t]
  \/ /\ msg[t] = "active" /\ msg'[t] = "retry"
     /\ retried[t] < MaxRetry /\ retried'[t] = retried[t] + 1
  \/ incidents' > incidents

LEMMA StepMovesMessage ==
  ASSUME QueueTypeOK, AttachedIsBusy, DeliveryIsExclusive, [QueueNext]_queueVars,
         NEW t \in Tasks
  PROVE  MessageMoves(t)
<1>0. /\ msg \in [Tasks -> MessageStates] /\ retried \in [Tasks -> 0 .. MaxRetry]
      /\ Incident => incidents' > incidents
  BY DEF QueueTypeOK, Incident
<1>1. ASSUME NEW u \in Tasks, msg[u] = "active", FailDelivery(u)
      PROVE  MessageMoves(t)
  BY <1>0, <1>1 DEF FailDelivery, MessageMoves
<1>2. CASE UNCHANGED brokerVars
  BY <1>2 DEF brokerVars, MessageMoves
<1>3. ASSUME NEW u \in Tasks, EnqueuePublish(u) \/ Reschedule(u)
                 \/ DeleteDeadTask(u) \/ DeleteAllDeadTasks
      PROVE  MessageMoves(t)
  BY <1>0, <1>3 DEF EnqueuePublish, Reschedule, DeleteDeadTask, DeleteAllDeadTasks,
     MessageMoves, Forward
<1>4. ASSUME NEW u \in Tasks, NEW r \in Runs, Deliver(u, r) PROVE MessageMoves(t)
  BY <1>0, <1>4 DEF Deliver, MessageMoves, Forward
<1>5. ASSUME NEW u \in Tasks, Recover(u) PROVE MessageMoves(t)
  BY <1>1, <1>5 DEF Recover
<1>6. ASSUME NEW r \in Runs, Return(r) PROVE MessageMoves(t)
  <2>1. CASE ~run[r].attached
    BY <1>2, <1>6, <2>1 DEF Return
  <2>2. CASE run[r].attached
    <3>1. Task(r) \in Tasks /\ msg[Task(r)] = "active"
      BY <2>2, BusyTask DEF AttachedIsBusy, DeliveryIsExclusive
    <3>2. CASE FailDelivery(Task(r))
      BY <1>1, <3>1, <3>2
    <3>3. CASE msg' = [msg EXCEPT ![Task(r)] = "completed"] /\ UNCHANGED retried
      BY <1>0, <3>1, <3>3 DEF MessageMoves, Forward
    <3>4. QED BY <1>6, <2>2, <3>2, <3>3 DEF Return
  <2>3. QED BY <2>1, <2>2
<1>7. CASE Incident
  BY <1>0, <1>7 DEF MessageMoves
<1>8. QED
  BY <1>2, <1>3, <1>4, <1>5, <1>6, <1>7 DEF QueueNext, queueVars, Broker, Operator,
     HandlerStep, CreateStoredTask, ExpireGuard, Timeout, Crash, Shutdown, RetryDeadTask,
     RetryAllDeadTasks, DeleteAllDeadTasks, Acquire, SetProcessing, Publish,
     RecordPublishResult, SetSucceeded, SetDead

\* A handler only makes later calls.
LEMMA HandlerGoesOn ==
  ASSUME QueueTypeOK, NEW r \in Runs, HandlerStep(r)
  PROVE  CallsLeft(r)' < CallsLeft(r)
<1>0. run \in [Runs -> RunState]
  BY DEF QueueTypeOK
<1>1. <<run[r].pc, run'[r].pc>> \in
        { <<"acquire", "setProcessing">>, <<"acquire", "returnNil">>,
          <<"setProcessing", "publish">>, <<"setProcessing", "returnError">>,
          <<"publish", "record">>, <<"publish", "markDead">>,
          <<"publish", "returnError">>, <<"record", "markSucceeded">>,
          <<"record", "returnError">>, <<"markSucceeded", "returnNil">>,
          <<"markSucceeded", "returnError">>, <<"markDead", "returnNil">>,
          <<"returnNil", "free">>, <<"returnError", "free">> }
  BY <1>0 DEF HandlerStep, Acquire, SetProcessing, Publish, HandleFailure,
     RecordPublishResult, SetSucceeded, SetDead, Return, RunAt, Step, Free, RunState
<1>2. QED
  BY <1>1 DEF CallsLeft

\* Between incidents a message goes through at most three states per retry and a
\* delivery through at most six calls: no retry, recovery, crash or skipped
\* duplicate brings either back without spending something that runs out.
THEOREM MessagesAdvance == QueueSpec => MessagesMoveOn
<1>1. /\ QueueTypeOK /\ AttachedIsBusy /\ DeliveryIsExclusive /\ [QueueNext]_queueVars
      => [/\ \A t \in Tasks :
               msg'[t] # msg[t] =>
                 JourneyLeft(t)' < JourneyLeft(t) \/ incidents' > incidents
          /\ \A r \in Runs :
               ~RunAt(r, "free") /\ run'[r].pc # run[r].pc =>
                 CallsLeft(r)' < CallsLeft(r)]_queueVars
  <2> SUFFICES ASSUME QueueTypeOK, AttachedIsBusy, DeliveryIsExclusive,
                      [QueueNext]_queueVars
               PROVE  /\ \A t \in Tasks :
                           msg'[t] # msg[t] =>
                             JourneyLeft(t)' < JourneyLeft(t) \/ incidents' > incidents
                      /\ \A r \in Runs :
                           ~RunAt(r, "free") /\ run'[r].pc # run[r].pc =>
                             CallsLeft(r)' < CallsLeft(r)
    OBVIOUS
  <2>1. ASSUME NEW t \in Tasks, msg'[t] # msg[t], ~(incidents' > incidents)
        PROVE  JourneyLeft(t)' < JourneyLeft(t)
    <3>1. retried[t] \in Nat /\ MaxRetry \in Nat
      BY QueueAssumption DEF QueueTypeOK
    <3>2. MessageMoves(t)
      BY StepMovesMessage
    <3>3. QED
      BY <2>1, <3>1, <3>2 DEF MessageMoves, Forward, JourneyLeft
  <2>2. ASSUME NEW r \in Runs, ~RunAt(r, "free"), run'[r].pc # run[r].pc
        PROVE  CallsLeft(r)' < CallsLeft(r)
    <3>1. CASE HandlerStep(r)
      BY <3>1, HandlerGoesOn
    <3>2. CASE RunAt(r, "free")'
      BY <2>2, <3>2 DEF RunAt, CallsLeft, QueueTypeOK, RunState, RunLabels, Working
    <3>3. ~RunAt(r, "acquire")' \/ HandlerStep(r)
      <4>1. ASSUME NEW t \in Tasks, NEW q \in Runs, Deliver(t, q)
            PROVE  ~RunAt(r, "acquire")'
        BY <2>2, <4>1 DEF Deliver, RunAt, QueueTypeOK
      <4>2. ASSUME NEW q \in Runs, HandlerStep(q), q # r PROVE ~RunAt(r, "acquire")'
        <5>1. run'[r] = run[r]
          BY <4>2 DEF QueueTypeOK, HandlerStep, Acquire, SetProcessing, Publish,
             HandleFailure, RecordPublishResult, SetSucceeded, SetDead, Return, Step
        <5>2. QED BY <2>2, <5>1
      <4>3. ASSUME NEW q \in Runs, Timeout(q) PROVE ~RunAt(r, "acquire")'
        BY <2>2, <4>3, TimeoutRun, QueueTypeOKRuns
      <4>4. ASSUME NEW q \in Runs, Crash(q) \/ Shutdown(q) PROVE ~RunAt(r, "acquire")'
        BY <2>2, <4>4 DEF Crash, Shutdown, Free, RunAt, QueueTypeOK
      <4>5. run' # run
        BY <2>2
      <4>6. QED
        BY <4>1, <4>2, <4>3, <4>4, <4>5 DEF QueueNext, queueVars, Broker, Operator,
           CreateStoredTask, EnqueuePublish, Recover, Reschedule, ExpireGuard,
           RetryDeadTask, RetryAllDeadTasks, DeleteDeadTask, DeleteAllDeadTasks
    <3>4. QED
      BY <2>2, <3>1, <3>2, <3>3, RunChanges, QueueTypeOKRuns DEF RunStays
  <2>3. QED BY <2>1, <2>2
<1>2. QED
  BY <1>1, ExclusiveDelivery, PTL DEF QueueSpec, MessagesMoveOn

-------------------------------------------------------------------------------
(* What a post is paid for with.                                            *)

\* The runs that may still post a task.
Unposted(t) ==
  { r \in Runs : run[r].pc \in {"acquire", "setProcessing", "publish"}
                   /\ Task(r) = t }

\* A message that may yet be delivered without anything being paid for it.
Due(t) == IF msg[t] \in {"none", "pending", "retry"} THEN 1 ELSE 0

\* Posts made, posts that runs may make and the delivery that is due are paid for
\* by the first delivery, the retries and the incidents.
AllPaidFor ==
  \A t \in Tasks :
    live[t] + Cardinality(Unposted(t)) + Due(t) <= 1 + retried[t] + incidents

LEMMA UnpostedFinite ==
  ASSUME IsFiniteSet(Runs), NEW t
  PROVE  /\ IsFiniteSet(Unposted(t)) /\ Cardinality(Unposted(t)) \in Nat
         /\ \A S \in SUBSET Unposted(t) : Cardinality(S) <= Cardinality(Unposted(t))
                                         /\ Cardinality(S) \in Nat
BY FS_Subset, FS_CardinalityType DEF Unposted

\* No step but a delivery makes a run one that may still post.
LEMMA UnpostedShrinks ==
  ASSUME QueueTypeOK, NEW t \in Tasks, [QueueNext]_queueVars
  PROVE  \/ Unposted(t)' \subseteq Unposted(t)
         \/ \E r \in Runs : Deliver(t, r)
<1>1. ASSUME NEW r \in Runs, HandlerStep(r) PROVE Unposted(t)' \subseteq Unposted(t)
  <2>1. \A q \in Runs \ {r} : run'[q] = run[q]
    BY <1>1 DEF QueueTypeOK, HandlerStep, Acquire, SetProcessing, Publish, HandleFailure,
       RecordPublishResult, SetSucceeded, SetDead, Return, Step
  <2>2. run'[r].pc \in {"acquire", "setProcessing", "publish"} =>
          /\ run[r].pc \in {"acquire", "setProcessing", "publish"}
          /\ run'[r].task = run[r].task
    BY <1>1 DEF QueueTypeOK, HandlerStep, Acquire, SetProcessing, Publish, HandleFailure,
       RecordPublishResult, SetSucceeded, SetDead, Return, Step, RunAt, Free, RunState
  <2>3. QED BY <2>1, <2>2 DEF Unposted, Task
<1>2. ASSUME NEW u \in Tasks, NEW r \in Runs, Deliver(u, r), u # t
      PROVE  Unposted(t)' \subseteq Unposted(t)
  BY <1>2 DEF Deliver, QueueTypeOK, Unposted, Task
<1>3. ASSUME NEW r \in Runs, Timeout(r) PROVE Unposted(t)' \subseteq Unposted(t)
  BY <1>3, TimeoutRun, QueueTypeOKRuns DEF Unposted, Task
<1>4. ASSUME NEW r \in Runs, Crash(r) \/ Shutdown(r)
      PROVE  Unposted(t)' \subseteq Unposted(t)
  BY <1>4 DEF Crash, Shutdown, Free, QueueTypeOK, Unposted, Task
<1>5. CASE UNCHANGED run
  BY <1>5 DEF Unposted, Task
<1>6. QED
  BY <1>1, <1>2, <1>3, <1>4, <1>5 DEF QueueNext, queueVars, Broker, Operator,
     CreateStoredTask, EnqueuePublish, Recover, Reschedule, ExpireGuard, RetryDeadTask,
     RetryAllDeadTasks, DeleteDeadTask, DeleteAllDeadTasks

\* Making a message due costs a retry or an incident; nothing is given back.
LEMMA DueIsPaid ==
  ASSUME QueueTypeOK, AttachedIsBusy, DeliveryIsExclusive, [QueueNext]_queueVars,
         NEW t \in Tasks
  PROVE  /\ Due(t)' + retried[t] + incidents <= Due(t) + retried'[t] + incidents'
         /\ retried[t] \in Nat /\ retried'[t] \in Nat
         /\ incidents \in Nat /\ incidents' \in Nat
         /\ Due(t) \in {0, 1} /\ Due(t)' \in {0, 1}
<1>1. QueueTypeOK'
  BY QueueTypeStep
<1>2. /\ retried[t] \in Nat /\ retried'[t] \in Nat
      /\ incidents \in Nat /\ incidents' \in Nat
      /\ Due(t) \in {0, 1} /\ Due(t)' \in {0, 1}
  BY <1>1 DEF QueueTypeOK, Due
<1>3. retried'[t] >= retried[t] /\ incidents' >= incidents
  <2>1. ASSUME NEW u \in Tasks, FailDelivery(u) PROVE retried'[t] >= retried[t]
    BY <1>2, <2>1 DEF FailDelivery, QueueTypeOK
  <2>2. ASSUME NEW r \in Runs, run[r].attached, FailDelivery(Task(r))
        PROVE  retried'[t] >= retried[t]
    BY <2>1, <2>2, BusyTask DEF AttachedIsBusy
  <2>3. UNCHANGED incidents \/ incidents' = incidents + 1
    BY DEF QueueNext, queueVars, Broker, Operator, HandlerStep, CreateStoredTask,
     EnqueuePublish, Recover, Reschedule, ExpireGuard, Deliver, Timeout, Crash, Shutdown,
     RetryDeadTask, RetryAllDeadTasks, DeleteDeadTask, DeleteAllDeadTasks, Acquire,
     SetProcessing, Publish, RecordPublishResult, SetSucceeded, SetDead, Return, Incident
  <2>4. UNCHANGED retried \/ retried'[t] >= retried[t]
    BY <2>1, <2>2 DEF QueueNext, queueVars, brokerVars, Broker, Operator, HandlerStep,
     CreateStoredTask, EnqueuePublish, Recover, Reschedule, ExpireGuard, Deliver, Timeout,
     Crash, Shutdown, RetryDeadTask, RetryAllDeadTasks, DeleteDeadTask,
     DeleteAllDeadTasks, Acquire, SetProcessing, Publish, RecordPublishResult,
     SetSucceeded, SetDead, Return
  <2>5. QED BY <1>2, <2>3, <2>4
<1>4. MessageMoves(t)
  BY StepMovesMessage
<1>5. QED
  BY <1>2, <1>3, <1>4 DEF MessageMoves, Forward, Due

LEMMA PaidStep ==
  ASSUME IsFiniteSet(Runs), QueueTypeOK, AttachedIsBusy, DeliveryIsExclusive, AllPaidFor,
         [QueueNext]_queueVars
  PROVE  AllPaidFor'
<1> SUFFICES ASSUME NEW t \in Tasks
             PROVE  live'[t] + Cardinality(Unposted(t)') + Due(t)'
                      <= 1 + retried'[t] + incidents'
  BY DEF AllPaidFor
<1> DEFINE U == Unposted(t)
           V == Unposted(t)'
<1>1. /\ Due(t)' + retried[t] + incidents <= Due(t) + retried'[t] + incidents'
      /\ retried[t] \in Nat /\ retried'[t] \in Nat
      /\ incidents \in Nat /\ incidents' \in Nat
      /\ Due(t) \in {0, 1} /\ Due(t)' \in {0, 1}
  BY DueIsPaid
<1>2. /\ IsFiniteSet(U) /\ Cardinality(U) \in Nat
      /\ \A S \in SUBSET U : Cardinality(S) <= Cardinality(U) /\ Cardinality(S) \in Nat
  BY UnpostedFinite
<1>3. live[t] + Cardinality(U) + Due(t) <= 1 + retried[t] + incidents
  BY DEF AllPaidFor
<1>4. live[t] \in Nat
  BY DEF QueueTypeOK
<1>5. CASE live'[t] = live[t] /\ V \subseteq U
  <2>1. Cardinality(V) <= Cardinality(U) /\ Cardinality(V) \in Nat
    BY <1>2, <1>5
  <2> HIDE DEF U, V
  <2>2. live'[t] + Cardinality(V) + Due(t)' <= 1 + retried'[t] + incidents'
    BY <1>1, <1>2, <1>3, <1>4, <1>5, <2>1
  <2>3. QED BY <2>2 DEF V
<1>6. ASSUME NEW r \in Runs, Deliver(t, r)
      PROVE  live'[t] + Cardinality(V) + Due(t)' <= 1 + retried'[t] + incidents'
  <2>1. V \subseteq U \union {r}
    BY <1>6 DEF Deliver, QueueTypeOK, Unposted, Task
  <2>2. /\ IsFiniteSet(U \union {r})
        /\ Cardinality(U \union {r}) <= Cardinality(U) + 1
        /\ Cardinality(U \union {r}) \in Nat
    <3> HIDE DEF U
    <3>1. /\ IsFiniteSet(U \union {r})
          /\ Cardinality(U \union {r}) =
               IF r \in U THEN Cardinality(U) ELSE Cardinality(U) + 1
      BY <1>2, FS_AddElement
    <3>2. QED BY <1>2, <3>1
  <2>3. Cardinality(V) <= Cardinality(U) + 1 /\ Cardinality(V) \in Nat
    <3>1. Cardinality(V) <= Cardinality(U \union {r}) /\ IsFiniteSet(V)
      BY <2>1, <2>2, FS_Subset
    <3>2. Cardinality(V) \in Nat
      BY <3>1, FS_CardinalityType
    <3> HIDE DEF U, V
    <3>3. QED BY <1>2, <2>2, <3>1, <3>2
  <2>4. /\ Due(t) = 1 /\ Due(t)' = 0 /\ live'[t] = live[t]
        /\ retried'[t] = retried[t] /\ incidents' = incidents
    BY <1>6 DEF Deliver, Due, QueueTypeOK, taskVars
  <2> HIDE DEF U, V
  <2>5. QED BY <1>1, <1>2, <1>3, <1>4, <2>3, <2>4
<1>7. ASSUME NEW r \in Runs, Publish(r), Task(r) = t
      PROVE  live'[t] + Cardinality(V) + Due(t)' <= 1 + retried'[t] + incidents'
  <2>1. V \subseteq U \ {r} /\ r \in U
    <3>1. \A q \in Runs \ {r} : run'[q] = run[q]
      BY <1>7 DEF Publish, HandleFailure, Step, QueueTypeOK
    <3>2. run'[r].pc \in {"record", "markDead", "returnError"}
      BY <1>7 DEF Publish, HandleFailure, Step, QueueTypeOK, RunState
    <3>3. QED BY <1>7, <3>1, <3>2 DEF Unposted, Task, Publish, RunAt
  <2>2. IsFiniteSet(U \ {r}) /\ Cardinality(U \ {r}) = Cardinality(U) - 1
    BY <1>2, <2>1, FS_RemoveElement
  <2>3. Cardinality(V) <= Cardinality(U) - 1 /\ Cardinality(V) \in Nat
    <3>1. Cardinality(V) <= Cardinality(U \ {r})
      BY <2>1, <2>2, FS_Subset
    <3>2. V \in SUBSET U
      BY <2>1
    <3>3. QED BY <1>2, <2>2, <3>1, <3>2
  <2>4. live'[t] \in {live[t], live[t] + 1}
    BY <1>7 DEF Publish, QueueTypeOK
  <2> HIDE DEF U, V
  <2>5. live'[t] + Cardinality(V) + Due(t)' <= 1 + retried'[t] + incidents'
    BY <1>1, <1>2, <1>3, <1>4, <2>3, <2>4
  <2>6. QED BY <2>5 DEF V
<1>8. live'[t] = live[t] \/ \E r \in Runs : Publish(r) /\ Task(r) = t
  BY QuietSteps DEF taskVars, CreateStoredTask, SetProcessing, Publish,
     RecordPublishResult, SetSucceeded, SetDead, QueueTypeOK
<1>9. QED
  BY <1>5, <1>6, <1>7, <1>8, UnpostedShrinks

\* Whatever stores and guards do: a task is posted at most once for each delivery,
\* and a delivery is the first one, a retry the broker has counted, or one that an
\* interruption or an operator has caused.
THEOREM DeliveriesPayForPosts ==
  ASSUME IsFiniteSet(Runs) PROVE QueueSpec => []PostsArePaidFor
<1>1. QueueInit => AllPaidFor
  <2> SUFFICES ASSUME QueueInit, NEW t \in Tasks
               PROVE  live[t] + Cardinality(Unposted(t)) + Due(t)
                        <= 1 + retried[t] + incidents
    BY DEF AllPaidFor
  <2>1. Unposted(t) = {}
    BY DEF QueueInit, Unposted, Free
  <2>2. Cardinality(Unposted(t)) = 0
    BY <2>1, FS_EmptySet
  <2>3. live[t] = 0 /\ retried[t] = 0 /\ incidents = 0 /\ Due(t) = 1
    BY DEF QueueInit, Due
  <2>4. QED BY <2>2, <2>3
<1>2. QueueTypeOK /\ AllPaidFor => PostsArePaidFor
  <2> SUFFICES ASSUME QueueTypeOK, AllPaidFor, NEW t \in Tasks
               PROVE  live[t] <= 1 + retried[t] + incidents
    BY DEF PostsArePaidFor
  <2>1. /\ Cardinality(Unposted(t)) \in Nat /\ Due(t) \in {0, 1}
        /\ live[t] \in Nat /\ retried[t] \in Nat /\ incidents \in Nat
    BY UnpostedFinite DEF QueueTypeOK, Due
  <2>2. QED BY <2>1 DEF AllPaidFor
<1>3. QED
  BY <1>1, <1>2, PaidStep, ExclusiveDelivery, PTL DEF QueueSpec
===============================================================================
