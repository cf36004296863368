------------------------------ MODULE PublishQueue ------------------------------
(***************************************************************************)
(* internal/queue: publish tasks delivered by the broker (Asynq, external) *)
(* to TaskHandler.HandlePublish.                                           *)
(*                                                                         *)
(* Every task has one message.  A delivery occupies a run: one goroutine   *)
(* of one worker process.  The broker gives a run a time limit; when it    *)
(* ends the message is retried or archived while the handler goes on, now  *)
(* detached.  A crash ends the run at any step.  Each store, guard and     *)
(* publisher call of the handler is one atomic step; run[r].pc names the   *)
(* call that r makes next:                                                 *)
(*                                                                         *)
(*   free -> acquire -> setProcessing -> publish -> record                 *)
(*        -> markSucceeded or markDead -> returnNil or returnError -> free *)
(***************************************************************************)
EXTENDS PublishContracts

CONSTANTS
  Tasks,            \* publish tasks; one per content and platform
  Runs,             \* deliveries that can be in progress at a time
  MaxRetry,         \* asynq.MaxRetry of every message
  MaxIncidents,     \* bound: time limits that end, crashes, shutdowns, reruns
  ValidatingStore,  \* does the task state store refuse illegal edges?
  LeaseCovers,      \* does a guard key outlive the run that acquired it?
  StoreFails,       \* may the task state store return an error?
  GuardFails        \* may the guard's Redis call return an error?

ASSUME QueueAssumption ==
  /\ MaxRetry \in Nat
  /\ MaxIncidents \in Nat
  /\ ValidatingStore \in BOOLEAN
  /\ LeaseCovers \in BOOLEAN
  /\ StoreFails \in BOOLEAN
  /\ GuardFails \in BOOLEAN

VARIABLES
  msg,       \* task -> state of its message in the broker
  retried,   \* task -> retries the broker has counted
  run,       \* what every run is doing
  guard,     \* tasks whose idempotency key is held and unexpired
  stored,    \* task -> status in the task store, "none" before it exists
  recorded,  \* tasks with a stored publish result
  live,      \* task -> posts visible on its platform
  incidents  \* interruptions and reruns so far

brokerVars == << msg, retried >>
taskVars == << stored, recorded, live >>
queueVars == << brokerVars, run, guard, taskVars, incidents >>

MessageStates ==
  { "none", "pending", "active", "retry", "archived", "completed", "deleted" }

\* The labels at which a run works on its task, past the guard.
Working == { "setProcessing", "publish", "record", "markSucceeded", "markDead" }

RunLabels == {"free", "acquire", "returnNil", "returnError"} \union Working

RunState ==
  [ pc       : RunLabels,
    task     : Tasks \union {"none"},
    attached : BOOLEAN ]   \* does the broker still wait for this run?

Free == [pc |-> "free", task |-> "none", attached |-> FALSE]

QueueTypeOK ==
  /\ msg \in [Tasks -> MessageStates]
  /\ retried \in [Tasks -> 0 .. MaxRetry]
  /\ run \in [Runs -> RunState]
  /\ guard \subseteq Tasks
  /\ stored \in [Tasks -> TaskStatuses \union {"none"}]
  /\ recorded \subseteq Tasks
  /\ live \in [Tasks -> Nat]
  /\ incidents \in 0 .. MaxIncidents
  /\ \A r \in Runs : run[r].pc # "free" => run[r].task \in Tasks

QueueInit ==
  /\ msg = [t \in Tasks |-> "none"]
  /\ retried = [t \in Tasks |-> 0]
  /\ run = [r \in Runs |-> Free]
  /\ guard = {}
  /\ stored = [t \in Tasks |-> "none"]
  /\ recorded = {}
  /\ live = [t \in Tasks |-> 0]
  /\ incidents = 0

-------------------------------------------------------------------------------
(* Helpers.                                                                 *)

RunAt(r, label) == run[r].pc = label

Task(r) == run[r].task

Step(r, label) == run' = [run EXCEPT ![r].pc = label]

IsWorking(r, t) == run[r].pc \in Working /\ Task(r) = t

HasAttachedRun(t) == \E r \in Runs : run[r].attached /\ Task(r) = t

\* Variant: one retry too many.
FailDeliveryOnceMore(t) ==
  IF retried[t] <= MaxRetry
  THEN /\ msg' = [msg EXCEPT ![t] = "retry"]
       /\ retried' = [retried EXCEPT ![t] = @ + 1]
  ELSE /\ msg' = [msg EXCEPT ![t] = "archived"]
       /\ UNCHANGED retried

\* A failed delivery: another retry, or the archive once they are used up.
FailDelivery(t) ==
  IF retried[t] < MaxRetry
  THEN /\ msg' = [msg EXCEPT ![t] = "retry"]
       /\ retried' = [retried EXCEPT ![t] = @ + 1]
  ELSE /\ msg' = [msg EXCEPT ![t] = "archived"]
       /\ UNCHANGED retried

\* TaskStateStore.UpdateTaskStatus.  The interface has no implementation yet;
\* it bridges to one of two stores, and only one of them checks the edge.
CanStore(t, to) == ~ValidatingStore \/ TaskCanTransition(stored[t], to)

SetStored(t, to) == stored' = [stored EXCEPT ![t] = to]

Incident == incidents < MaxIncidents /\ incidents' = incidents + 1

-------------------------------------------------------------------------------
(* The producer: api.PublishHandler creates the task, then enqueues it.     *)

CreateStoredTask(t) ==
  /\ stored[t] = "none"
  /\ SetStored(t, "pending")
  /\ UNCHANGED << brokerVars, run, guard, recorded, live, incidents >>

EnqueuePublish(t) ==
  /\ stored[t] # "none"
  /\ msg[t] = "none"
  /\ msg' = [msg EXCEPT ![t] = "pending"]
  /\ UNCHANGED << retried, run, guard, taskVars, incidents >>

-------------------------------------------------------------------------------
(* The broker.                                                              *)

\* The mux decodes the payload and calls HandlePublish in a goroutine.
Deliver(t, r) ==
  /\ msg[t] = "pending"
  /\ RunAt(r, "free")
  /\ msg' = [msg EXCEPT ![t] = "active"]
  /\ run' = [run EXCEPT ![r] = [pc |-> "acquire", task |-> t, attached |-> TRUE]]
  /\ UNCHANGED << retried, guard, taskVars, incidents >>

\* The time limit of a delivery ends; the goroutine is not stopped by it.
Timeout(r) ==
  /\ run[r].attached
  /\ Incident
  /\ FailDelivery(Task(r))
  /\ run' = [run EXCEPT ![r].attached = FALSE]
  /\ UNCHANGED << guard, taskVars >>

\* The worker process dies; the broker does not know yet.
Crash(r) ==
  /\ ~RunAt(r, "free")
  /\ Incident
  /\ run' = [run EXCEPT ![r] = Free]
  /\ UNCHANGED << brokerVars, guard, taskVars >>

\* The lease of a message whose worker died runs out.
Recover(t) ==
  /\ msg[t] = "active"
  /\ ~HasAttachedRun(t)
  /\ FailDelivery(t)
  /\ UNCHANGED << run, guard, taskVars, incidents >>

\* The backoff of a retry is over.
Reschedule(t) ==
  /\ msg[t] = "retry"
  /\ msg' = [msg EXCEPT ![t] = "pending"]
  /\ UNCHANGED << retried, run, guard, taskVars, incidents >>

\* Worker.Shutdown gives up on a run: the message goes back uncounted.
Shutdown(r) ==
  /\ run[r].attached
  /\ Incident
  /\ msg' = [msg EXCEPT ![Task(r)] = "pending"]
  /\ run' = [run EXCEPT ![r] = Free]
  /\ UNCHANGED << retried, guard, taskVars >>

\* HandlePublish returns.  A detached run's result goes nowhere.
Return(r) ==
  /\ run[r].pc \in {"returnNil", "returnError"}
  /\ \/ /\ run[r].attached
        /\ RunAt(r, "returnNil")
        /\ msg' = [msg EXCEPT ![Task(r)] = "completed"]
        /\ UNCHANGED retried
     \/ /\ run[r].attached
        /\ RunAt(r, "returnError")
        /\ FailDelivery(Task(r))
     \/ /\ ~run[r].attached
        /\ UNCHANGED brokerVars
  /\ run' = [run EXCEPT ![r] = Free]
  /\ UNCHANGED << guard, taskVars, incidents >>

\* A key reaches its ten-minute expiry; nothing ever releases it earlier.
ExpireGuard(t) ==
  /\ t \in guard
  /\ LeaseCovers => \A r \in Runs : ~IsWorking(r, t)
  /\ guard' = guard \ {t}
  /\ UNCHANGED << brokerVars, run, taskVars, incidents >>

-------------------------------------------------------------------------------
(* TaskHandler.HandlePublish.                                               *)

\* Variant: the result of Acquire is ignored.
AcquireIgnoresHeld(r) ==
  /\ RunAt(r, "acquire")
  /\ guard' = guard \union {Task(r)}
  /\ Step(r, "setProcessing")
  /\ UNCHANGED << brokerVars, taskVars, incidents >>

\* Variant: the handler waits for a held key instead of skipping.
AcquireWaits(r) ==
  /\ RunAt(r, "acquire")
  /\ Task(r) \notin guard
  /\ guard' = guard \union {Task(r)}
  /\ Step(r, "setProcessing")
  /\ UNCHANGED << brokerVars, taskVars, incidents >>

\* IdempotencyGuard.Acquire: SETNX of the key of content and platform.  A held
\* key ends the delivery as a success; an error of the guard is ignored.
Acquire(r) ==
  /\ RunAt(r, "acquire")
  /\ \/ /\ Task(r) \notin guard
        /\ guard' = guard \union {Task(r)}
        /\ Step(r, "setProcessing")
     \/ /\ Task(r) \in guard
        /\ Step(r, "returnNil")
        /\ UNCHANGED guard
     \/ /\ GuardFails
        /\ Step(r, "setProcessing")
        /\ UNCHANGED guard
  /\ UNCHANGED << brokerVars, taskVars, incidents >>

\* Variant: a refused transition is only logged, as in publish.Service.
SetProcessingIgnoresError(r) ==
  /\ RunAt(r, "setProcessing")
  /\ stored' = IF CanStore(Task(r), "processing")
               THEN [stored EXCEPT ![Task(r)] = "processing"] ELSE stored
  /\ Step(r, "publish")
  /\ UNCHANGED << brokerVars, guard, recorded, live, incidents >>

\* A store error, or an edge the store refuses, ends the delivery.
SetProcessing(r) ==
  /\ RunAt(r, "setProcessing")
  /\ \/ /\ CanStore(Task(r), "processing")
        /\ SetStored(Task(r), "processing")
        /\ Step(r, "publish")
     \/ /\ StoreFails \/ ~CanStore(Task(r), "processing")
        /\ Step(r, "returnError")
        /\ UNCHANGED stored
  /\ UNCHANGED << brokerVars, guard, recorded, live, incidents >>

\* Variant: the handler tries again by itself.
HandleFailureInPlace(r) ==
  Step(r, "markDead") \/ Step(r, "returnError") \/ Step(r, "publish")

\* handleFailure: a permanent error is stored, any other goes to the broker.
HandleFailure(r) == Step(r, "markDead") \/ Step(r, "returnError")

\* Publisher.Publish: accepted by the platform or not; an acceptance whose reply
\* is lost looks like a failure, of either kind.
Publish(r) ==
  /\ RunAt(r, "publish")
  /\ \/ /\ live' = [live EXCEPT ![Task(r)] = @ + 1]
        /\ Step(r, "record") \/ HandleFailure(r)
     \/ /\ HandleFailure(r)
        /\ UNCHANGED live
  /\ UNCHANGED << brokerVars, guard, stored, recorded, incidents >>

\* Variant: an error of RecordPublishResult is only logged.
RecordIgnoresError(r) ==
  /\ RunAt(r, "record")
  /\ recorded' \in {recorded, recorded \union {Task(r)}}
  /\ Step(r, "markSucceeded")
  /\ UNCHANGED << brokerVars, guard, stored, live, incidents >>

RecordPublishResult(r) ==
  /\ RunAt(r, "record")
  /\ \/ /\ recorded' = recorded \union {Task(r)}
        /\ Step(r, "markSucceeded")
     \/ /\ StoreFails
        /\ Step(r, "returnError")
        /\ UNCHANGED recorded
  /\ UNCHANGED << brokerVars, guard, stored, live, incidents >>

SetSucceeded(r) ==
  /\ RunAt(r, "markSucceeded")
  /\ \/ /\ CanStore(Task(r), "succeeded")
        /\ SetStored(Task(r), "succeeded")
        /\ Step(r, "returnNil")
     \/ /\ StoreFails \/ ~CanStore(Task(r), "succeeded")
        /\ Step(r, "returnError")
        /\ UNCHANGED stored
  /\ UNCHANGED << brokerVars, guard, recorded, live, incidents >>

\* Variant: the permanent error goes to the broker as well.
SetDeadReturnsError(r) ==
  /\ RunAt(r, "markDead")
  /\ IF CanStore(Task(r), "dead") THEN SetStored(Task(r), "dead") ELSE UNCHANGED stored
  /\ Step(r, "returnError")
  /\ UNCHANGED << brokerVars, guard, recorded, live, incidents >>

\* handleFailure of a permanent error: an error of the store is only logged,
\* and the delivery ends as a success so that the broker does not retry.
SetDead(r) ==
  /\ RunAt(r, "markDead")
  /\ \/ /\ CanStore(Task(r), "dead")
        /\ SetStored(Task(r), "dead")
     \/ /\ StoreFails \/ ~CanStore(Task(r), "dead")
        /\ UNCHANGED stored
  /\ Step(r, "returnNil")
  /\ UNCHANGED << brokerVars, guard, recorded, live, incidents >>

-------------------------------------------------------------------------------
(* DLQInspector.  The broker's RunTask and DeleteTask look a message up by  *)
(* its ID, whatever state it is in by now, and refuse an active one.        *)

RetryDeadTask(t) ==
  /\ msg[t] \in {"archived", "retry"}
  /\ Incident
  /\ msg' = [msg EXCEPT ![t] = "pending"]
  /\ UNCHANGED << retried, run, guard, taskVars >>

RetryAllDeadTasks ==
  /\ \E t \in Tasks : msg[t] = "archived"
  /\ Incident
  /\ msg' = [t \in Tasks |-> IF msg[t] = "archived" THEN "pending" ELSE msg[t]]
  /\ UNCHANGED << retried, run, guard, taskVars >>

DeleteDeadTask(t) ==
  /\ msg[t] \in {"archived", "retry", "pending"}
  /\ msg' = [msg EXCEPT ![t] = "deleted"]
  /\ UNCHANGED << retried, run, guard, taskVars, incidents >>

DeleteAllDeadTasks ==
  /\ \E t \in Tasks : msg[t] = "archived"
  /\ msg' = [t \in Tasks |-> IF msg[t] = "archived" THEN "deleted" ELSE msg[t]]
  /\ UNCHANGED << retried, run, guard, taskVars, incidents >>

-------------------------------------------------------------------------------
HandlerStep(r) ==
  \/ Acquire(r) \/ SetProcessing(r) \/ Publish(r) \/ RecordPublishResult(r)
  \/ SetSucceeded(r) \/ SetDead(r) \/ Return(r)

Broker ==
  \/ \E t \in Tasks : Recover(t) \/ Reschedule(t) \/ ExpireGuard(t)
  \/ \E t \in Tasks, r \in Runs : Deliver(t, r)
  \/ \E r \in Runs : Timeout(r) \/ Crash(r) \/ Shutdown(r)

Operator ==
  \/ \E t \in Tasks : RetryDeadTask(t) \/ DeleteDeadTask(t)
  \/ RetryAllDeadTasks
  \/ DeleteAllDeadTasks

QueueNext ==
  \/ \E t \in Tasks : CreateStoredTask(t) \/ EnqueuePublish(t)
  \/ Broker
  \/ \E r \in Runs : HandlerStep(r)
  \/ Operator

QueueSpec == QueueInit /\ [][QueueNext]_queueVars

\* The goroutine of a run is scheduled, and the broker forwards retries, takes
\* up expired leases and gives a pending message to a free run: Asynq runs a
\* forwarder, a recoverer and a processor for this in every worker.  Nobody
\* has to intervene, time limits and keys need not end.
QueueFairness ==
  /\ \A r \in Runs : WF_queueVars(HandlerStep(r))
  /\ \A t \in Tasks :
       /\ WF_queueVars(Recover(t))
       /\ WF_queueVars(Reschedule(t))
       /\ SF_queueVars(\E r \in Runs : Deliver(t, r))

-------------------------------------------------------------------------------
(* Properties.                                                              *)

\* With a store that refuses illegal edges a platform never shows the content
\* of a task twice, whatever is retried, timed out, crashed, rerun or lost: the
\* edge pending -> processing, taken by HandlePublish before it publishes and
\* never returned to, works as a lock that only one run ever gets.
PostedAtMostOnce == \A t \in Tasks : live[t] <= 1

\* A task is stored as succeeded only with a post and with its result: the
\* handler records the result first and stops at the first error.
SucceededHasResult ==
  \A t \in Tasks :
    stored[t] = "succeeded" => t \in recorded /\ live[t] > 0

\* While keys outlive the runs that acquired them (handler.go:67) and the guard
\* answers, at most one run works on a task, detached runs included.
OneRunWorks ==
  \A q, r \in Runs :
    run[q].pc \in Working /\ run[r].pc \in Working /\ Task(q) = Task(r) => q = r

\* Every message that is waiting is delivered until it is done, archived or
\* deleted: no retry, crash or skipped duplicate leaves it in between.
MessagesSettle ==
  \A t \in Tasks :
    msg[t] = "pending" ~> msg[t] \in {"completed", "archived", "deleted"}

\* How often a message can still change its state: three times for each retry that
\* is left, and from there to its end.
JourneyLeft(t) ==
  LET stages == [ none |-> 4, retry |-> 4, pending |-> 3, active |-> 2,
                  archived |-> 1, completed |-> 0, deleted |-> 0 ]
  IN  3 * (MaxRetry - retried[t]) + stages[msg[t]]

\* And how many calls a handler still makes.
CallsLeft(r) ==
  LET calls == [ acquire |-> 6, setProcessing |-> 5, publish |-> 4, record |-> 3,
                 markSucceeded |-> 2, markDead |-> 2, returnNil |-> 1,
                 returnError |-> 1, free |-> 0 ]
  IN  calls[run[r].pc]

\* The counts behind MessagesSettle: a message goes back to an earlier state only by
\* spending a retry, or when it is interrupted or rerun, and a handler never goes
\* back to an earlier call, so nothing goes round in circles.
MessagesMoveOn ==
  [][/\ \A t \in Tasks :
          msg'[t] # msg[t] =>
            JourneyLeft(t)' < JourneyLeft(t) \/ incidents' > incidents
     /\ \A r \in Runs :
          ~RunAt(r, "free") /\ run'[r].pc # run[r].pc =>
            CallsLeft(r)' < CallsLeft(r)]_queueVars

\* Without a validating store and without a guard the broker delivers again, and
\* the handler posts again; but every post is paid for by a delivery: the first,
\* one for each counted retry, and one for each interruption or rerun by hand.
PostsArePaidFor ==
  \A t \in Tasks : live[t] <= 1 + retried[t] + incidents

-------------------------------------------------------------------------------
(* What the documentation says and this code does not do.                   *)

\* handler.go:79: a retryable failure is returned "for Asynq retry".  The key
\* taken by the failed delivery is still held when the retry arrives, which is
\* skipped as a duplicate and completes the message, while the task stays
\* processing and nobody works on it.
CompletedMeansSettled ==
  \A t \in Tasks :
    msg[t] = "completed" /\ (\A r \in Runs : ~IsWorking(r, t)) =>
      stored[t] \in TerminalTaskStatuses

===============================================================================
