# PostHub in TLA+

PostHub publishes one piece of content to several platforms. This directory
specifies that publishing machinery as the Go code in `src/` implements it,
model-checks it with TLC and proves its most important properties with TLAPS.
Paths without a prefix are under `src/internal/`.

## 1. Inventory of the system

| component | state it keeps | operations | talks to |
|---|---|---|---|
| status machines (`contracts/content.go`, `contracts/state.go`) | none | edges of the content and of the task lifecycle | used by every store and service |
| publish service (`publish/service.go`) | none of its own; each call's local variables | `Publish` and its helpers | content, task, attempt, post and idempotency stores, adapters through the registry |
| publish stores (`publish/storage.go`) | contents with versions, tasks with a unique content:platform, attempts, post records, idempotency keys with an expiry | create / get / update, `Claim`, `Cleanup` | called by the service, one mutex each |
| shared store (`storage/memory.go`, `storage/tx.go`) | the same tables behind one mutex, versions checked strictly, statuses not | the `storage` interfaces, `MemoryTx.Run` | called by the HTTP handlers |
| queue handler (`queue/handler.go`) | none; the guard and the task state store behind interfaces | `HandlePublish` | publisher, task state store, idempotency guard |
| idempotency guard (`queue/idempotency.go`) | key -> expiry (Redis or a map) | `Acquire`, `Release` | called by the queue handler |
| broker (Asynq, external; `queue/enqueuer.go`, `queue/worker.go`) | messages with state and retry count | enqueue, deliver, retry, archive, dead-letter operations | starts handlers |
| HTTP API (`api/handlers.go`) and web form (`web/handler.go`) | none | create content and tasks, enqueue, report status | shared store, enqueuer |
| adapters (`platform/`) | registry under a mutex; the mock counts calls | `Get`, `Validate`, `UploadAssets`, `Publish` | the outside world |
| retry policy (`contracts/policy.go`) | none | `Validate`, `CalculateBackoff` | task creation, the retry loop |
| transformation, config, logger, middleware, metrics, `cmd/` | none that the above depends on | pure functions and wiring | - |

What is hard about it, by component:

- **Publish service.** `Publish` reads a status, compares, and writes it in
  three store calls with nothing held in between; the code relies on being
  "single-threaded per content" (`service.go:390`) and nothing makes it so. An
  outcome is spread over four stores written one after another, with errors
  dropped. Keys expire while tasks live on. Platforms may accept a post and lose
  the reply. Correct means: one executor per content, no double post, no success
  without a post, records that agree, a content that always leaves *publishing*.
- **Queue.** At-least-once delivery, time limits that detach a handler without
  stopping it, crashes of a worker, and a guard key that outlives the attempt
  that took it. Correct means: at most one post per task, a message that is done
  has a task with an outcome, a failed message is really tried again.
- **HTTP API.** A request makes a dozen store calls, any of which may fail,
  while workers already run. Correct means: an accepted request leads to an
  outcome, a refused one leaves nothing half done, and a status page that stops
  asking was right to stop.
- **Stores.** Optimistic locking under concurrent writers; listings cut into pages
  by an offset while the list changes; the moment a lease ends; a transaction that
  cannot roll back. Correct means: no lost update, a listing that misses and
  repeats nothing it can be blamed for, a key with one holder at a time.
- **Retry policy and adapter.** Tasks that retry share one adapter and so its
  outage; a floating-point delay is converted to a 64-bit duration, capped and
  jittered. Correct means: a task is given up only over an outage that outlasts its
  retries, and a delay is the documented one.

The line of every one of these is in `PROJECT.json` under `hazards`.

## 2. Modules

`PublishContracts` holds the status machines (as sets of edges),
`AggregateStatus` and the kinds of failure. It has no state and the others
extend it.

`PublishService` is the core: any number of concurrent `Service.Publish` calls
for one content, over the in-memory stores of `publish/storage.go`.

| variable | in the code |
|---|---|
| `status` | `contentEntry.content.Status` of the one content |
| `task`, `attemptCount` | the stored `PublishTask` per platform (`byCombo` allows one) |
| `attempts`, `posts` | the attempt records and the post records of those tasks |
| `claimed` | keys of the idempotency store that are unexpired |
| `live` | posts visible on each platform, the truth the records are about |
| `faults` | store calls that have returned an error (bounded by `MaxFaults`) |
| `call` | per call: the next store or adapter call (`pc`), the list left, the retry loop's counter, the attempt record, the failure, the results |

Granularity: a store method holds its mutex from start to end and an adapter
call is the outside world, so each is one action; between two of them every
other call, the author (`UserMovesContent`) and the clock (`ExpireKey`) may act.
The checks that make no call (the classification of an error, the aggregation)
belong to the action they follow. Each writing store call may also return an
error (`StoreFails`). Store tables are keyed by content ID and no code path
touches two contents, so one content is enough.

`PublishPromise` is the abstract specification: a status and how often each
platform shows the content. Posts appear only while *publishing*, at most one per
platform, and *published* or *partially published* needs one that is visible.
`PublishService` implements it with `shown <- live` (`ImplementsPromise`).

`PublishQueue` is the asynchronous path: `TaskHandler.HandlePublish` run by Asynq,
at least once per message, in any number of workers.

| variable | in the code |
|---|---|
| `msg`, `retried` | state and retry count of the task's message in Redis (external) |
| `run` | one goroutine per delivery: the call `HandlePublish` makes next, its task, and whether the broker still waits for it |
| `guard` | unexpired `publish:<content>:<platform>` keys of `IdempotencyGuard` |
| `stored`, `recorded` | what `TaskStateStore` holds of a task: its status, its publish result |
| `live` | posts visible on the platform |
| `incidents` | time limits that end, crashes, shutdowns and reruns so far (bounded by `MaxIncidents`) |

`TaskStateStore` has no implementation yet and there are two stores it may wrap:
`publish/storage.go` refuses illegal status edges, `storage/memory.go` stores any.
The constant `ValidatingStore` says which; `LeaseCovers` says whether the ten
minutes of a key are longer than a run (`handler.go:67` says they are), and
`GuardFails`, `StoreFails` whether Redis and the store may return errors. A time
limit detaches a run without stopping it: the goroutine goes on and its result
is ignored.

`HttpPublish` EXTENDS `PublishQueue` and puts the HTTP handlers in front of it:
`Tasks = Requests \X Platforms`, and the two producer steps of the queue are made
by the requests.

| variable | in the code |
|---|---|
| `content`, `version` | the `Content` record of a request in `MemoryContentStore` |
| `request` | the handler: next store or enqueuer call, platforms left, tasks of the response, the answer |
| `page` | what the status page of the web UI last decided: poll again, or final |

Behind the front the queue must find what `PublishQueue` assumes of a producer;
that is the refinement `ImplementsQueue == QueueSpec`, which also carries the
theorems of the queue over.

`SharedStore` is the contents of `storage/memory.go` seen by callers that share
them: versions (optimistic locking) and listings.

| variable | in the code |
|---|---|
| `status`, `version` | status and `Version` of a stored content; contents are numbered in the order of their creation, which is the order of `CreatedAt` |
| `seen` | per writer, what it last read or was told, and decides on |
| `walk` | per reader, the listing it goes through: the offset it asks for next, what the pages have shown, and, for the properties only, what there was when it began and whether a content left or came since |

A walk asks for page after page by the limit the answer names until it reaches the
total the answer names. `MemoryTx.Run` hands the same methods to its function and
neither locks nor undoes, so that a transaction is one more writer.

`IdempotencyKeys` covers the places that keep an idempotency key: the two
implementations of `storage.IdempotencyStore`, which have the same code, and the
in-memory guard of the queue, which forgets nothing but can release.

| variable | in the code |
|---|---|
| `entity`, `expires` | `EntityID` and `ExpiresAt` of a record, or the expiry in the guard's map |
| `lease` | per client and key, the instant up to which it was granted |
| `now` | `time.Now()` in whole instants; a grant reads it twice |

`KeyLease` is what all of them promise: one holder at a time, and between two
holders a key that is free. `IdempotencyKeys` implements it with the holder of an
expired record mapped to "none" (`ImplementsLease`). The guard of `PublishQueue` is
this promise, with a holder that may be lost under a run when `LeaseCovers` is off.

`RetryLoop` is the loop of `executeWithRetry` as one adapter sees it, the mock of
`platform/mock`, together with the `RetryPolicy` it asks for delays. What the loop
writes to the stores is in `PublishService`, where the adapter is an arbitrary
outside world; here the adapter has state and the stores are left out.

| variable | in the code |
|---|---|
| `behavior` | `mock.Behavior`: which errors it returns, how long its outage lasts, whether its result is fixed |
| `sent` | `MockPlatform.attempt`, counted over all callers |
| `loop` | per task: where `executeWithRetry` is, its policy, attempt, last error, last delay, post |
| `saturates` | what the processor does to a float64 that no int64 holds: clamp it (arm64) or answer with the smallest integer (amd64) |

Durations are integers up to `MaxDuration`, floats are naturals below `Inf`, `Inf`,
or NaN; multipliers are whole numbers and the rounding of a float64 is left out.

The proofs are in `PublishServiceProofs`, `PublishServiceTaskProofs`,
`PublishServiceLogProofs`, `PublishQueueProofs`,
`HttpPublishProofs`, `SharedStoreProofs`, `IdempotencyKeysProofs` and
`RetryLoopProofs`; `MCPublishService`, `MCPublishQueue`, `MCHttpPublish`,
`MCSharedStore` and `MCRetryLoop` hold the constants of the small instances.
Definitions marked "Variant" are plausible mistakes in the code; each breaks a
property named with it in `PROJECT.json`, which shows that the property is about
that code. No action uses them.

`PublishService` and the queue are not composed: no code connects
`publish.Service` to `queue.Publisher`, the two paths exist side by side.

## 3. Runs

| run | instance | shows |
|---|---|---|
| `service_safety` | 3 calls, 2 platforms, 1 retry, stores answer | exclusive execution, one post, no invented success, the four records agree, refinement of the promise |
| `service_faults` | 2 calls, 2 platforms, 1 failing store call | the promise still holds (no second post, nothing published without one); every call returns |
| `service_edges` | 3 calls, 2 retries, lost replies; lists that are empty, doubled, or name a platform without adapter | reports, attempt log and keys at these edges; no more posts than attempts; *publishing* ends |
| `queue_lock` | 2 tasks, 3 runs, 2 retries, 3 incidents, keys may expire under a run, store and guard fail | a store that checks edges is itself a lock: one post per task |
| `http_requests` | 1 request or form, 2 platforms also named twice, 2 workers, any write or enqueue failing, 1 incident | exact answers, nothing left by an error, prepared messages, a final page that stays true, one run per task, posts paid for by deliveries, refinement of the queue; requests are answered and messages settle |
| `store_sharing` | 2 writers, 1 reader, 3 contents, 2 updates each, pages of 1 (default) and 2 (the cap), asked for as 0, 1 and 3 | no lost update; listings miss and repeat nothing by themselves |
| `key_leases` | 3 clients, a store key and a guard key, lifetimes 0 to 2, 5 instants | no broken lease, also at the instant of expiry; refinement of the lease |
| `retry_loop` | 2 tasks, 216 policies with up to 5 retries, outages of 0 to 6 calls, durations below 16, floats below 64 | who gives up and why, post numbers, delays; every loop ends |
| `service_dead`, `service_retry`, `queue_swallowed`, `http_publishing` | see section 6 | a statement of the documentation that the code does not keep |

**Bounds.** Two calls are enough for every race between callers and the third is
the publish that comes after them; two platforms give every mixture of outcomes
that `aggregateStatus` tells apart; one retry separates the first attempt, a
retry and the last attempt, and `service_edges` adds one in the middle. In the
queue three runs are a detached one, its successor and a duplicate. `MaxIncidents`
counts what may happen at any step, so each adds a whole layer of interleavings;
three let a run be timed out, rerun and crashed. Store errors of the service are
bounded by `MaxFaults`; errors of the queue and the requests are not bounded.
`MaxVersion` stops the updates of a content: two let it leave a listed status and
come back, and three contents against pages of one and two give a page in the
middle. `MaxTime` stops the clock; lifetimes 0, 1 and 2 against five instants give
expiry, the instant itself and a second claim. Requests share nothing but the
workers, and these are already shared by the two tasks of one request, so
`http_requests` takes one request. In `retry_loop` the numbers are chosen so that
five retries reach each case of the arithmetic: below the cap, capped, above
`MaxDuration`, `Inf`, and 0 times `Inf`; an outage of three calls is longer than one
task's two retries and shorter when two tasks share it.

**Symmetry** is used for interchangeable runs and writers only, in runs that check
safety only (`queue_lock`, `store_sharing`). **Deadlock** is not checked: all these
systems may stop, once every call has returned and nobody submits anything.

## 4. Fairness

`FairSpec` of the service: weak fairness of `Continue(k)` for every call. A
goroutine that runs is scheduled again, store methods hold a mutex for a bounded
time and adapters return. Nobody has to start a call, a key need not expire.

`QueueFairness`: weak fairness of every handler step, of `Recover` and `Reschedule`
(Asynq's recoverer and forwarder loops), and strong fairness of the delivery of
each message: a run that is free again and again takes it sooner or later, and
other messages may take it in between. Time limits, crashes, reruns and expiring
keys need not happen. `FairHttpSpec` adds weak fairness of `RequestStep(q)`: the
HTTP server runs the handlers it has started; no browser has to submit or poll.

`FairRetrySpec`: weak fairness of the steps of each task that has begun, as in the
service; no task has to begin. `SharedStore` and `IdempotencyKeys` promise nothing
of time: their callers come when they like.

## 5. Proofs

All theorems hold for every value of the constants that meets the named
assumptions (`ServiceAssumption`, `QueueAssumption`, `HttpAssumption`,
`StoreAssumption`, `KeyAssumption`, `RetryAssumption`, which only type the constants
and, in the last, say that policies are valid) and the condition given here. "Until a
fault" means `[](faults = 0 => ...)`: the property holds in every state, of a system
whose stores may fail, that comes before the first error of a store call; with
`MaxFaults = 0` that is every state. `StoresAnswer` is why the proofs may then take
each store call for one that works: errors are counted and never forgotten.

| theorem | condition | argument |
|---|---|---|
| `TypeCorrect` | - | `TypeOK` is inductive, split into `StoreOK` and `CallOK`: a call inside a task has a platform left, without which `Head` of its list has no type |
| `ExclusivePublishing` | - | inductive with `TypeOK`. Every step is classified as `Approach`, `Enters`, `Works` or `Leaves`; only `Enters` adds an executor, and its edge check needs a content that is not publishing, hence no executor |
| `PublishingIsOwned` | until a fault | a store error in `LeavePublishing` would strand the content; without one the single executor leaves together with the status |
| `PublishedIsPosted` | - | `PostedInv` adds that a call past an accepted post has a visible post, for between the post and the writes that report it only the label knows; a post record and a succeeded attempt are written by such a call only (`StepRecorded`) |
| `PostedOnce` | no reply is lost | `OnceInv` adds that a platform without a task shows nothing and a call that has not sent has a task and shows nothing; it rests on exclusivity, as the steps of another executor would destroy it |
| `KeepsPromise` | no reply is lost | each step maps to a step of `PublishPromise` or a stutter, by the previous three |
| `KeysHaveTasks` | until a fault | inductive with `TypeOK`: a key enters with its claimer at `CreateTask`, and that leaves a task. A store error between the two would leave a key without a task |
| `PlatformSeesProcessingTasks`, `OutcomesAreStored` | until a fault | `StatusInv`: at each label of `executeWithRetry` the stored status is the one the next transition needs. The code ignores the errors of these transitions; the invariant is why none occurs. Exclusivity keeps other calls from moving the task meanwhile |
| `ExhaustedTasksStay` | until a fault | `GivenUpFits`: a task reported as dead is stored as processing and no retry loop is at it; `CreateTask` starts none for a stored task. A fault could leave a task at *retrying*, from where dead is an edge |
| `AttemptsAreFaithful` | until a fault | `LogInv`: the length, the count and the last record of a log are a function of where its only writer is, and a log without a writer is closed |
| `OutcomeRecordsAgree` | until a fault, no reply is lost | `RecordsInv`: the records agree wherever no call is between `createTask` and `storePost`; what such a call has written so far is known from the other invariants |
| `AttemptsBoundPosts` | - | `PostsInv`: the posts of a platform are paid for by the iterations of its one retry loop, which CreateTask starts once for all calls; neither faults, lost replies nor expired keys start it again |
| `CallsAreFinite` | - | `StepsAreCounted`, `CallsAdvance`: each step of a call lowers `StepsLeft`, seven for each attempt left, and nobody else touches it. `AttemptsInvariant` bounds the loop variable |
| `QueueTypeCorrect` | - | strengthened by `AttachedIsBusy`: a broker waits only for a run that has a task |
| `PostedOncePerTask` | `ValidatingStore` | `StatusLocksTask`: `pending -> processing` is taken by one run only and never again, so a run past that edge owns its task and a post means the edge was taken |
| `AbandonedTasksStay` | `ValidatingStore` | a task left at *processing* by its run has no edge a delivery takes: `StatusWriters` says who writes a status, and none of them can |
| `OneRunPerTask` | `LeaseCovers`, guard answers | `WorkersHoldKeys`: who works holds the key, so nobody else acquires it |
| `SuccessHasResult` | - | `ResultsInHand`: past `RecordPublishResult` the result and the post exist; neither is ever taken back |
| `DeliveriesPayForPosts` | finitely many runs | `AllPaidFor`: live posts, runs that have not posted yet and a message that is due are together at most one more than retries and incidents; `ExclusiveDelivery` says that an active message has at most one attached run |
| `MessagesAdvance` | - | `MessageMoves`: a message comes back to an earlier state only with a retry spent or an incident counted; `HandlerGoesOn`: a handler never goes back to an earlier call |
| `HttpTypeCorrect` | - | a request under way has a platform left |
| `HttpRefinesQueue` | - | each step of a request is a producer step of the queue or a stutter |
| `ResponseMatchesStore`, `FailureLeavesNothing`, `MessagesArePrepared` | - | `HttpInvariant`: `Bookkeeping` says which tasks exist at each label of a request (created ones are listed, or are about to be), `RunsHaveMessages` and `EnqueuesPrepared` that workers touch only tasks that were enqueued by then |
| `FinalPagesStayTrue` | - | `OneDelivery` (about the queue alone): until the first interruption a message has one run, and an outcome is stored by the last store call of that run, so nothing can overwrite it even in a store that checks no edges |
| `OneRunPerHttpTask` | as `OneRunPerTask` | through the refinement |
| `QueuePromisesHold` | finitely many runs | the other theorems of the queue through the refinement |
| `RequestsAdvance` | - | `RequestGoesOn`: a request makes three calls and two for each platform of its list, and errors only take it forward |
| `StoreTypeCorrect` | - | a content has a version exactly when it exists |
| `NoLostUpdate` | - | `VersionInvariant`: nobody knows a version from the future, so that a new one is known only to its writer |
| `ListingIsComplete`, `ListingIsOnce` | - | `WalkInvariant`: what a walk owes lies at or behind its offset, what it has shown lies before it. The place of a content is the number of newer ones, which only grows as contents come and only shrinks as they leave (`AboveGrows`, by cardinality of subsets) |
| `KeyTypeCorrect`, `LeaseIsExclusive` | - | `LeaseIsRecord`: a lease in force is the record of the key, which every other writer of the record must find expired |
| `KeysAreLeased` | - | each step maps to a grant, to the end of some leases, or to a stutter: the clock ends all that expire at that instant |
| `RetryTypeCorrect` | - | whatever the policy computes passes the conversion, whose results are durations; nothing has to be known of the power |
| `ShortOutagesAreSurvived`, `PostsAreDistinct` | - | `InOutage`: a task that goes on has made no more calls than the adapter has counted, and all of them inside the outage; `Numbered`: no post has a number the adapter has not reached |
| `DelaysFollowTheFormula` | numbers fit | `BackoffFollowsFormula`: the float, the cap, the jitter and the conversion one after another |
| `BackoffGrows` | no jitter, numbers fit | the powers of a multiplier of at least one grow, and the cap keeps the order |
| `LongBackoffsUnderflow` | the processor does not clamp | the conversion passes the cap; `2^n > n` shows that every doubling policy gets there |
| `LoopsAreFinite` | - | each step of a task lowers three steps for each retry left, and the attempts stay within the policy |

Only model-checked: the liveness properties (`CallsReturn`, `PublishingEnds`,
`RequestsAnswered`, `MessagesSettle`, `LoopsEnd`), since neither fairness nor
ENABLED is within the prover's reach. Half of their argument is: `CallsAreFinite`,
`RequestsAdvance`, `MessagesAdvance` and `LoopsAreFinite` prove for all constants
that each has a natural number that every step lowers (for a message, every step
that is not an interruption), so that nothing goes round in circles. What is left
to the runs is that a step is always enabled until the end, and taken because of
fairness. Every invariant, action property and refinement of the passing runs is
proved. `ExhaustedIsProcessing` and `Abandoned` have no run either: TLC finds the first
kept on the instance of `service_dead` with one fault. The counts themselves (`StepsAreCounted`, `CallsAdvance`, `MessagesMoveOn`,
`RequestsMoveOn`, `LoopsAdvance`) and `DelaysGrow`, `BackoffUnderflows` have no run of
their own; TLC finds them kept on the instances of `service_edges`,
`service_faults`, `queue_lock` (with a store that checks nothing), `http_requests` and
`retry_loop`.

`Power` is a recursive function. That it satisfies its equation, that powers grow and
that `Power(2, n) > n` are proved by induction in the form of a set
(`NaturalInduction`: a set that holds 0 and every successor holds all naturals),
which rests on `NatLessThanWellFounded` of the library.

## 6. Where the code differs from what is said of it

With a run that shows it:

- `service_dead`: `Publish` reports *dead* after the last retry, the store refuses
  `processing -> dead` and the error is dropped (`publish/service.go:343`).
  `ExhaustedTasksStay` proves that until a store fails this is the fate of every
  exhausted task: stored as *processing*, whoever publishes the content again.
- `service_retry`: publishing a partially published content again answers with
  the old failure; the platform is never contacted (`publish/service.go:163`).
- `queue_swallowed`: a retry meets the key of the failed delivery, is skipped as
  a duplicate, and completes the message of an unfinished task (`queue/handler.go:101`).
  `AbandonedTasksStay` proves that with a store that checks edges nothing can finish
  such a task: no redelivery after the key has expired, and no rerun by hand.
- `http_publishing`: nothing on the queue's path moves a content out of
  *publishing* (`queue/handler.go:130`).

Met while modelling, without a run:

- Version 0 in `service.go:395` switches optimistic locking off; exclusivity rests
  on the edge check of the store alone.
- The final status covers the last list of platforms only (`service.go:104`): a
  content published on one platform and then failing on another becomes *failed*.
- A lost reply is posted again by the retry loop (`service.go:303`), which is why
  `PostedOnce` excludes it.
- Errors that are not a `PlatformError`, a rate limit or an expired context for
  example, end a task for good (`service.go:325`).
- The message of the last retry is archived and its task stays unfinished
  (`queue/handler.go:168`; `docs/architecture/queue-workflow.md:83` has it dead);
  and `processing -> dead` (`handler.go:151`) is not an edge of the task machine.
- After its key has expired a message runs again, whatever was published
  (`handler.go:111`); `docs/architecture/idempotency-strategy.md:319` expects that "retry after success skips publish". Only a store that
  checks edges stops it, and the shared store does not: there a redelivery makes
  a finished task active again.
- Submitting a form twice makes two contents, and no key covers both
  (`idempotency-strategy.md:73-79`).
- The web form creates tasks and never enqueues them, so its page polls for ever;
  the enqueuer `cmd/api` wires in does nothing either; an enqueue error is logged
  and the client still reads *202* (`api/handlers.go:121`).
- One failed read makes the status page final, for an empty list has no active task
  (`web/handler.go:164`); and a redelivery after a final page can make a task active
  again. `FinalPageStaysTrue` therefore speaks of pages read from the store and of
  messages nobody interrupts or reruns.
- `MemoryTx.Run` neither rolls back nor isolates: its function gets the ordinary
  stores, each call takes the lock for itself. `storage/memory.go:508-509` speaks of
  "serializable isolation" and `storage/tx.go:13` says that a transaction "rolls back
  on any error".
- `publish/storage.go` lists contents (`:75`), tasks (`:176`) and attempts (`:280`) in
  the order of a map, another one in every call, though `storage/stores.go:74` has
  attempts "ordered by attempt number". `WalkMissesNothing` fails for such a listing.
- Two stores for one interface: the shared one refuses version 0, which
  `service.go:395` always passes, and overwrites a second post record that
  `publish/storage.go:313` refuses as a conflict.
- The backoff overflows: from the 34th retry of a one-second policy on, the float64
  does not fit an int64. On amd64 the conversion answers with the smallest integer,
  which is not above the cap, so that the delay is negative instead of `MaxDelay`
  (`contracts/policy.go:68`, against `:17`). The default policy stays far below, no
  caller validates another one, and the delay is only logged (`service.go:351`).
  `LongBackoffsUnderflow` proves it of every policy that at least doubles.
- A lifetime of 0 never ends in Redis (`SETNX` without an expiry,
  `queue/idempotency.go:46`) and ends at once in the in-memory guard (`:86`).
  `handler.go:69` passes ten minutes.
- The in-memory guard never removes an expired entry (`queue/idempotency.go:82`), and
  `Release` deletes the key whoever holds it by then (`:95`).

## 7. Not modelled, and the plan

Not modelled: `transform/` and its formats (pure text conversion without state),
configuration (read once at start-up), logging and metrics (nothing reads them
back), `cmd/` (wiring and signals; `cmd/worker` is a stub), templates. Partly: the
platform registry is filled at start-up and is a constant of `PublishService`; the
tables of attempts, posts and assets in `storage/memory.go` have no caller; a
transaction is a client of `SharedStore`, without the rollback it does not have.

Next, in this order:

1. Two services that share one `SharedStore`: `HttpPublish` over its versions.
2. `PublishQueue` over `KeyLease` instead of its own `guard`.
