---------------------------- MODULE PublishService ----------------------------
(***************************************************************************)
(* internal/publish: Service.Publish and the stores it drives.             *)
(*                                                                         *)
(* Several goroutines (Calls) run Publish for one content.  Every store    *)
(* method and every adapter call is one atomic step, because a store       *)
(* method holds its mutex throughout and an adapter is the outside world;  *)
(* between two of them the calls interleave freely.  The stores are keyed  *)
(* by content ID and no step touches two contents, so one content is       *)
(* modelled.                                                               *)
(*                                                                         *)
(* call[k].pc names the store or adapter call that k makes next:           *)
(*                                                                         *)
(*   idle -> recheck -> enter -> loop -> leave -> returned                 *)
(*                                ^ |                                      *)
(*                  one platform  | v                                      *)
(*      (lookup) createTask count openAttempt startProcessing prepare send *)
(*      then markSucceeded closeSucceeded storePost, markRejected          *)
(*      closeRejected, or closeFailed and markFailed, markDead, or         *)
(*      markRetrying and back to count                                     *)
(***************************************************************************)
EXTENDS PublishContracts

CONSTANTS
  Platforms,    \* platform names an intent can list
  Registered,   \* the ones the registry has an adapter for
  Calls,        \* the Publish calls made during a behaviour
  Intents,      \* the platform lists a caller may pass
  MaxRetries,   \* RetryPolicy.MaxRetries of every task
  MaxFaults,    \* bound: how many store calls may return an error
  ReplyLoss     \* may a platform accept a post and the caller see an error?

ASSUME ServiceAssumption ==
  /\ Registered \subseteq Platforms
  /\ Intents \subseteq Seq(Platforms)
  /\ MaxRetries \in Nat
  /\ MaxFaults \in Nat
  /\ ReplyLoss \in BOOLEAN

VARIABLES
  status,        \* status of the content in the content store
  task,          \* platform -> status of its stored task, or "none"
  attemptCount,  \* platform -> AttemptCount of its task
  attempts,      \* platform -> its attempt records, in order of creation
  posts,         \* platforms whose task has a platform post record
  claimed,       \* platforms whose idempotency key is claimed and unexpired
  live,          \* platform -> posts visible on the platform itself
  faults,        \* store calls that have returned an error so far
  call           \* local state of each Publish call

vars == << status, task, attemptCount, attempts, posts, claimed, live, faults,
           call >>

auditVars == << attempts, posts >>

\* The labels at which the call is inside one platform's task, in the order
\* of executePlatformTask and executeWithRetry.
BeforeSend ==
  { "count", "openAttempt", "startProcessing", "prepare", "send",
    "markRejected", "closeRejected", "closeFailed", "markFailed", "markDead",
    "markRetrying" }

AfterPost == { "markSucceeded", "closeSucceeded", "storePost" }

InTask == {"lookup", "createTask"} \union BeforeSend \union AfterPost

\* From a successful transition to publishing to the final transition.
Executing == {"loop", "leave"} \union InTask

Finished == {"returned", "rejected"}

Labels == {"idle", "recheck", "enter"} \union Executing \union Finished

Attempt == [number : Nat, status : {"processing", "succeeded", "failed"}]

Result == [platform : Platforms, status : TaskStatuses]

CallState ==
  [ pc      : Labels,
    from    : ContentStatuses \union {"none"},  \* content.Status read first
    todo    : Seq(Platforms),     \* platforms left; the head is being executed
    attempt : Nat,                \* loop variable of executeWithRetry
    rec     : Nat,                \* attemptRec: index in attempts, 0 for nil
    failure : FailureKinds,       \* what errors.As found in the last failure
    results : Seq(Result) ]       \* taskStatuses

TypeOK ==
  /\ status \in ContentStatuses
  /\ task \in [Platforms -> TaskStatuses \union {"none"}]
  /\ attemptCount \in [Platforms -> Nat]
  /\ attempts \in [Platforms -> Seq(Attempt)]
  /\ posts \subseteq Platforms
  /\ claimed \subseteq Registered
  /\ live \in [Platforms -> Nat]
  /\ faults \in 0 .. MaxFaults
  /\ call \in [Calls -> CallState]
  /\ \A k \in Calls : call[k].pc \in InTask => call[k].todo # << >>

Init ==
  /\ status = "draft"
  /\ task = [p \in Platforms |-> "none"]
  /\ attemptCount = [p \in Platforms |-> 0]
  /\ attempts = [p \in Platforms |-> << >>]
  /\ posts = {}
  /\ claimed = {}
  /\ live = [p \in Platforms |-> 0]
  /\ faults = 0
  /\ call = [k \in Calls |->
               [ pc |-> "idle", from |-> "none", todo |-> << >>, attempt |-> 0,
                 rec |-> 0, failure |-> "permanent", results |-> << >> ]]

-------------------------------------------------------------------------------
(* Helpers.                                                                 *)

At(k, label) == call[k].pc = label

Goto(k, label) == call' = [call EXCEPT ![k].pc = label]

Platform(k) == Head(call[k].todo)

StoreWorks == UNCHANGED faults

StoreFails == faults < MaxFaults /\ faults' = faults + 1

\* The task status of the current platform is appended to taskStatuses and the
\* loop over intent.Platforms moves on.
Report(k, s) ==
  call' = [call EXCEPT
             ![k].pc = "loop",
             ![k].todo = Tail(@),
             ![k].results = Append(@, [platform |-> Platform(k), status |-> s])]

\* MemoryPublishTaskStore.UpdateTaskStatus: an edge the task machine does not
\* have is an error and changes nothing.  Every caller ignores or only logs
\* the error, so it has the same effect as a failing store.
UpdateTaskStatus(p, to) ==
  \/ /\ StoreWorks
     /\ task' = IF TaskCanTransition(task[p], to)
                THEN [task EXCEPT ![p] = to] ELSE task
  \/ /\ StoreFails
     /\ UNCHANGED task

\* MemoryPublishAttemptStore.CompleteAttempt, called when attemptRec # nil.
CompleteAttempt(k, s) ==
  \/ /\ StoreWorks
     /\ attempts' = IF call[k].rec = 0 THEN attempts
                    ELSE [attempts EXCEPT
                            ![Platform(k)][call[k].rec].status = s]
  \/ /\ call[k].rec # 0
     /\ StoreFails
     /\ UNCHANGED attempts

-------------------------------------------------------------------------------
(* Service.Publish: entering the publishing status.                         *)

\* Lines 75-87: the content is read and its status checked; it is checked again
\* in transitionContent, and only the store's own check is atomic with the
\* write.
Fetch(k, intent) ==
  /\ At(k, "idle")
  /\ \/ /\ StoreWorks
        /\ call' = [call EXCEPT
                      ![k].pc = IF ContentCanTransition(status, "publishing")
                                THEN "recheck" ELSE "rejected",
                      ![k].from = status,
                      ![k].todo = intent]
     \/ /\ StoreFails
        /\ Goto(k, "rejected")
  /\ UNCHANGED << status, task, attemptCount, auditVars, claimed, live >>

\* transitionContent re-reads the content and compares it with `from`.
Recheck(k) ==
  /\ At(k, "recheck")
  /\ \/ /\ StoreWorks
        /\ Goto(k, IF status = call[k].from THEN "enter" ELSE "rejected")
     \/ /\ StoreFails
        /\ Goto(k, "rejected")
  /\ UNCHANGED << status, task, attemptCount, auditVars, claimed, live >>

\* Variant: the store writes the status without checking the edge, as
\* storage.MemoryStorage does.
EnterPublishingUnchecked(k) ==
  /\ At(k, "enter")
  /\ StoreWorks
  /\ status' = "publishing"
  /\ Goto(k, "loop")
  /\ UNCHANGED << task, attemptCount, auditVars, claimed, live >>

\* updateContentStatus passes version 0, so UpdateContent only checks the edge.
EnterPublishing(k) ==
  /\ At(k, "enter")
  /\ \/ /\ StoreWorks
        /\ ContentCanTransition(status, "publishing")
        /\ status' = "publishing"
        /\ Goto(k, "loop")
     \/ /\ StoreWorks
        /\ ~ContentCanTransition(status, "publishing")
        /\ Goto(k, "rejected")
        /\ UNCHANGED status
     \/ /\ StoreFails
        /\ Goto(k, "rejected")
        /\ UNCHANGED status
  /\ UNCHANGED << task, attemptCount, auditVars, claimed, live >>

-------------------------------------------------------------------------------
(* executePlatformTask: one platform of the intent.                         *)

\* Variant: the key is claimed before the registry is asked for the adapter.
ClaimBeforeRegistry(k) ==
  /\ At(k, "loop")
  /\ call[k].todo # << >>
  /\ StoreWorks
  /\ claimed' = claimed \union {Platform(k)}
  /\ IF Platform(k) \notin Registered THEN Report(k, "failed")
     ELSE Goto(k, IF Platform(k) \in claimed THEN "lookup" ELSE "createTask")
  /\ UNCHANGED << status, task, attemptCount, auditVars, live >>

\* Registry lookup (no adapter: the task fails with no store call), then
\* IdempotencyStore.Claim of "<content>:<platform>".
ClaimKey(k) ==
  /\ At(k, "loop")
  /\ call[k].todo # << >>
  /\ \/ /\ Platform(k) \notin Registered
        /\ Report(k, "failed")
        /\ UNCHANGED << claimed, faults >>
     \/ /\ Platform(k) \in Registered \ claimed
        /\ StoreWorks
        /\ claimed' = claimed \union {Platform(k)}
        /\ Goto(k, "createTask")
     \/ /\ Platform(k) \in Registered \intersect claimed
        /\ StoreWorks
        /\ Goto(k, "lookup")
        /\ UNCHANGED claimed
     \/ /\ Platform(k) \in Registered
        /\ StoreFails
        /\ Report(k, "failed")
        /\ UNCHANGED claimed
  /\ UNCHANGED << status, task, attemptCount, auditVars, live >>

\* Variant: a duplicate waits until the existing task has an outcome.
LookupWaits(k) ==
  /\ At(k, "lookup")
  /\ task[Platform(k)] \in TerminalTaskStatuses
  /\ StoreWorks
  /\ Report(k, task[Platform(k)])
  /\ UNCHANGED << status, task, attemptCount, auditVars, claimed, live >>

\* A refused claim, or a conflict in CreateTask: the status of the existing
\* task is the result; "failed" if the task store has none or returns an error.
LookupExisting(k) ==
  /\ At(k, "lookup")
  /\ \/ /\ StoreWorks
        /\ Report(k, IF task[Platform(k)] = "none" THEN "failed"
                     ELSE task[Platform(k)])
     \/ /\ StoreFails
        /\ Report(k, "failed")
  /\ UNCHANGED << status, task, attemptCount, auditVars, claimed, live >>

\* Variant: CreateTask replaces an existing task of the same platform.
CreateTaskOverwrites(k) ==
  /\ At(k, "createTask")
  /\ StoreWorks
  /\ task' = [task EXCEPT ![Platform(k)] = "pending"]
  /\ call' = [call EXCEPT ![k].pc = "count", ![k].attempt = 0]
  /\ UNCHANGED << status, attemptCount, auditVars, claimed, live >>

\* CreateTask: byCombo admits one task per content and platform.
CreateTask(k) ==
  /\ At(k, "createTask")
  /\ \/ /\ task[Platform(k)] = "none"
        /\ StoreWorks
        /\ task' = [task EXCEPT ![Platform(k)] = "pending"]
        /\ call' = [call EXCEPT ![k].pc = "count", ![k].attempt = 0]
     \/ /\ task[Platform(k)] # "none"
        /\ StoreWorks
        /\ Goto(k, "lookup")
        /\ UNCHANGED task
     \/ /\ StoreFails
        /\ Report(k, "failed")
        /\ UNCHANGED task
  /\ UNCHANGED << status, attemptCount, auditVars, claimed, live >>

-------------------------------------------------------------------------------
(* executeWithRetry: one iteration is count ... closeFailed / storePost.    *)

IncrementAttemptCount(k) ==
  /\ At(k, "count")
  /\ \/ /\ StoreWorks
        /\ attemptCount' = [attemptCount EXCEPT ![Platform(k)] = @ + 1]
     \/ /\ StoreFails
        /\ UNCHANGED attemptCount
  /\ Goto(k, "openAttempt")
  /\ UNCHANGED << status, task, auditVars, claimed, live >>

\* CreateAttempt; on an error attemptRec is nil for this iteration.
CreateAttempt(k) ==
  /\ At(k, "openAttempt")
  /\ \/ /\ StoreWorks
        /\ attempts' = [attempts EXCEPT ![Platform(k)] =
                          Append(@, [number |-> call[k].attempt + 1,
                                     status |-> "processing"])]
        /\ call' = [call EXCEPT ![k].pc = "startProcessing",
                                ![k].rec = Len(attempts[Platform(k)]) + 1]
     \/ /\ StoreFails
        /\ call' = [call EXCEPT ![k].pc = "startProcessing", ![k].rec = 0]
        /\ UNCHANGED attempts
  /\ UNCHANGED << status, task, attemptCount, posts, claimed, live >>

\* Variant: a failure to start processing is not recorded.
StartProcessingSkipped(k) ==
  /\ At(k, "startProcessing")
  /\ Goto(k, "prepare")
  /\ UNCHANGED << status, task, attemptCount, auditVars, claimed, live, faults >>

StartProcessing(k) ==
  /\ At(k, "startProcessing")
  /\ UpdateTaskStatus(Platform(k), "processing")
  /\ Goto(k, "prepare")
  /\ UNCHANGED << status, attemptCount, auditVars, claimed, live >>

\* adapter.Validate and adapter.UploadAssets; either may refuse the content.
Prepare(k) ==
  /\ At(k, "prepare")
  /\ \/ Goto(k, "send")
     \/ Goto(k, "markRejected")
  /\ UNCHANGED << status, task, attemptCount, auditVars, claimed, live, faults >>

MarkRejected(k) ==
  /\ At(k, "markRejected")
  /\ UpdateTaskStatus(Platform(k), "failed")
  /\ Goto(k, "closeRejected")
  /\ UNCHANGED << status, attemptCount, auditVars, claimed, live >>

CloseRejected(k) ==
  /\ At(k, "closeRejected")
  /\ CompleteAttempt(k, "failed")
  /\ Report(k, "failed")
  /\ UNCHANGED << status, task, attemptCount, posts, claimed, live >>

\* adapter.Publish: accepted and reported; refused; or, with ReplyLoss,
\* accepted while the caller sees a transient error such as a timeout.
Send(k) ==
  /\ At(k, "send")
  /\ \/ /\ live' = [live EXCEPT ![Platform(k)] = @ + 1]
        /\ Goto(k, "markSucceeded")
     \/ /\ \E f \in FailureKinds :
             call' = [call EXCEPT ![k].pc = "closeFailed", ![k].failure = f]
        /\ UNCHANGED live
     \/ /\ ReplyLoss
        /\ live' = [live EXCEPT ![Platform(k)] = @ + 1]
        /\ \E f \in FailureKinds \ {"permanent"} :
             call' = [call EXCEPT ![k].pc = "closeFailed", ![k].failure = f]
  /\ UNCHANGED << status, task, attemptCount, auditVars, claimed, faults >>

MarkSucceeded(k) ==
  /\ At(k, "markSucceeded")
  /\ UpdateTaskStatus(Platform(k), "succeeded")
  /\ Goto(k, "closeSucceeded")
  /\ UNCHANGED << status, attemptCount, auditVars, claimed, live >>

CloseSucceeded(k) ==
  /\ At(k, "closeSucceeded")
  /\ CompleteAttempt(k, "succeeded")
  /\ Goto(k, "storePost")
  /\ UNCHANGED << status, task, attemptCount, posts, claimed, live >>

\* Variant: no platform post record is written.
StorePostSkipped(k) ==
  /\ At(k, "storePost")
  /\ Report(k, "succeeded")
  /\ UNCHANGED << status, task, attemptCount, auditVars, claimed, live, faults >>

\* CreatePlatformPost; its error (a conflict or a failing store) is logged and
\* the task is reported as succeeded all the same.
StorePost(k) ==
  /\ At(k, "storePost")
  /\ \/ /\ StoreWorks
        /\ posts' = posts \union {Platform(k)}
     \/ /\ StoreFails
        /\ UNCHANGED posts
  /\ Report(k, "succeeded")
  /\ UNCHANGED << status, task, attemptCount, attempts, claimed, live >>

\* Variant: one retry too many.
AfterFailureOnceMore(k) ==
  IF call[k].failure # "retryable" THEN "markFailed"
  ELSE IF call[k].attempt > MaxRetries THEN "markDead"
  ELSE "markRetrying"

\* Only a PlatformError flagged Retryable is retried, and only while retries
\* are left.
AfterFailure(k) ==
  IF call[k].failure # "retryable" THEN "markFailed"
  ELSE IF call[k].attempt >= MaxRetries THEN "markDead"
  ELSE "markRetrying"

\* Variant: the attempt record stays open when the platform refuses.
CloseFailedSkipped(k) ==
  /\ At(k, "closeFailed")
  /\ Goto(k, AfterFailure(k))
  /\ UNCHANGED << status, task, attemptCount, auditVars, claimed, live, faults >>

\* The failed attempt is completed, then the failure decides what follows.
CloseFailed(k) ==
  /\ At(k, "closeFailed")
  /\ CompleteAttempt(k, "failed")
  /\ Goto(k, AfterFailure(k))
  /\ UNCHANGED << status, task, attemptCount, posts, claimed, live >>

MarkFailed(k) ==
  /\ At(k, "markFailed")
  /\ UpdateTaskStatus(Platform(k), "failed")
  /\ Report(k, "failed")
  /\ UNCHANGED << status, attemptCount, auditVars, claimed, live >>

\* Variant: exhaustion is reported as a plain failure.
MarkDeadReportsFailed(k) ==
  /\ At(k, "markDead")
  /\ UpdateTaskStatus(Platform(k), "dead")
  /\ Report(k, "failed")
  /\ UNCHANGED << status, attemptCount, auditVars, claimed, live >>

\* Retries exhausted: "dead" is reported whatever the store says of it.
MarkDead(k) ==
  /\ At(k, "markDead")
  /\ UpdateTaskStatus(Platform(k), "dead")
  /\ Report(k, "dead")
  /\ UNCHANGED << status, attemptCount, auditVars, claimed, live >>

\* The next iteration starts at once: the backoff is computed and logged only.
MarkRetrying(k) ==
  /\ At(k, "markRetrying")
  /\ UpdateTaskStatus(Platform(k), "retrying")
  /\ call' = [call EXCEPT ![k].pc = "count", ![k].attempt = @ + 1]
  /\ UNCHANGED << status, attemptCount, auditVars, claimed, live >>

-------------------------------------------------------------------------------
(* Service.Publish: leaving the publishing status.                          *)

\* transitionContent reads the content back; it must still be publishing.
VerifyPublishing(k) ==
  /\ At(k, "loop")
  /\ call[k].todo = << >>
  /\ \/ /\ StoreWorks
        /\ Goto(k, IF status = "publishing" THEN "leave" ELSE "returned")
     \/ /\ StoreFails
        /\ Goto(k, "returned")
  /\ UNCHANGED << status, task, attemptCount, auditVars, claimed, live >>

FinalStatus(k) ==
  AggregateStatus([i \in DOMAIN call[k].results |-> call[k].results[i].status])

\* The final transition; an error is logged and the results are returned.
LeavePublishing(k) ==
  /\ At(k, "leave")
  /\ \/ /\ StoreWorks
        /\ status' = IF ContentCanTransition(status, FinalStatus(k))
                     THEN FinalStatus(k) ELSE status
     \/ /\ StoreFails
        /\ UNCHANGED status
  /\ Goto(k, "returned")
  /\ UNCHANGED << task, attemptCount, auditVars, claimed, live >>

-------------------------------------------------------------------------------
(* The environment.                                                         *)

\* The user finalises, resets or archives the content through UpdateContent.
UserMovesContent(to) ==
  /\ to \in { "ready", "draft", "archived" }
  /\ ContentCanTransition(status, to)
  /\ status' = to
  /\ UNCHANGED << task, attemptCount, auditVars, claimed, live, faults, call >>

\* The 24 h lease of an idempotency key ends; Claim then treats the key as free.
ExpireKey(p) ==
  /\ p \in claimed
  /\ claimed' = claimed \ {p}
  /\ UNCHANGED << status, task, attemptCount, auditVars, live, faults, call >>

-------------------------------------------------------------------------------
\* A call that has begun: every step but its start.
Continue(k) ==
  \/ Recheck(k) \/ EnterPublishing(k)
  \/ ClaimKey(k) \/ LookupExisting(k) \/ CreateTask(k)
  \/ IncrementAttemptCount(k) \/ CreateAttempt(k) \/ StartProcessing(k)
  \/ Prepare(k) \/ MarkRejected(k) \/ CloseRejected(k) \/ Send(k)
  \/ MarkSucceeded(k) \/ CloseSucceeded(k) \/ StorePost(k)
  \/ CloseFailed(k) \/ MarkFailed(k) \/ MarkDead(k) \/ MarkRetrying(k)
  \/ VerifyPublishing(k) \/ LeavePublishing(k)

Next ==
  \/ \E k \in Calls : Continue(k)
  \/ \E k \in Calls, intent \in Intents : Fetch(k, intent)
  \/ \E to \in ContentStatuses : UserMovesContent(to)
  \/ \E p \in Platforms : ExpireKey(p)

Spec == Init /\ [][Next]_vars

\* A goroutine that has started is scheduled again, and the stores and the
\* adapters return: weak fairness of each call.  Nobody has to start a call,
\* and keys need not expire.
FairSpec == Spec /\ \A k \in Calls : WF_vars(Continue(k))

-------------------------------------------------------------------------------
(* Properties.                                                              *)

Executor(k) == call[k].pc \in Executing

\* The content is publishing while a call executes its platforms, and no two
\* calls execute at once.  service.go:390 relies on "the service is single-
\* threaded per content", but nothing serialises the calls: two of them may
\* both pass the checks of Fetch and Recheck.  Only the edge check inside
\* UpdateContent lets one through.
PublishingIsExclusive ==
  /\ \A k \in Calls : Executor(k) => status = "publishing"
  /\ \A j, k \in Calls : Executor(j) /\ Executor(k) => j = k

\* While stores answer, a publishing content has a call at work on it: no
\* sequence of calls strands it (publish-state-machine.md:43, "at least one
\* publish task is in progress").
PublishingHasExecutor ==
  status = "publishing" => \E k \in Calls : Executor(k)

\* A platform never shows the content twice, however often it is published and
\* whatever becomes of the 24 h keys: the claim and the uniqueness of the task
\* together make executePlatformTask send at most one accepted post.
AtMostOnePost == \A p \in Platforms : live[p] <= 1

\* Where replies get lost the retry loop posts again (service.go:303), but no more
\* often than the policy allows attempts, across all calls that ever publish the
\* content: the loop runs once for a platform, in whichever call it was.
PostsAreBounded == \A p \in Platforms : live[p] <= MaxRetries + 1

\* The statuses that speak of a success: of the content, of tasks, of results.
OutcomesArePosted ==
  /\ status \in {"published", "partially_published"} =>
       \E p \in Platforms : live[p] > 0
  /\ \A p \in Platforms : task[p] = "succeeded" => live[p] > 0
  /\ \A k \in Calls : \A i \in DOMAIN call[k].results :
       call[k].results[i].status = "succeeded" =>
         live[call[k].results[i].platform] > 0

\* The records that do: the platform post and the attempt.
RecordsArePosted ==
  \A p \in Platforms :
    \/ p \in posts
    \/ \E i \in DOMAIN attempts[p] : attempts[p][i].status = "succeeded"
    => live[p] > 0

\* No success is invented, whichever store fails: a content reported as published or
\* partially published is visible on at least one platform (aggregateStatus never
\* turns an empty or failed list into one), and so is every platform for which a
\* task, a result, an attempt or a post record says so.
PublishedMeansPosted == OutcomesArePosted /\ RecordsArePosted

\* What Publish reports of a platform it has an adapter for is what the task
\* store says, and keeps saying, for the outcomes succeeded and failed.
ReportedOutcomeIsStored ==
  \A k \in Calls : \A i \in DOMAIN call[k].results :
    LET r == call[k].results[i]
    IN  r.platform \in Registered /\ r.status \in {"succeeded", "failed"} =>
          task[r.platform] = r.status

Resting == \A k \in Calls : ~Executor(k)

\* Between publishes the four records of an outcome agree: a post is visible
\* exactly when its task succeeded, when a platform post record exists and
\* when one of its attempts succeeded.
RecordsAgreeAtRest ==
  Resting =>
    \A p \in Platforms :
      LET succeeded == task[p] = "succeeded"
      IN  /\ succeeded <=> live[p] > 0
          /\ succeeded <=> p \in posts
          /\ succeeded <=> \E i \in DOMAIN attempts[p] :
                             attempts[p][i].status = "succeeded"

\* The attempt log is a faithful history: numbered 1, 2, ... without a gap, at
\* most MaxRetries + 1 long and in step with AttemptCount, every attempt but
\* the last failed, and none left open once its call has moved on.
AttemptLogIsFaithful ==
  \A p \in Platforms :
    LET log == attempts[p]
        counted(k) == At(k, "openAttempt") /\ Platform(k) = p
        open(k) == call[k].pc \in InTask /\ Platform(k) = p
    IN  /\ Len(log) <= MaxRetries + 1
        /\ \A i \in DOMAIN log : log[i].number = i
        /\ attemptCount[p] =
             Len(log) + (IF \E k \in Calls : counted(k) THEN 1 ELSE 0)
        /\ \A i \in DOMAIN log : i < Len(log) => log[i].status = "failed"
        /\ (\A k \in Calls : ~open(k)) =>
             \A i \in DOMAIN log : log[i].status # "processing"

\* A key that is held has a task behind it, except while its claimer is about
\* to create it: a refused claim can always be answered from the task store.
HeldKeyHasTask ==
  \A p \in claimed :
    \/ task[p] # "none"
    \/ \E k \in Calls : At(k, "createTask") /\ Platform(k) = p

\* A platform is contacted only for a task the store shows as processing, so a
\* reader of the store never sees a publish of a pending or finished task.
SendsOnlyWhileProcessing ==
  [][\A p \in Platforms : live'[p] # live[p] => task[p] = "processing"]_vars

\* Every call that has begun returns: the retry loop ends, and no call waits
\* for another.
CallsReturn ==
  \A k \in Calls : ~At(k, "idle") ~> call[k].pc \in Finished

\* How many steps a call that has begun can still make: seven for each attempt,
\* three more for each platform, and the transitions before and after the list.
StepsPerPlatform == 7 * (MaxRetries + 1) + 3

StepsInTask(label, attempt) ==
  LET position == [ count |-> 7, openAttempt |-> 6, startProcessing |-> 5,
                    prepare |-> 4, send |-> 3, markRejected |-> 3,
                    closeRejected |-> 2, closeFailed |-> 2, markSucceeded |-> 2,
                    closeSucceeded |-> 1, storePost |-> 0, markRetrying |-> 1,
                    markFailed |-> 1, markDead |-> 1 ]
  IN  IF label = "lookup" THEN 1
      ELSE IF label = "createTask" THEN StepsPerPlatform - 1
      ELSE 1 + 7 * (MaxRetries - attempt) + position[label]

StepsOf(c) ==
  LET platformsAhead == Len(c.todo) - (IF c.pc \in InTask THEN 1 ELSE 0)
      listSteps == StepsPerPlatform * platformsAhead + 2
  IN  IF c.pc \in InTask THEN listSteps + StepsInTask(c.pc, c.attempt)
      ELSE IF c.pc = "recheck" THEN listSteps + 2
      ELSE IF c.pc = "enter" THEN listSteps + 1
      ELSE IF c.pc = "loop" THEN listSteps
      ELSE IF c.pc = "leave" THEN 1
      ELSE 0

StepsLeft(k) == StepsOf(call[k])

\* The count behind CallsReturn: it is never negative, each step of the call lowers
\* it and no step of another call does anything to it, also when stores fail.
StepsAreCounted == \A k \in Calls : StepsLeft(k) \in Nat

CallsAdvance ==
  [][\A k \in Calls :
       ~At(k, "idle") /\ call'[k] # call[k] => StepsLeft(k)' < StepsLeft(k)]_vars

\* A content does not stay publishing.
PublishingEnds == status = "publishing" ~> status # "publishing"

\* Service.Publish keeps the promise of PublishPromise.
Promise == INSTANCE PublishPromise WITH shown <- live

ImplementsPromise == Promise!Spec

-------------------------------------------------------------------------------
(* What the documentation says and this code does not do.                   *)

\* publish-state-machine.md:99 and :269: a task whose retries are exhausted is
\* stored as dead.  executeWithRetry asks for processing -> dead, an edge the
\* task machine lacks; the store refuses it and the error is dropped.
ExhaustedTaskIsDead ==
  \A k \in Calls : \A i \in DOMAIN call[k].results :
    call[k].results[i].status = "dead" =>
      task[call[k].results[i].platform] = "dead"

\* publish-state-machine.md:177 and :293: retrying a partially published
\* content creates new tasks for the failed platforms.  The claim is refused
\* (or CreateTask conflicts) and the old failure is returned instead.
RetryReachesFailedPlatform ==
  \A k \in Calls :
    At(k, "lookup") => task[Platform(k)] \notin {"failed", "dead"}

===============================================================================
