----------------------- MODULE PublishServiceTaskProofs -----------------------
(***************************************************************************)
(* What the task store says of a task while a call works on it, until a    *)
(* store call returns an error: the key of a platform has a task behind    *)
(* it, a platform is contacted only for a task shown as processing, and a  *)
(* task whose retries are exhausted stays so.                              *)
(* The steps are classified again, this time by what they need of the      *)
(* stored task and what they leave of it.  The last two sections are about *)
(* calls whose stores may fail: they take a bounded number of steps, and   *)
(* they post to a platform a bounded number of times.                      *)
(***************************************************************************)
EXTENDS PublishServiceProofs

-------------------------------------------------------------------------------
(* Keys.                                                                    *)

\* A key is claimed on the way to CreateTask, and CreateTask leaves a task.
KeyEffect(k) ==
  /\ \/ UNCHANGED claimed
     \/ /\ claimed' = claimed \union {Platform(k)}
        /\ call'[k].pc = "createTask"
        /\ call'[k].todo = call[k].todo
  /\ At(k, "createTask") => task'[Platform(k)] # "none"

LEMMA StepKeys ==
  ASSUME ~StoreFails, TypeOK, NEW k \in Calls, Continue(k)
  PROVE  KeyEffect(k)
<1>0. /\ call \in [Calls -> CallState] /\ call[k] \in CallState
      /\ call[k].pc \in InTask => Platform(k) \in Platforms
      /\ task \in [Platforms -> TaskStatuses \union {"none"}]
  BY TypeOKParts, PlatformType DEF TypeOK
<1> USE <1>0 DEF KeyEffect, At, Goto, Report, CallState
<1>1. CASE Recheck(k) \/ EnterPublishing(k)
  BY <1>1 DEF Recheck, EnterPublishing
<1>2. CASE ClaimKey(k)
  BY <1>2 DEF ClaimKey, StoreFails
<1>3. CASE LookupExisting(k)
  BY <1>3 DEF LookupExisting
<1>4. CASE CreateTask(k)
  BY <1>4, LabelFacts DEF CreateTask, StoreFails
<1>5. CASE IncrementAttemptCount(k) \/ CreateAttempt(k) \/ StartProcessing(k)
  BY <1>5 DEF IncrementAttemptCount, CreateAttempt, StartProcessing
<1>6. CASE Prepare(k) \/ MarkRejected(k) \/ CloseRejected(k) \/ Send(k)
  BY <1>6 DEF Prepare, MarkRejected, CloseRejected, Send
<1>7. CASE MarkSucceeded(k) \/ CloseSucceeded(k) \/ StorePost(k) \/ CloseFailed(k)
  BY <1>7 DEF MarkSucceeded, CloseSucceeded, StorePost, CloseFailed
<1>8. CASE MarkFailed(k) \/ MarkDead(k) \/ MarkRetrying(k)
  BY <1>8 DEF MarkFailed, MarkDead, MarkRetrying
<1>9. CASE VerifyPublishing(k) \/ LeavePublishing(k)
  BY <1>9 DEF VerifyPublishing, LeavePublishing
<1>10. QED
  BY <1>1, <1>2, <1>3, <1>4, <1>5, <1>6, <1>7, <1>8, <1>9 DEF Continue

\* A key that is held has a task, or a claimer about to create it, so that a
\* refused claim can be answered: nothing between Claim and CreateTask of
\* executePlatformTask returns early.
THEOREM KeysHaveTasks == Spec => [](faults = 0 => HeldKeyHasTask)
<1>1. Init => HeldKeyHasTask
  BY DEF Init, HeldKeyHasTask
<1>2. /\ TypeOK /\ (faults = 0 => HeldKeyHasTask) /\ [Next]_vars
      => (faults = 0 => HeldKeyHasTask)'
  <2> SUFFICES ASSUME TypeOK, HeldKeyHasTask, [Next]_vars, ~StoreFails
               PROVE  HeldKeyHasTask'
    BY StoresAnswer
  <2> USE DEF HeldKeyHasTask, At, Platform
  <2>1. ASSUME NEW k \in Calls, Continue(k) PROVE HeldKeyHasTask'
    <3>0. /\ \A j \in Calls \ {k} : call'[j] = call[j]
          /\ TaskEffect(k) /\ KeyEffect(k)
          /\ claimed \subseteq Platforms
          /\ task \in [Platforms -> TaskStatuses \union {"none"}]
      BY <2>1, StepMoves, StepEffects, StepKeys, ServiceAssumption DEF TypeOK
    <3>1. \A p \in Platforms : task[p] # "none" => task'[p] # "none"
      BY <3>0 DEF TaskEffect, TaskStatuses
    <3>2. SUFFICES ASSUME NEW p \in claimed', task'[p] = "none"
                   PROVE  \E j \in Calls : /\ call'[j].pc = "createTask"
                                           /\ Head(call'[j].todo) = p
      OBVIOUS
    <3>3. CASE p \in claimed
      <4>1. task[p] = "none"
        BY <3>0, <3>1, <3>2, <3>3
      <4>2. PICK j \in Calls : At(j, "createTask") /\ Platform(j) = p
        BY <3>3, <4>1
      <4>3. j # k
        BY <3>0, <3>2, <4>2 DEF KeyEffect
      <4>4. QED BY <3>0, <4>2, <4>3
    <3>4. CASE p \notin claimed
      BY <3>0, <3>2, <3>4 DEF KeyEffect
    <3>5. QED BY <3>3, <3>4
  <2>2. ASSUME NEW k \in Calls, NEW intent \in Intents, Fetch(k, intent)
        PROVE  HeldKeyHasTask'
    <3>1. /\ \A j \in Calls : At(j, "createTask") => call'[j] = call[j]
          /\ UNCHANGED << task, claimed >>
      BY <2>2, FetchMoves DEF Fetch
    <3>2. QED BY <3>1
  <2>3. ASSUME NEW to \in ContentStatuses, UserMovesContent(to)
        PROVE  HeldKeyHasTask'
    BY <2>3 DEF UserMovesContent
  <2>4. ASSUME NEW p \in Platforms, ExpireKey(p) PROVE HeldKeyHasTask'
    BY <2>4 DEF ExpireKey
  <2> QED
    <3>1. CASE UNCHANGED vars
      BY <3>1 DEF vars
    <3>2. QED BY <3>1, <2>2, <2>4, <2>3, <2>1 DEF Next
<1>3. QED
  BY <1>1, <1>2, TypeCorrect, PTL DEF Spec

-------------------------------------------------------------------------------
(* The stored status while a call works.                                    *)

\* Labels of executeWithRetry before its transition to processing, and those
\* after it that rely on it.
Starting == { "count", "openAttempt", "startProcessing" }

Started == { "prepare", "send", "markRejected", "closeFailed", "markFailed",
             "markDead", "markRetrying", "markSucceeded" }

\* An iteration starts on a task that may become processing, what follows
\* relies on the store having accepted that edge, and what is about to be
\* reported is stored.
StoredStatusFits(k) ==
  /\ call[k].pc \in Starting => task[Platform(k)] \in {"pending", "retrying"}
  /\ call[k].pc \in Started => task[Platform(k)] = "processing"
  /\ At(k, "closeRejected") => task[Platform(k)] = "failed"
  /\ call[k].pc \in {"closeSucceeded", "storePost"} =>
       task[Platform(k)] = "succeeded"
  /\ At(k, "lookup") => task[Platform(k)] # "none"

Relying == Starting \union Started
             \union {"closeRejected", "closeSucceeded", "storePost", "lookup"}

\* Facts every case below starts from; the last holds since the claimer of a
\* key executes, and no two calls do.
LEMMA StepContext ==
  ASSUME ~StoreFails, TypeOK, PublishingIsExclusive, HeldKeyHasTask,
         NEW k \in Calls
  PROVE  /\ call \in [Calls -> CallState] /\ call[k] \in CallState
         /\ call[k].pc \in InTask => Platform(k) \in Platforms
         /\ task \in [Platforms -> TaskStatuses \union {"none"}]
            /\ \A p \in claimed : At(k, "loop") => task[p] # "none"
<1>1. ASSUME NEW p \in claimed, At(k, "loop") PROVE task[p] # "none"
  <2>1. ASSUME NEW j \in Calls, At(j, "createTask") PROVE FALSE
    <3>1. call[j].pc \in Executing /\ call[k].pc \in Executing
      BY <1>1, <2>1 DEF Executing, InTask, At
    <3>2. j = k
      BY <3>1 DEF PublishingIsExclusive, Executor
    <3>3. QED BY <1>1, <2>1, <3>2 DEF At
  <2>2. QED BY <2>1 DEF HeldKeyHasTask
<1>2. QED
  BY <1>1, TypeOKParts, PlatformType DEF TypeOK

\* The state of the call after its step is what the next step relies on.
LEMMA StepFits ==
  ASSUME ~StoreFails, TypeOK, PublishingIsExclusive, HeldKeyHasTask,
         NEW k \in Calls, StoredStatusFits(k), Continue(k)
  PROVE  StoredStatusFits(k)'
<1>0. /\ call \in [Calls -> CallState] /\ call[k] \in CallState
      /\ call[k].pc \in InTask => Platform(k) \in Platforms
      /\ task \in [Platforms -> TaskStatuses \union {"none"}]
      /\ \A p \in claimed : At(k, "loop") => task[p] # "none"
  BY StepContext
<1>1. CASE ClaimKey(k)
  <2>0. At(k, "loop") /\ UNCHANGED task
    BY <1>1 DEF ClaimKey
  <2>1. CASE Goto(k, "lookup") /\ Platform(k) \in claimed
    <3>1. call'[k].pc = "lookup" /\ call'[k].todo = call[k].todo
      BY <1>0, <2>1 DEF Goto, CallState
    <3>2. task'[Platform(k)] # "none" /\ Platform(k)' = Platform(k)
      BY <1>0, <2>0, <2>1, <3>1 DEF Platform
    <3>3. QED BY <3>1, <3>2 DEF StoredStatusFits, Starting, Started, At
  <2>2. CASE Goto(k, "createTask")
    <3>1. call'[k].pc = "createTask"
      BY <1>0, <2>2 DEF Goto, CallState
    <3>2. QED BY <3>1 DEF StoredStatusFits, Starting, Started, At
  <2>3. CASE Report(k, "failed")
    <3>1. call'[k].pc = "loop"
      BY <1>0, <2>3 DEF Report, CallState
    <3>2. QED BY <3>1 DEF StoredStatusFits, Starting, Started, At
  <2>4. QED BY <1>1, <2>1, <2>2, <2>3, Zenon DEF ClaimKey
<1> USE <1>0 DEF StoredStatusFits, Starting, Started, Platform, At, Goto, Report,
        CallState
<1>2. CASE Recheck(k) \/ EnterPublishing(k)
  BY <1>2 DEF Recheck, EnterPublishing
<1>3. CASE LookupExisting(k)
  BY <1>3 DEF LookupExisting
<1>4. CASE CreateTask(k)
  <2>1. CASE /\ task' = [task EXCEPT ![Platform(k)] = "pending"]
             /\ call' = [call EXCEPT ![k].pc = "count", ![k].attempt = 0]
    <3>1. call'[k].pc = "count" /\ call'[k].todo = call[k].todo
      BY <2>1
    <3>2. Platform(k) \in Platforms
      BY <1>4, LabelFacts DEF CreateTask
    <3>3. QED BY <2>1, <3>1, <3>2
  <2>2. CASE /\ task[Platform(k)] # "none" /\ UNCHANGED task
             /\ Goto(k, "lookup")
    BY <2>2
  <2>3. CASE StoreFails
    BY <2>3 DEF StoreFails
  <2>4. QED BY <1>4, <2>1, <2>2, <2>3 DEF CreateTask
<1>5. CASE IncrementAttemptCount(k)
  BY <1>5 DEF IncrementAttemptCount
<1>6. CASE CreateAttempt(k)
  <2>1. /\ call[k].pc = "openAttempt" /\ call'[k].pc = "startProcessing"
        /\ call'[k].todo = call[k].todo
        /\ UNCHANGED task
    BY <1>6 DEF CreateAttempt
  <2>2. QED BY <2>1
<1>7. CASE StartProcessing(k)
  BY <1>7, LabelFacts DEF StartProcessing, UpdateTaskStatus, StoreFails,
     TaskCanTransition, TaskEdges
<1>8. CASE Prepare(k)
  <2>1. /\ call[k].pc = "prepare" /\ call'[k].pc \in {"send", "markRejected"}
        /\ call'[k].todo = call[k].todo
        /\ UNCHANGED task
    BY <1>8 DEF Prepare
  <2>2. QED BY <2>1
<1>9. CASE MarkRejected(k)
  BY <1>9, LabelFacts DEF MarkRejected, UpdateTaskStatus, StoreFails,
     TaskCanTransition, TaskEdges
<1>10. CASE CloseRejected(k)
  BY <1>10 DEF CloseRejected
<1>11. CASE Send(k)
  BY <1>11 DEF Send
<1>12. CASE MarkSucceeded(k)
  BY <1>12, LabelFacts DEF MarkSucceeded, UpdateTaskStatus, StoreFails,
     TaskCanTransition, TaskEdges
<1>13. CASE CloseSucceeded(k) \/ StorePost(k)
  <2>1. \/ /\ call[k].pc = "closeSucceeded" /\ call'[k].pc = "storePost"
           /\ call'[k].todo = call[k].todo
        \/ call'[k].pc = "loop"
    BY <1>13 DEF CloseSucceeded, StorePost
  <2>2. UNCHANGED task
    BY <1>13 DEF CloseSucceeded, StorePost
  <2>3. QED BY <2>1, <2>2
<1>14. CASE CloseFailed(k)
  BY <1>14 DEF CloseFailed, AfterFailure
<1>15. CASE MarkFailed(k) \/ MarkDead(k)
  <2>1. Report(k, "failed") \/ Report(k, "dead")
    BY ONLY <1>15 DEF MarkFailed, MarkDead
  <2>2. call'[k].pc = "loop"
    BY <2>1
  <2>3. QED BY <2>2
<1>16. CASE MarkRetrying(k)
  BY <1>16, LabelFacts DEF MarkRetrying, UpdateTaskStatus, StoreFails,
     TaskCanTransition, TaskEdges
<1>17. CASE VerifyPublishing(k) \/ LeavePublishing(k)
  BY <1>17 DEF VerifyPublishing, LeavePublishing
<1>18. QED
  BY <1>1, <1>2, <1>3, <1>4, <1>5, <1>6, <1>7, <1>8, <1>9, <1>10, <1>11, <1>12,
     <1>13, <1>14, <1>15, <1>16, <1>17 DEF Continue

\* Exclusivity keeps the other calls from changing the task under a call that
\* relies on its status.
StatusInv == \A k \in Calls : StoredStatusFits(k)

LEMMA StatusInvariant == Spec => [](faults = 0 => StatusInv)
<1> USE DEF StatusInv, StoredStatusFits, Starting, Started, At
<1>1. Init => StatusInv
  BY DEF Init
<1>2. /\ TypeOK /\ PublishingIsExclusive /\ (faults = 0 => HeldKeyHasTask)
      /\ (faults = 0 => StatusInv) /\ [Next]_vars
      => (faults = 0 => StatusInv)'
  <2> SUFFICES ASSUME TypeOK, PublishingIsExclusive, HeldKeyHasTask, StatusInv,
                      [Next]_vars, ~StoreFails
               PROVE  StatusInv'
    BY StoresAnswer
  <2>1. ASSUME NEW k \in Calls, Continue(k) PROVE StatusInv'
    <3>0. /\ \A j \in Calls \ {k} : call'[j] = call[j]
          /\ TaskEffect(k) /\ StoredStatusFits(k)'
      BY <2>1, StepMoves, StepEffects, StepFits
    <3>1. ASSUME NEW j \in Calls, j # k, call[j].pc \in Relying
          PROVE  UNCHANGED task
      <4>1. Executor(j)
        BY <3>1 DEF Relying, Executor, Executing, InTask, BeforeSend,
           AfterPost
      <4>2. ~Executor(k)
        BY <3>1, <4>1 DEF PublishingIsExclusive
      <4>3. QED BY <3>0, <4>2 DEF TaskEffect, Executor, Executing
    <3>2. QED BY <3>0, <3>1 DEF Relying, Platform
  <2>2. ASSUME NEW k \in Calls, NEW intent \in Intents, Fetch(k, intent)
        PROVE  StatusInv'
    BY <2>2, FetchMoves DEF Platform
  <2>3. ASSUME NEW to \in ContentStatuses, UserMovesContent(to) PROVE StatusInv'
    BY <2>3 DEF UserMovesContent, Platform
  <2>4. ASSUME NEW p \in Platforms, ExpireKey(p) PROVE StatusInv'
    BY <2>4 DEF ExpireKey, Platform
  <2> QED
    <3>1. CASE UNCHANGED vars
      BY <3>1 DEF vars, Platform
    <3>2. QED BY <3>1, <2>2, <2>4, <2>3, <2>1 DEF Next
<1>3. QED
  BY <1>1, <1>2, TypeCorrect, ExclusivePublishing, KeysHaveTasks, PTL DEF Spec

\* Until a store fails, adapter.Publish is called only for a task the store shows as
\* processing, although an error of the transition that should have made it so is
\* only logged (service.go:273); and stores that never fail keep it so for ever.
THEOREM PlatformSeesProcessingTasks ==
  /\ Spec => [][faults = 0 => \A p \in Platforms :
                  live'[p] # live[p] => task[p] = "processing"]_vars
  /\ MaxFaults = 0 => (Spec => SendsOnlyWhileProcessing)
<1>1. TypeOK /\ (faults = 0 => StatusInv) /\ [Next]_vars =>
        [faults = 0 => \A p \in Platforms :
           live'[p] # live[p] => task[p] = "processing"]_vars
  <2> SUFFICES ASSUME TypeOK, StatusInv, [Next]_vars,
                      NEW p \in Platforms, live'[p] # live[p]
               PROVE  task[p] = "processing"
    OBVIOUS
  <2>1. PICK k \in Calls : Continue(k)
    BY FetchMoves DEF Next, UserMovesContent, ExpireKey, vars
  <2>2. PostEffect(k) /\ live \in [Platforms -> Nat]
    BY <2>1, StepEffects DEF TypeOK
  <2>3. At(k, "send") /\ p = Platform(k)
    BY <2>2 DEF PostEffect
  <2>4. QED
    BY <2>3 DEF StatusInv, StoredStatusFits, Started, At
<1>2. Spec => [][faults = 0 => \A p \in Platforms :
                   live'[p] # live[p] => task[p] = "processing"]_vars
  BY <1>1, StatusInvariant, TypeCorrect, PTL DEF Spec
<1>3. ASSUME MaxFaults = 0 PROVE Spec => SendsOnlyWhileProcessing
  <2>1. /\ TypeOK
        /\ [faults = 0 => \A p \in Platforms :
              live'[p] # live[p] => task[p] = "processing"]_vars
        => [\A p \in Platforms : live'[p] # live[p] => task[p] = "processing"]_vars
    <3>1. TypeOK => faults \in 0 .. 0
      BY <1>3, Zenon DEF TypeOK
    <3>2. QED BY <3>1
  <2>2. QED
    BY <1>2, <2>1, TypeCorrect, PTL DEF SendsOnlyWhileProcessing
<1>4. QED
  BY <1>2, <1>3

-------------------------------------------------------------------------------
(* Reported outcomes.                                                       *)

Settled == { "succeeded", "failed" }

\* A step reports nothing, or an outcome that is, if settled and of a platform
\* with an adapter, the stored one; and a settled task is left alone.
ReportEffect(k) ==
  /\ \/ call'[k].results = call[k].results
     \/ \E s \in TaskStatuses :
          /\ call'[k].results = Append(call[k].results,
                                       [platform |-> Platform(k), status |-> s])
          /\ Platform(k) \in Registered /\ s \in Settled =>
               task'[Platform(k)] = s
  /\ \A p \in Platforms : task[p] \in Settled => task'[p] = task[p]

LEMMA StepReports ==
  ASSUME ~StoreFails, TypeOK, PublishingIsExclusive, HeldKeyHasTask,
         NEW k \in Calls, StoredStatusFits(k), Continue(k)
  PROVE  ReportEffect(k)
<1>0. /\ call \in [Calls -> CallState] /\ call[k] \in CallState
      /\ call[k].pc \in InTask => Platform(k) \in Platforms
      /\ task \in [Platforms -> TaskStatuses \union {"none"}]
  BY StepContext
<1>1. ASSUME NEW to \in TaskStatuses, UpdateTaskStatus(Platform(k), to)
      PROVE  \A p \in Platforms : task[p] \in Settled => task'[p] = task[p]
  BY <1>0, <1>1 DEF UpdateTaskStatus, TaskCanTransition, TaskEdges, Settled
<1>2. CASE Recheck(k) \/ EnterPublishing(k)
  <2>1. UNCHANGED task /\ \E l \in Labels : Goto(k, l)
    BY <1>2, LabelFacts DEF Recheck, EnterPublishing
  <2>2. call'[k].results = call[k].results
    BY <1>0, <2>1 DEF Goto, CallState
  <2>3. QED BY <2>1, <2>2 DEF ReportEffect
<1>3. CASE ClaimKey(k)
  <2>1. /\ UNCHANGED task
        /\ \/ Goto(k, "createTask") \/ Goto(k, "lookup")
           \/ Platform(k) \notin Registered /\ Report(k, "failed")
    BY <1>3 DEF ClaimKey, StoreFails
  <2>2. CASE Goto(k, "createTask") \/ Goto(k, "lookup")
    <3>1. call'[k].results = call[k].results
      BY <1>0, <2>2 DEF Goto, CallState
    <3>2. QED BY <2>1, <3>1 DEF ReportEffect
  <2>3. CASE Platform(k) \notin Registered /\ Report(k, "failed")
    <3>1. call'[k].results = Append(call[k].results,
                                    [platform |-> Platform(k), status |-> "failed"])
      BY <1>0, <2>3 DEF Report, CallState
    <3>2. "failed" \in TaskStatuses
      BY DEF TaskStatuses
    <3>3. QED BY <2>1, <2>3, <3>1, <3>2 DEF ReportEffect
  <2>4. QED BY <2>1, <2>2, <2>3
<1> USE <1>0 DEF ReportEffect, StoredStatusFits, Started, At, Goto, Report,
        CallState, TaskStatuses, Settled
<1>4. CASE LookupExisting(k)
  <2>1. task[Platform(k)] \in TaskStatuses
    BY <1>4, LabelFacts DEF LookupExisting
  <2>2. Report(k, task[Platform(k)]) /\ UNCHANGED task
    BY <1>4, <2>1 DEF LookupExisting, StoreFails
  <2>3. QED BY <2>1, <2>2
<1>5. CASE CreateTask(k)
  <2>1. CASE /\ task[Platform(k)] = "none"
             /\ task' = [task EXCEPT ![Platform(k)] = "pending"]
             /\ call' = [call EXCEPT ![k].pc = "count", ![k].attempt = 0]
    <3>1. call'[k].results = call[k].results
      BY <1>0, <2>1
    <3>2. \A p \in Platforms : task[p] \in Settled => task'[p] = task[p]
      BY <1>0, <2>1
    <3>3. QED BY <3>1, <3>2 DEF ReportEffect
  <2>2. CASE Goto(k, "lookup") /\ UNCHANGED task
    <3>1. call'[k].results = call[k].results
      BY <1>0, <2>2
    <3>2. QED BY <2>2, <3>1
  <2>3. QED BY <1>5, <2>1, <2>2 DEF CreateTask, StoreFails
<1>6. CASE IncrementAttemptCount(k) \/ CreateAttempt(k)
  BY <1>6 DEF IncrementAttemptCount, CreateAttempt
<1>7. CASE StartProcessing(k) \/ MarkRejected(k) \/ MarkSucceeded(k)
  BY <1>1, <1>7 DEF StartProcessing, MarkRejected, MarkSucceeded
<1>8. CASE Prepare(k)
  BY <1>8 DEF Prepare
<1>9. CASE CloseRejected(k)
  BY <1>9 DEF CloseRejected
<1>10. CASE Send(k)
  BY <1>10 DEF Send
<1>11. CASE CloseSucceeded(k) \/ StorePost(k)
  <2>1. CASE CloseSucceeded(k)
    BY <2>1 DEF CloseSucceeded
  <2>2. CASE StorePost(k)
    BY <2>2 DEF StorePost
  <2>3. QED BY <1>11, <2>1, <2>2
<1>12. CASE CloseFailed(k)
  BY <1>12 DEF CloseFailed
<1>13. CASE MarkFailed(k)
  <2>1. task'[Platform(k)] = "failed"
    BY <1>13, LabelFacts DEF MarkFailed, UpdateTaskStatus, StoreFails,
       TaskCanTransition, TaskEdges
  <2>2. QED BY <1>1, <1>13, <2>1 DEF MarkFailed
<1>14. CASE MarkDead(k)
  BY <1>1, <1>14 DEF MarkDead
<1>15. CASE MarkRetrying(k)
  BY <1>1, <1>15 DEF MarkRetrying
<1>16. CASE VerifyPublishing(k) \/ LeavePublishing(k)
  BY <1>16 DEF VerifyPublishing, LeavePublishing
<1>17. QED
  BY <1>2, <1>3, <1>4, <1>5, <1>6, <1>7, <1>8, <1>9, <1>10, <1>11, <1>12, <1>13,
     <1>14, <1>15, <1>16 DEF Continue

\* Until a store fails, an outcome Publish reports as succeeded or failed is
\* the stored one and stays so, whichever call settled the task and however
\* many duplicates report it.
THEOREM OutcomesAreStored == Spec => [](faults = 0 => ReportedOutcomeIsStored)
<1>1. Init => ReportedOutcomeIsStored
  BY DEF Init, ReportedOutcomeIsStored
<1>2. /\ TypeOK /\ PublishingIsExclusive /\ (faults = 0 => HeldKeyHasTask)
      /\ (faults = 0 => StatusInv) /\ (faults = 0 => ReportedOutcomeIsStored)
      /\ [Next]_vars
      => (faults = 0 => ReportedOutcomeIsStored)'
  <2> SUFFICES ASSUME TypeOK, PublishingIsExclusive, HeldKeyHasTask, StatusInv,
                      ReportedOutcomeIsStored, [Next]_vars, ~StoreFails
               PROVE  ReportedOutcomeIsStored'
    BY StoresAnswer
  <2> USE DEF ReportedOutcomeIsStored
  <2>1. ASSUME NEW k \in Calls, Continue(k) PROVE ReportedOutcomeIsStored'
    <3>0. /\ \A j \in Calls \ {k} : call'[j] = call[j]
          /\ ReportEffect(k)
          /\ Registered \subseteq Platforms
          /\ \A j \in Calls : call[j].results \in Seq(Result)
      BY <2>1, StepMoves, StepReports, ServiceAssumption
         DEF StatusInv, TypeOK, CallState
    <3> SUFFICES ASSUME NEW j \in Calls, NEW i \in DOMAIN call'[j].results,
                        call'[j].results[i].platform \in Registered,
                        call'[j].results[i].status \in Settled
                 PROVE  task'[call'[j].results[i].platform]
                          = call'[j].results[i].status
      BY DEF Settled
    <3>1. CASE i \in DOMAIN call[j].results
               /\ call'[j].results[i] = call[j].results[i]
      BY <3>0, <3>1 DEF ReportEffect, Settled
    <3>2. CASE j # k
      BY <3>0, <3>1, <3>2
    <3>3. CASE j = k
      <4>1. CASE call'[k].results = call[k].results
        BY <3>1, <3>3, <4>1
      <4>2. ASSUME NEW s \in TaskStatuses,
                   call'[k].results = Append(call[k].results,
                                        [platform |-> Platform(k), status |-> s]),
                   Platform(k) \in Registered /\ s \in Settled =>
                     task'[Platform(k)] = s
            PROVE  task'[call'[j].results[i].platform]
                     = call'[j].results[i].status
        <5>1. \/ i \in DOMAIN call[k].results
                 /\ call'[k].results[i] = call[k].results[i]
              \/ call'[k].results[i] = [platform |-> Platform(k), status |-> s]
          BY <3>0, <3>3, <4>2, LenProperties
        <5>2. QED BY <3>1, <3>3, <4>2, <5>1
      <4>3. QED BY <3>0, <4>1, <4>2 DEF ReportEffect
    <3>4. QED BY <3>2, <3>3
  <2>2. ASSUME NEW k \in Calls, NEW intent \in Intents, Fetch(k, intent)
        PROVE  ReportedOutcomeIsStored'
    BY <2>2, FetchMoves
  <2>3. ASSUME NEW to \in ContentStatuses, UserMovesContent(to)
        PROVE  ReportedOutcomeIsStored'
    <3>1. UNCHANGED << task, call >>
      BY ONLY <2>3 DEF UserMovesContent
    <3>2. QED BY <3>1
  <2>4. ASSUME NEW p \in Platforms, ExpireKey(p) PROVE ReportedOutcomeIsStored'
    <3>1. UNCHANGED << task, call >>
      BY ONLY <2>4 DEF ExpireKey
    <3>2. QED BY <3>1
  <2> QED
    <3>1. CASE UNCHANGED vars
      BY <3>1 DEF vars
    <3>2. QED BY <3>1, <2>2, <2>4, <2>3, <2>1 DEF Next
<1>3. QED
  BY <1>1, <1>2, TypeCorrect, ExclusivePublishing, KeysHaveTasks, StatusInvariant,
     PTL DEF Spec

-------------------------------------------------------------------------------
(* Exhausted tasks.                                                         *)

InRetryLoop(k) == call[k].pc \in BeforeSend \union AfterPost

GivenUp(p) ==
  \E k \in Calls : \E i \in DOMAIN call[k].results :
    call[k].results[i] = [platform |-> p, status |-> "dead"]

\* A dead outcome is reported where the retries end, or read from the store;
\* only the loop, which starts on a new task, moves a task, and never to dead.
GiveUpEffect(k) ==
  /\ \/ call'[k].results = call[k].results
     \/ \E s \in TaskStatuses :
          /\ call'[k].results = Append(call[k].results,
                                       [platform |-> Platform(k), status |-> s])
          /\ s = "dead" => At(k, "markDead") \/ task[Platform(k)] = "dead"
  /\ InRetryLoop(k)' =>
       /\ Platform(k)' = Platform(k)
       /\ InRetryLoop(k) \/ task[Platform(k)] = "none"
  /\ \A p \in Platforms :
       task'[p] # task[p] =>
         /\ p = Platform(k) /\ task'[p] # "dead"
         /\ InRetryLoop(k) \/ task[p] = "none"
  /\ At(k, "markDead") => UNCHANGED task /\ ~InRetryLoop(k)'

\* A loop that goes on with the platform it is at, and at most moves its task.
LEMMA LoopGoesOn ==
  ASSUME task \in [Platforms -> TaskStatuses \union {"none"}],
         NEW k \in Calls, ~At(k, "markDead"),
         InRetryLoop(k) \/ task[Platform(k)] = "none",
         call'[k].todo = call[k].todo, call'[k].results = call[k].results,
         \/ UNCHANGED task
         \/ \E to \in TaskStatuses \ {"dead"} :
              task' = [task EXCEPT ![Platform(k)] = to]
  PROVE  GiveUpEffect(k)
<1>1. Platform(k)' = Platform(k)
  BY DEF Platform
<1>2. \A p \in Platforms :
        task'[p] # task[p] => p = Platform(k) /\ task'[p] # "dead"
  OBVIOUS
<1>3. QED BY <1>1, <1>2 DEF GiveUpEffect

\* A platform that is done, or not begun.
LEMMA LoopIsLeft ==
  ASSUME call \in [Calls -> CallState],
         task \in [Platforms -> TaskStatuses \union {"none"}],
         NEW k \in Calls,
         \/ \E l \in Labels \ (BeforeSend \union AfterPost) : Goto(k, l)
         \/ \E s \in TaskStatuses :
              /\ Report(k, s)
              /\ s = "dead" => At(k, "markDead") \/ task[Platform(k)] = "dead",
         \/ UNCHANGED task
         \/ /\ InRetryLoop(k) /\ ~At(k, "markDead")
            /\ \E to \in TaskStatuses \ {"dead"} :
                 task' = [task EXCEPT ![Platform(k)] = to]
  PROVE  GiveUpEffect(k)
<1>0. ASSUME NEW s, Report(k, s)
      PROVE  /\ call'[k].pc = "loop"
             /\ call'[k].results = Append(call[k].results,
                                          [platform |-> Platform(k), status |-> s])
  <2>1. call[k] \in CallState /\ call \in [Calls -> CallState]
    OBVIOUS
  <2>2. QED BY ONLY <1>0, <2>1, k \in Calls DEF Report, CallState
<1>1. ~InRetryLoop(k)'
  <2>1. "loop" \notin BeforeSend \union AfterPost
    BY DEF BeforeSend, AfterPost
  <2>2. CASE \E l \in Labels \ (BeforeSend \union AfterPost) : Goto(k, l)
    BY <2>2 DEF Goto, InRetryLoop, CallState
  <2>3. CASE \E s \in TaskStatuses : Report(k, s)
    BY <1>0, <2>1, <2>3 DEF InRetryLoop
  <2>4. QED BY <2>2, <2>3
<1>2. \/ call'[k].results = call[k].results
      \/ \E s \in TaskStatuses :
           /\ call'[k].results = Append(call[k].results,
                                        [platform |-> Platform(k), status |-> s])
           /\ s = "dead" => At(k, "markDead") \/ task[Platform(k)] = "dead"
  <2>1. CASE \E l \in Labels : Goto(k, l)
    BY <2>1 DEF Goto, CallState
  <2>2. QED BY <1>0, <2>1
<1>3. \A p \in Platforms :
        task'[p] # task[p] =>
          p = Platform(k) /\ task'[p] # "dead" /\ InRetryLoop(k)
  OBVIOUS
<1>4. At(k, "markDead") => UNCHANGED task
  OBVIOUS
<1>5. QED BY <1>1, <1>2, <1>3, <1>4 DEF GiveUpEffect

LEMMA StepGivesUp ==
  ASSUME ~StoreFails, TypeOK, PublishingIsExclusive, HeldKeyHasTask,
         NEW k \in Calls, StoredStatusFits(k), Continue(k)
  PROVE  GiveUpEffect(k)
<1>0. /\ call \in [Calls -> CallState] /\ call[k] \in CallState
      /\ call[k].pc \in InTask => Platform(k) \in Platforms
      /\ task \in [Platforms -> TaskStatuses \union {"none"}]
  BY StepContext
<1>1. /\ { "failed", "retrying", "processing", "pending", "succeeded" }
           \subseteq TaskStatuses \ {"dead"}
      /\ "dead" \in TaskStatuses
  BY DEF TaskStatuses
<1>2. { "recheck", "enter", "loop", "leave", "returned", "rejected", "createTask",
        "lookup" } \subseteq Labels \ (BeforeSend \union AfterPost)
  BY DEF Labels, Executing, Finished, InTask, BeforeSend, AfterPost
<1>3. ASSUME NEW to \in TaskStatuses \ {"dead"}, UpdateTaskStatus(Platform(k), to)
      PROVE  \/ UNCHANGED task
             \/ \E t \in TaskStatuses \ {"dead"} :
                  task' = [task EXCEPT ![Platform(k)] = t]
  BY <1>3 DEF UpdateTaskStatus
<1>4. ASSUME NEW l, Goto(k, l)
      PROVE  call'[k].todo = call[k].todo /\ call'[k].results = call[k].results
  BY <1>0, <1>4 DEF Goto, CallState
<1>5. CASE Recheck(k) \/ EnterPublishing(k) \/ VerifyPublishing(k) \/ LeavePublishing(k)
  <2>1. UNCHANGED task
    BY <1>5 DEF Recheck, EnterPublishing, VerifyPublishing, LeavePublishing
  <2>2. \E l \in {"enter", "rejected", "loop", "leave", "returned"} : Goto(k, l)
    BY <1>5 DEF Recheck, EnterPublishing, VerifyPublishing, LeavePublishing
  <2>3. QED BY <1>0, <1>2, <2>1, <2>2, LoopIsLeft
<1>6. CASE ClaimKey(k)
  <2>1. /\ UNCHANGED task
        /\ Goto(k, "createTask") \/ Goto(k, "lookup") \/ Report(k, "failed")
    BY <1>6 DEF ClaimKey
  <2>2. QED BY <1>0, <1>1, <1>2, <2>1, LoopIsLeft
<1>7. CASE LookupExisting(k)
  <2>1. task[Platform(k)] \in TaskStatuses
    BY <1>0, <1>7, LabelFacts DEF LookupExisting, StoredStatusFits, At
  <2>2. Report(k, task[Platform(k)]) /\ UNCHANGED task
    BY <1>7, <2>1 DEF LookupExisting, StoreFails, StoredStatusFits, At
  <2>3. QED BY <1>0, <2>1, <2>2, LoopIsLeft
<1>8. CASE CreateTask(k)
  <2>1. CASE /\ task[Platform(k)] = "none"
             /\ task' = [task EXCEPT ![Platform(k)] = "pending"]
             /\ call' = [call EXCEPT ![k].pc = "count", ![k].attempt = 0]
    <3>1. ~At(k, "markDead")
      BY <1>8 DEF CreateTask, At
    <3>2. call'[k].todo = call[k].todo /\ call'[k].results = call[k].results
      BY <1>0, <2>1 DEF CallState
    <3>3. QED BY <1>0, <1>1, <2>1, <3>1, <3>2, LoopGoesOn
  <2>2. CASE Goto(k, "lookup") /\ UNCHANGED task
    BY <1>0, <1>2, <2>2, LoopIsLeft
  <2>3. QED BY <1>8, <2>1, <2>2 DEF CreateTask, StoreFails
<1>9. CASE \/ IncrementAttemptCount(k) \/ CreateAttempt(k) \/ Prepare(k) \/ Send(k)
           \/ CloseSucceeded(k) \/ CloseFailed(k)
  <2>1. InRetryLoop(k) /\ ~At(k, "markDead") /\ UNCHANGED task
    BY <1>9 DEF IncrementAttemptCount, CreateAttempt, Prepare, Send, CloseSucceeded,
       CloseFailed, At, InRetryLoop, BeforeSend, AfterPost
  <2>2. call'[k].todo = call[k].todo /\ call'[k].results = call[k].results
    <3>1. CASE CreateAttempt(k)
      BY <1>0, <3>1 DEF CreateAttempt, CallState
    <3>2. CASE Send(k)
      BY <1>0, <1>4, <3>2 DEF Send, CallState
    <3>3. CASE \E l : Goto(k, l)
      BY <1>4, <3>3
    <3>4. QED BY <1>9, <3>1, <3>2, <3>3 DEF IncrementAttemptCount, Prepare,
                 CloseSucceeded, CloseFailed
  <2>3. QED BY <1>0, <2>1, <2>2, LoopGoesOn
<1>10. CASE StartProcessing(k) \/ MarkRejected(k) \/ MarkSucceeded(k)
  <2>1. InRetryLoop(k) /\ ~At(k, "markDead") /\ \E l : Goto(k, l)
    BY <1>10 DEF StartProcessing, MarkRejected, MarkSucceeded, At, InRetryLoop,
       BeforeSend, AfterPost
  <2>2. \E to \in TaskStatuses \ {"dead"} : UpdateTaskStatus(Platform(k), to)
    BY <1>1, <1>10 DEF StartProcessing, MarkRejected, MarkSucceeded
  <2>3. QED BY <1>0, <1>3, <1>4, <2>1, <2>2, LoopGoesOn
<1>11. CASE MarkRetrying(k)
  <2>1. InRetryLoop(k) /\ ~At(k, "markDead") /\ UpdateTaskStatus(Platform(k), "retrying")
    BY <1>11 DEF MarkRetrying, At, InRetryLoop, BeforeSend
  <2>2. call'[k].todo = call[k].todo /\ call'[k].results = call[k].results
    BY <1>0, <1>11 DEF MarkRetrying, CallState
  <2>3. QED BY <1>0, <1>1, <1>3, <2>1, <2>2, LoopGoesOn
<1>12. CASE CloseRejected(k) \/ StorePost(k)
  <2>1. UNCHANGED task /\ (Report(k, "failed") \/ Report(k, "succeeded"))
    BY <1>12 DEF CloseRejected, StorePost
  <2>2. QED BY <1>0, <1>1, <2>1, LoopIsLeft
<1>13. CASE MarkFailed(k)
  <2>1. /\ InRetryLoop(k) /\ ~At(k, "markDead")
        /\ Report(k, "failed") /\ UpdateTaskStatus(Platform(k), "failed")
    BY <1>13 DEF MarkFailed, At, InRetryLoop, BeforeSend
  <2>2. QED BY <1>0, <1>1, <1>3, <2>1, LoopIsLeft
<1>14. CASE MarkDead(k)
  <2>1. At(k, "markDead") /\ Report(k, "dead") /\ UpdateTaskStatus(Platform(k), "dead")
    BY <1>14 DEF MarkDead
  <2>2. task[Platform(k)] = "processing"
    BY <2>1 DEF StoredStatusFits, Started, At
  <2>3. UNCHANGED task
    BY <2>1, <2>2 DEF UpdateTaskStatus, TaskCanTransition, TaskEdges
  <2>4. QED BY <1>0, <1>1, <2>1, <2>3, LoopIsLeft
<1>15. QED
  BY <1>5, <1>6, <1>7, <1>8, <1>9, <1>10, <1>11, <1>12, <1>13, <1>14
     DEF Continue

\* A task whose retries are exhausted is at processing, no loop works on it any
\* more, and no task is ever stored as dead.
GivenUpFits ==
  \A p \in Platforms :
    /\ task[p] # "dead"
    /\ GivenUp(p) => /\ task[p] = "processing"
                     /\ \A j \in Calls : InRetryLoop(j) => Platform(j) # p

LEMMA StepKeepsGivenUp ==
  ASSUME ~StoreFails, TypeOK, PublishingIsExclusive, HeldKeyHasTask, GivenUpFits,
         NEW k \in Calls, StoredStatusFits(k), Continue(k)
  PROVE  GivenUpFits'
<1>1. /\ \A j \in Calls \ {k} : call'[j] = call[j]
      /\ GiveUpEffect(k)
      /\ \A j \in Calls : call[j].results \in Seq(Result)
  BY StepMoves, StepGivesUp DEF TypeOK, CallState
<1> SUFFICES ASSUME NEW p \in Platforms
             PROVE  /\ task'[p] # "dead"
                    /\ GivenUp(p)' =>
                         /\ task'[p] = "processing"
                         /\ \A j \in Calls : InRetryLoop(j)' => Platform(j)' # p
  BY DEF GivenUpFits
<1>2. task'[p] # "dead"
  BY <1>1 DEF GiveUpEffect, GivenUpFits
<1>3. ASSUME GivenUp(p)'
      PROVE  GivenUp(p) \/ (At(k, "markDead") /\ Platform(k) = p)
  <2>1. PICK j \in Calls : \E i \in DOMAIN call'[j].results :
               call'[j].results[i] = [platform |-> p, status |-> "dead"]
    BY <1>3 DEF GivenUp
  <2>2. CASE call'[j].results = call[j].results
    BY <2>1, <2>2 DEF GivenUp
  <2>3. ASSUME j = k,
               NEW s \in TaskStatuses,
               call'[k].results = Append(call[k].results,
                                         [platform |-> Platform(k), status |-> s]),
               s = "dead" => At(k, "markDead") \/ task[Platform(k)] = "dead"
        PROVE  GivenUp(p) \/ (At(k, "markDead") /\ Platform(k) = p)
    <3>1. PICK i \in DOMAIN call'[k].results :
                 call'[k].results[i] = [platform |-> p, status |-> "dead"]
      BY <2>1, <2>3
    <3>2. \/ i \in DOMAIN call[k].results /\ call'[k].results[i] = call[k].results[i]
          \/ call'[k].results[i] = [platform |-> Platform(k), status |-> s]
      BY <1>1, <2>3, LenProperties
    <3>3. CASE call'[k].results[i] = [platform |-> Platform(k), status |-> s]
      <4>1. Platform(k) = p /\ s = "dead"
        BY <3>1, <3>3
      <4>2. QED BY <2>3, <4>1 DEF GivenUpFits
    <3>4. QED BY <3>1, <3>2, <3>3 DEF GivenUp
  <2>4. QED BY <1>1, <2>2, <2>3 DEF GiveUpEffect
<1>4. CASE GivenUp(p)
  <2>1. task[p] = "processing" /\ \A j \in Calls : InRetryLoop(j) => Platform(j) # p
    BY <1>4 DEF GivenUpFits
  <2>2. task'[p] = task[p]
    BY <1>1, <2>1 DEF GiveUpEffect
  <2>3. ASSUME NEW j \in Calls, InRetryLoop(j)' PROVE Platform(j)' # p
    <3>1. CASE j = k
      <4>1. \/ InRetryLoop(k) /\ Platform(k)' = Platform(k)
            \/ task[Platform(k)] = "none" /\ Platform(k)' = Platform(k)
        BY <1>1, <2>3, <3>1 DEF GiveUpEffect
      <4>2. QED BY <2>1, <3>1, <4>1
    <3>2. CASE j # k
      BY <1>1, <2>1, <2>3, <3>2 DEF InRetryLoop, Platform
    <3>3. QED BY <3>1, <3>2
  <2>4. QED BY <1>2, <2>1, <2>2, <2>3
<1>5. CASE At(k, "markDead") /\ Platform(k) = p
  <2>1. task'[p] = "processing"
    BY <1>1, <1>5 DEF GiveUpEffect, StoredStatusFits, Started, At
  <2>2. ASSUME NEW j \in Calls, InRetryLoop(j)' PROVE FALSE
    <3>1. j # k
      BY <1>1, <1>5, <2>2 DEF GiveUpEffect
    <3>2. Executor(j) /\ Executor(k)
      BY <1>1, <1>5, <2>2, <3>1 DEF InRetryLoop, Executor, Executing, InTask,
         BeforeSend, At
    <3>3. QED BY <3>1, <3>2 DEF PublishingIsExclusive
  <2>3. QED BY <1>2, <2>1, <2>2
<1>6. QED BY <1>2, <1>3, <1>4, <1>5

ExhaustedIsProcessing ==
  \A k \in Calls : \A i \in DOMAIN call[k].results :
    call[k].results[i].status = "dead" =>
      task[call[k].results[i].platform] = "processing"

\* publish-state-machine.md:99 for every instance: until a store fails, each
\* task reported as dead is stored as processing and stays so, whoever publishes
\* the content again, and no task is ever stored as dead (service.go:343).
THEOREM ExhaustedTasksStay ==
  Spec => [](faults = 0 => /\ ExhaustedIsProcessing
                           /\ \A p \in Platforms : task[p] # "dead")
<1>1. Init => GivenUpFits
  BY DEF Init, GivenUpFits, GivenUp
<1>2. /\ TypeOK /\ PublishingIsExclusive /\ (faults = 0 => HeldKeyHasTask)
      /\ (faults = 0 => StatusInv) /\ (faults = 0 => GivenUpFits) /\ [Next]_vars
      => (faults = 0 => GivenUpFits)'
  <2> SUFFICES ASSUME TypeOK, PublishingIsExclusive, HeldKeyHasTask, StatusInv,
                      GivenUpFits, [Next]_vars, ~StoreFails
               PROVE  GivenUpFits'
    BY StoresAnswer
  <2>1. ASSUME NEW k \in Calls, Continue(k) PROVE GivenUpFits'
    BY <2>1, StepKeepsGivenUp DEF StatusInv
  <2>2. CASE UNCHANGED << task, call >>
    BY <2>2 DEF GivenUpFits, GivenUp, InRetryLoop, Platform
  <2>3. ASSUME NEW k \in Calls, NEW intent \in Intents, Fetch(k, intent)
        PROVE  GivenUpFits'
    <3>1. /\ \A j \in Calls : call'[j].results = call[j].results
          /\ \A j \in Calls : InRetryLoop(j)' => InRetryLoop(j) /\ Platform(j)' = Platform(j)
          /\ UNCHANGED task
      BY <2>3, FetchMoves DEF InRetryLoop, BeforeSend, AfterPost, Platform
    <3>2. QED BY <3>1 DEF GivenUpFits, GivenUp
  <2>4. QED
    BY <2>1, <2>2, <2>3 DEF Next, vars, UserMovesContent, ExpireKey
<1>3. TypeOK /\ GivenUpFits =>
        ExhaustedIsProcessing /\ \A p \in Platforms : task[p] # "dead"
  <2> SUFFICES ASSUME TypeOK, GivenUpFits,
                      NEW k \in Calls, NEW i \in DOMAIN call[k].results,
                      call[k].results[i].status = "dead"
               PROVE  task[call[k].results[i].platform] = "processing"
    BY DEF GivenUpFits, ExhaustedIsProcessing
  <2>1. call[k].results[i] \in Result
    BY DEF TypeOK, CallState
  <2>2. GivenUp(call[k].results[i].platform)
    BY <2>1 DEF GivenUp, Result
  <2>3. QED BY <2>1, <2>2 DEF GivenUpFits, Result
<1>4. QED
  BY <1>1, <1>2, <1>3, TypeCorrect, ExclusivePublishing, KeysHaveTasks,
     StatusInvariant, PTL DEF Spec

-------------------------------------------------------------------------------
(* Progress, whatever the stores answer.                                    *)

\* The steps inside one iteration of executeWithRetry, and those on the way to
\* the list of platforms: neither the list nor the attempt changes.
Onwards ==
  { <<"recheck", "enter">>, <<"enter", "loop">>, <<"createTask", "lookup">>,
    <<"count", "openAttempt">>, <<"openAttempt", "startProcessing">>,
    <<"startProcessing", "prepare">>, <<"prepare", "send">>,
    <<"prepare", "markRejected">>, <<"markRejected", "closeRejected">>,
    <<"send", "markSucceeded">>, <<"send", "closeFailed">>,
    <<"markSucceeded", "closeSucceeded">>, <<"closeSucceeded", "storePost">>,
    <<"closeFailed", "markFailed">>, <<"closeFailed", "markDead">> }

Reporting ==
  { "loop", "lookup", "createTask", "closeRejected", "storePost", "markFailed",
    "markDead" }

\* What a step does to the position, the list and the attempt of its call.
Moves(k) ==
  LET c == call[k]
      d == call'[k]
      same == d.todo = c.todo /\ d.attempt = c.attempt
  IN  \/ <<c.pc, d.pc>> \in Onwards /\ same
      \/ /\ c.pc = "loop" /\ c.todo # << >>
         /\ d.pc \in {"lookup", "createTask"} /\ same
      \/ /\ c.pc = "createTask" /\ d.pc = "count"
         /\ d.todo = c.todo /\ d.attempt = 0
      \/ /\ c.pc = "closeFailed" /\ c.attempt < MaxRetries
         /\ d.pc = "markRetrying" /\ same
      \/ /\ c.pc = "markRetrying" /\ d.pc = "count"
         /\ d.todo = c.todo /\ d.attempt = c.attempt + 1
      \/ /\ c.pc \in Reporting /\ c.todo # << >>
         /\ d.pc = "loop" /\ d.todo = Tail(c.todo)
      \/ /\ c.pc = "loop" /\ c.todo = << >> /\ d.pc \in {"leave", "returned"}
      \/ c.pc \in {"recheck", "enter", "leave"} /\ d.pc \in Finished

LEMMA StepAdvances ==
  ASSUME TypeOK, NEW k \in Calls, Continue(k)
  PROVE  Moves(k)
<1>0. /\ call \in [Calls -> CallState] /\ call[k] \in CallState
      /\ call[k].pc \in InTask => call[k].todo # << >>
      /\ MaxRetries \in Nat /\ call[k].attempt \in Nat
  BY ServiceAssumption DEF TypeOK, CallState
<1> USE <1>0 DEF At, Goto, Report, CallState, Moves, Onwards, Reporting, Finished,
        InTask, BeforeSend, AfterPost
<1>1. CASE Recheck(k)
  BY <1>1 DEF Recheck
<1>2. CASE EnterPublishing(k)
  BY <1>2 DEF EnterPublishing
<1>3. CASE ClaimKey(k)
  BY <1>3 DEF ClaimKey
<1>4. CASE LookupExisting(k)
  BY <1>4 DEF LookupExisting
<1>5. CASE CreateTask(k)
  BY <1>5 DEF CreateTask
<1>6. CASE IncrementAttemptCount(k)
  BY <1>6 DEF IncrementAttemptCount
<1>7. CASE CreateAttempt(k)
  BY <1>7 DEF CreateAttempt
<1>8. CASE StartProcessing(k)
  BY <1>8 DEF StartProcessing
<1>9. CASE Prepare(k)
  BY <1>9 DEF Prepare
<1>10. CASE MarkRejected(k)
  BY <1>10 DEF MarkRejected
<1>11. CASE CloseRejected(k)
  BY <1>11 DEF CloseRejected
<1>12. CASE Send(k)
  BY <1>12 DEF Send
<1>13. CASE MarkSucceeded(k)
  BY <1>13 DEF MarkSucceeded
<1>14. CASE CloseSucceeded(k)
  BY <1>14 DEF CloseSucceeded
<1>15. CASE StorePost(k)
  BY <1>15 DEF StorePost
<1>16. CASE CloseFailed(k)
  BY <1>16 DEF CloseFailed, AfterFailure
<1>17. CASE MarkFailed(k)
  BY <1>17 DEF MarkFailed
<1>18. CASE MarkDead(k)
  BY <1>18 DEF MarkDead
<1>19. CASE MarkRetrying(k)
  BY <1>19 DEF MarkRetrying
<1>20. CASE VerifyPublishing(k)
  BY <1>20 DEF VerifyPublishing
<1>21. CASE LeavePublishing(k)
  BY <1>21 DEF LeavePublishing
<1>22. QED
  BY <1>1, <1>2, <1>3, <1>4, <1>5, <1>6, <1>7, <1>8, <1>9, <1>10, <1>11, <1>12,
     <1>13, <1>14, <1>15, <1>16, <1>17, <1>18, <1>19, <1>20, <1>21 DEF Continue

\* The loop variable of executeWithRetry stays within the policy.
Looping == BeforeSend \union AfterPost

AttemptFits(k) ==
  /\ call[k].pc \in Looping => call[k].attempt <= MaxRetries
  /\ At(k, "markRetrying") => call[k].attempt < MaxRetries

AttemptsFit == \A k \in Calls : AttemptFits(k)

LEMMA AttemptsInvariant == Spec => []AttemptsFit
<1> USE ServiceAssumption DEF AttemptsFit, AttemptFits, Looping, At
<1>1. Init => AttemptsFit
  BY DEF Init, BeforeSend, AfterPost
<1>2. TypeOK /\ AttemptsFit /\ [Next]_vars => AttemptsFit'
  <2> SUFFICES ASSUME TypeOK, AttemptsFit, [Next]_vars PROVE AttemptsFit'
    OBVIOUS
  <2>1. ASSUME NEW k \in Calls, Continue(k) PROVE AttemptsFit'
    <3>1. Moves(k) /\ \A j \in Calls \ {k} : call'[j] = call[j]
      BY <2>1, StepAdvances, StepMoves
    <3>2. call[k].attempt \in Nat
      BY DEF TypeOK, CallState
    <3>3. AttemptFits(k)'
      BY <3>1, <3>2 DEF Moves, Onwards, Finished, BeforeSend, AfterPost
    <3>4. QED BY <3>1, <3>3
  <2>2. ASSUME NEW k \in Calls, NEW intent \in Intents, Fetch(k, intent)
        PROVE  AttemptsFit'
    BY <2>2, FetchMoves DEF BeforeSend, AfterPost
  <2>3. ASSUME UNCHANGED call PROVE AttemptsFit'
    BY <2>3
  <2> QED
    BY <2>1, <2>2, <2>3 DEF Next, UserMovesContent, ExpireKey, vars
<1>3. QED
  BY <1>1, <1>2, TypeCorrect, PTL DEF Spec

\* The steps of one platform, label by label.
LEMMA PlatformSteps ==
  ASSUME NEW a \in Nat
  PROVE  LET s(l) == StepsInTask(l, a)
             rest == 7 * (MaxRetries - a)
         IN  /\ s("lookup") = 1 /\ s("createTask") = 7 * MaxRetries + 9
             /\ s("count") = rest + 8 /\ s("openAttempt") = rest + 7
             /\ s("startProcessing") = rest + 6 /\ s("prepare") = rest + 5
             /\ s("send") = rest + 4 /\ s("markRejected") = rest + 4
             /\ s("closeRejected") = rest + 3 /\ s("closeFailed") = rest + 3
             /\ s("markSucceeded") = rest + 3 /\ s("closeSucceeded") = rest + 2
             /\ s("storePost") = rest + 1 /\ s("markRetrying") = rest + 2
             /\ s("markFailed") = rest + 2 /\ s("markDead") = rest + 2
BY ServiceAssumption DEF StepsInTask, StepsPerPlatform

\* Within one platform the count is positive and below that of a platform that
\* is still ahead.
LEMMA PlatformStepsBounds ==
  ASSUME NEW l \in InTask, NEW a \in Nat, l \in Looping => a <= MaxRetries
  PROVE  /\ StepsInTask(l, a) \in Nat
         /\ 0 < StepsInTask(l, a) /\ StepsInTask(l, a) < StepsPerPlatform
<1>1. MaxRetries \in Nat
  BY ServiceAssumption
<1>2. CASE l \in {"lookup", "createTask"}
  BY <1>1, <1>2, PlatformSteps DEF StepsPerPlatform
<1>3. CASE l \in Looping
  BY <1>1, <1>3, PlatformSteps DEF StepsPerPlatform, Looping, BeforeSend, AfterPost
<1>4. QED BY <1>2, <1>3 DEF InTask, Looping

\* The count of a call, by the label it is at.
LEMMA StepsByLabel ==
  ASSUME NEW c \in CallState, c.pc \in InTask => c.todo # << >>,
         c.pc \in Looping => c.attempt <= MaxRetries
  PROVE  LET ahead == StepsPerPlatform * Len(c.todo)
         IN  /\ ahead \in Nat /\ StepsPerPlatform \in Nat \ {0}
             /\ c.pc \in InTask =>
                  /\ StepsOf(c) = ahead - StepsPerPlatform + 2
                                  + StepsInTask(c.pc, c.attempt)
                  /\ ahead - StepsPerPlatform \in Nat
                  /\ StepsInTask(c.pc, c.attempt) \in 1 .. StepsPerPlatform - 1
             /\ c.pc = "recheck" => StepsOf(c) = ahead + 4
             /\ c.pc = "enter" => StepsOf(c) = ahead + 3
             /\ c.pc = "loop" => StepsOf(c) = ahead + 2
             /\ c.pc = "leave" => StepsOf(c) = 1
             /\ c.pc \in Finished \union {"idle"} => StepsOf(c) = 0
<1> DEFINE n == Len(c.todo)
           w == StepsPerPlatform
<1>1. n \in Nat /\ w \in Nat \ {0} /\ c.attempt \in Nat
  BY ServiceAssumption, LenProperties DEF CallState, StepsPerPlatform
<1>2. c.pc \in InTask => n > 0
  BY <1>1, EmptySeq, LenProperties DEF CallState
<1>3. c.pc \in InTask => StepsInTask(c.pc, c.attempt) \in 1 .. w - 1
  <2> SUFFICES ASSUME c.pc \in InTask
               PROVE  StepsInTask(c.pc, c.attempt) \in 1 .. w - 1
    OBVIOUS
  <2> DEFINE s == StepsInTask(c.pc, c.attempt)
  <2>1. s \in Nat /\ 0 < s /\ s < StepsPerPlatform
    BY <1>1, PlatformStepsBounds, Zenon
  <2> HIDE DEF s
  <2>2. s \in 1 .. w - 1
    BY <1>1, <2>1
  <2>3. QED BY <2>2 DEF s
<1>4. /\ w * n \in Nat /\ w * (n - 0) = w * n
      /\ n > 0 => w * (n - 1) \in Nat /\ w * (n - 1) = w * n - w
  <2> HIDE DEF n, w
  <2>1. QED BY <1>1
<1>5. CASE c.pc \in InTask
  <2>1. StepsOf(c) = w * (n - 1) + 2 + StepsInTask(c.pc, c.attempt)
    BY <1>5 DEF StepsOf
  <2> HIDE DEF n, w
  <2>2. StepsOf(c) = w * n - w + 2 + StepsInTask(c.pc, c.attempt)
    BY <1>2, <1>4, <1>5, <2>1
  <2>3. w * n - w \in Nat
    BY <1>2, <1>4, <1>5
  <2>4. QED BY <1>1, <1>3, <1>4, <1>5, <2>2, <2>3, LabelFacts DEF n, w, Finished
<1>6. CASE c.pc \notin InTask
  <2>1. StepsOf(c) = IF c.pc = "recheck" THEN w * (n - 0) + 2 + 2
                     ELSE IF c.pc = "enter" THEN w * (n - 0) + 2 + 1
                     ELSE IF c.pc = "loop" THEN w * (n - 0) + 2
                     ELSE IF c.pc = "leave" THEN 1 ELSE 0
    BY <1>6 DEF StepsOf
  <2> DEFINE m == w * n
  <2>2. m \in Nat /\ w * (n - 0) = m
    BY <1>4
  <2> HIDE DEF n, w, m
  <2>3. /\ c.pc = "recheck" => StepsOf(c) = m + 4
        /\ c.pc = "enter" => StepsOf(c) = m + 3
        /\ c.pc = "loop" => StepsOf(c) = m + 2
        /\ c.pc = "leave" => StepsOf(c) = 1
        /\ c.pc \in Finished \union {"idle"} => StepsOf(c) = 0
    BY <2>1, <2>2 DEF Finished
  <2>4. QED BY <1>1, <1>6, <2>2, <2>3 DEF m, n, w
<1>7. QED
  BY <1>5, <1>6

\* Every step of a call that has begun lowers its count.
LEMMA StepsGoDown ==
  ASSUME TypeOK, TypeOK', AttemptsFit, AttemptsFit', NEW k \in Calls, Moves(k)
  PROVE  StepsOf(call'[k]) < StepsOf(call[k])
<1> DEFINE c == call[k]
           d == call'[k]
           w == StepsPerPlatform
           m == w * Len(c.todo)
           s(r) == StepsInTask(r.pc, r.attempt)
<1> SUFFICES StepsOf(d) < StepsOf(c)
  OBVIOUS
<1>1. /\ c \in CallState /\ (c.pc \in InTask => c.todo # << >>)
      /\ c.pc \in Looping => c.attempt <= MaxRetries
  BY DEF TypeOK, AttemptsFit, AttemptFits
<1>2. /\ d \in CallState /\ (d.pc \in InTask => d.todo # << >>)
      /\ d.pc \in Looping => d.attempt <= MaxRetries
  BY DEF TypeOK, AttemptsFit, AttemptFits
<1>3. /\ m \in Nat /\ w \in Nat \ {0}
      /\ c.pc \in InTask => /\ StepsOf(c) = m - w + 2 + s(c)
                            /\ m - w \in Nat /\ s(c) \in 1 .. w - 1
      /\ c.pc = "recheck" => StepsOf(c) = m + 4
      /\ c.pc = "enter" => StepsOf(c) = m + 3
      /\ c.pc = "loop" => StepsOf(c) = m + 2
      /\ c.pc = "leave" => StepsOf(c) = 1
  BY <1>1, StepsByLabel
<1>4. d.todo = c.todo =>
        /\ d.pc \in InTask => StepsOf(d) = m - w + 2 + s(d) /\ s(d) \in 1 .. w - 1
        /\ d.pc = "enter" => StepsOf(d) = m + 3
        /\ d.pc = "loop" => StepsOf(d) = m + 2
  BY <1>2, StepsByLabel
<1>5. d.pc \in Finished => StepsOf(d) = 0
  BY <1>2, StepsByLabel
<1>6. c.attempt \in Nat /\ d.attempt \in Nat /\ MaxRetries \in Nat
  BY <1>1, <1>2, ServiceAssumption DEF CallState
<1> DEFINE same == d.todo = c.todo /\ d.attempt = c.attempt
<1>7. CASE <<c.pc, d.pc>> \in Onwards /\ same
  <2>1. CASE c.pc \in {"recheck", "enter"}
    <3>1. <<c.pc, d.pc>> \in {<<"recheck", "enter">>, <<"enter", "loop">>}
      BY <1>7, <2>1 DEF Onwards
    <3> HIDE DEF c, d, w, m, s
    <3>2. QED BY <1>3, <1>4, <1>7, <3>1
  <2>2. CASE c.pc \notin {"recheck", "enter"}
    <3>1. c.pc \in InTask /\ d.pc \in InTask
      BY <1>7, <2>2, LabelFacts DEF Onwards
    <3>2. s(d) < s(c)
      <4> DEFINE a == c.attempt
                 t(l) == StepsInTask(l, a)
                 rest == 7 * (MaxRetries - a)
      <4>0. rest \in Int
        BY <1>6
      <4>1. /\ t("lookup") = 1 /\ t("createTask") = 7 * MaxRetries + 9
            /\ t("count") = rest + 8 /\ t("openAttempt") = rest + 7
            /\ t("startProcessing") = rest + 6 /\ t("prepare") = rest + 5
            /\ t("send") = rest + 4 /\ t("markRejected") = rest + 4
            /\ t("closeRejected") = rest + 3 /\ t("closeFailed") = rest + 3
            /\ t("markSucceeded") = rest + 3 /\ t("closeSucceeded") = rest + 2
            /\ t("storePost") = rest + 1
            /\ t("markFailed") = rest + 2 /\ t("markDead") = rest + 2
        BY <1>6, PlatformSteps
      <4>2. s(d) = t(d.pc) /\ s(c) = t(c.pc)
        BY <1>7
      <4> HIDE DEF c, d, s, t, rest
      <4>3. t(d.pc) < t(c.pc)
        BY <1>6, <1>7, <2>2, <4>0, <4>1 DEF Onwards
      <4>4. QED BY <4>2, <4>3
    <3> HIDE DEF c, d, w, m, s
    <3>3. QED BY <1>3, <1>4, <1>7, <3>1, <3>2
  <2>3. QED BY <2>1, <2>2
<1>8. CASE /\ c.pc = "loop" /\ c.todo # << >>
           /\ d.pc \in {"lookup", "createTask"} /\ same
  <2>1. d.pc \in InTask
    BY <1>8, LabelFacts
  <2> HIDE DEF c, d, w, m, s
  <2>2. QED BY <1>3, <1>4, <1>8, <2>1
<1>9. CASE /\ c.pc = "createTask" /\ d.pc = "count"
           /\ d.todo = c.todo /\ d.attempt = 0
  <2>1. s(d) = 7 * (MaxRetries - 0) + 8 /\ s(c) = 7 * MaxRetries + 9
    BY <1>6, <1>9, PlatformSteps
  <2>2. c.pc \in InTask /\ d.pc \in InTask
    BY <1>9, LabelFacts
  <2> HIDE DEF c, d, w, m, s
  <2>3. s(d) < s(c)
    BY <1>6, <2>1
  <2>4. QED BY <1>3, <1>4, <1>9, <2>2, <2>3
<1>10. CASE /\ c.pc = "closeFailed" /\ c.attempt < MaxRetries
            /\ d.pc = "markRetrying" /\ same
  <2>1. /\ s(d) = 7 * (MaxRetries - c.attempt) + 2
        /\ s(c) = 7 * (MaxRetries - c.attempt) + 3
    BY <1>6, <1>10, PlatformSteps
  <2>2. c.pc \in InTask /\ d.pc \in InTask
    BY <1>10, LabelFacts
  <2> HIDE DEF c, d, w, m, s
  <2>3. s(d) < s(c)
    BY <1>6, <2>1
  <2>4. QED BY <1>3, <1>4, <1>10, <2>2, <2>3
<1>11. CASE /\ c.pc = "markRetrying" /\ d.pc = "count"
            /\ d.todo = c.todo /\ d.attempt = c.attempt + 1
  <2>1. /\ s(d) = 7 * (MaxRetries - (c.attempt + 1)) + 8
        /\ s(c) = 7 * (MaxRetries - c.attempt) + 2
    BY <1>6, <1>11, PlatformSteps
  <2>2. c.pc \in InTask /\ d.pc \in InTask
    BY <1>11, LabelFacts
  <2> HIDE DEF c, d, w, m, s
  <2>3. s(d) < s(c)
    BY <1>6, <2>1
  <2>4. QED BY <1>3, <1>4, <1>11, <2>2, <2>3
<1>12. CASE /\ c.pc \in Reporting /\ c.todo # << >>
            /\ d.pc = "loop" /\ d.todo = Tail(c.todo)
  <2>1. Len(c.todo) \in Nat /\ Len(d.todo) = Len(c.todo) - 1
    BY <1>1, <1>12, HeadTailProperties, LenProperties DEF CallState
  <2>2. StepsOf(d) = w * Len(d.todo) + 2
    BY <1>2, <1>12, StepsByLabel
  <2>3. w * Len(d.todo) = m - w
    <3> DEFINE n == Len(c.todo)
               n2 == Len(d.todo)
    <3>1. n \in Nat /\ n2 = n - 1 /\ w \in Nat
      BY <1>3, <2>1
    <3> HIDE DEF n, n2, w
    <3>2. w * n2 = w * n - w
      BY <3>1
    <3>3. QED BY <3>2 DEF n, n2
  <2>4. c.pc = "loop" \/ c.pc \in InTask
    BY <1>12, LabelFacts DEF Reporting
  <2> HIDE DEF c, d, w, m, s
  <2>5. StepsOf(d) = m - w + 2
    BY <2>2, <2>3
  <2>6. QED BY <1>3, <2>4, <2>5
<1>13. CASE c.pc = "loop" /\ c.todo = << >> /\ d.pc \in {"leave", "returned"}
  <2>1. StepsOf(d) \in {0, 1}
    BY <1>2, <1>13, StepsByLabel DEF Finished
  <2> HIDE DEF c, d, w, m, s
  <2>2. QED BY <1>3, <1>13, <2>1
<1>14. CASE c.pc \in {"recheck", "enter", "leave"} /\ d.pc \in Finished
  <2> HIDE DEF c, d, w, m, s
  <2>1. QED BY <1>3, <1>5, <1>14
<1>15. QED
  BY <1>7, <1>8, <1>9, <1>10, <1>11, <1>12, <1>13, <1>14 DEF Moves

\* Every call that has begun makes finitely many steps, at most seven for each
\* attempt the policy allows on each platform of its list and a few more, and no
\* other call and no failing store can add to them: what is left of CallsReturn
\* is that the goroutine is scheduled.
THEOREM CallsAreFinite == Spec => []StepsAreCounted /\ CallsAdvance
<1>1. TypeOK /\ AttemptsFit => StepsAreCounted
  <2> SUFFICES ASSUME TypeOK, AttemptsFit, NEW k \in Calls
               PROVE  StepsOf(call[k]) \in Nat
    BY DEF StepsAreCounted, StepsLeft
  <2> DEFINE c == call[k]
             w == StepsPerPlatform
             m == w * Len(c.todo)
             s == StepsInTask(c.pc, c.attempt)
  <2>1. /\ c \in CallState /\ (c.pc \in InTask => c.todo # << >>)
        /\ c.pc \in Looping => c.attempt <= MaxRetries
    BY DEF TypeOK, AttemptsFit, AttemptFits
  <2>2. /\ m \in Nat /\ w \in Nat
        /\ c.pc \in InTask => /\ StepsOf(c) = m - w + 2 + s
                              /\ m - w \in Nat /\ s \in 1 .. w - 1
        /\ c.pc = "recheck" => StepsOf(c) = m + 4
        /\ c.pc = "enter" => StepsOf(c) = m + 3
        /\ c.pc = "loop" => StepsOf(c) = m + 2
        /\ c.pc = "leave" => StepsOf(c) = 1
        /\ c.pc \in Finished \union {"idle"} => StepsOf(c) = 0
    BY <2>1, StepsByLabel
  <2>3. c.pc \in InTask \union {"recheck", "enter", "loop", "leave", "idle"}
                \union Finished
    BY <2>1 DEF CallState, Labels, Executing
  <2> HIDE DEF c, w, m, s
  <2>4. StepsOf(c) \in Nat
    BY <2>2, <2>3
  <2>5. QED BY <2>4 DEF c
<1>2. TypeOK /\ TypeOK' /\ AttemptsFit /\ AttemptsFit' /\ [Next]_vars =>
        [\A k \in Calls :
           ~At(k, "idle") /\ call'[k] # call[k] => StepsLeft(k)' < StepsLeft(k)]_vars
  <2> SUFFICES ASSUME TypeOK, TypeOK', AttemptsFit, AttemptsFit', [Next]_vars,
                      NEW k \in Calls, ~At(k, "idle"), call'[k] # call[k]
               PROVE  StepsOf(call'[k]) < StepsOf(call[k])
    BY DEF StepsLeft
  <2>1. Continue(k)
    <3>1. ASSUME NEW j \in Calls, Continue(j), j # k PROVE FALSE
      BY <3>1, StepMoves
    <3>2. ASSUME NEW j \in Calls, NEW intent \in Intents, Fetch(j, intent)
          PROVE  FALSE
      <4>1. j # k
        BY <3>2 DEF Fetch
      <4>2. QED BY <3>2, <4>1, FetchMoves
    <3>3. QED BY <3>1, <3>2 DEF Next, UserMovesContent, ExpireKey, vars
  <2>2. QED BY <2>1, StepAdvances, StepsGoDown
<1>3. QED
  BY <1>1, <1>2, TypeCorrect, AttemptsInvariant, PTL DEF Spec, CallsAdvance

-------------------------------------------------------------------------------
(* How often a platform is posted to, whatever becomes of the replies.      *)

Trying == { "count", "openAttempt", "startProcessing", "prepare", "send" }

Tried == { "closeFailed", "markRetrying" }

\* A platform without a task shows nothing, and the posts of one that is being
\* tried are paid for by the attempts its call has made.
PaidFor(k) ==
  /\ call[k].pc \in Trying =>
       task[Platform(k)] # "none" /\ live[Platform(k)] <= call[k].attempt
  /\ call[k].pc \in Tried =>
       task[Platform(k)] # "none" /\ live[Platform(k)] <= call[k].attempt + 1

PostsInv ==
  /\ PostsAreBounded
  /\ \A p \in Platforms : task[p] = "none" => live[p] = 0
  /\ \A k \in Calls : PaidFor(k)

\* The call that steps keeps its part.
LEMMA StepPays ==
  ASSUME TypeOK, AttemptsFit, PostsInv, NEW k \in Calls, Moves(k), PostEffect(k),
         TaskEffect(k), PhaseEffect(k)
  PROVE  PaidFor(k)'
<1> DEFINE c == call[k]
           d == call'[k]
           p == Platform(k)
<1>1. /\ c.pc \in InTask => p \in Platforms
      /\ live \in [Platforms -> Nat] /\ c.attempt \in Nat
      /\ task \in [Platforms -> TaskStatuses \union {"none"}]
  BY TypeOKParts, PlatformType DEF TypeOK, CallOK, CallState
<1> SUFFICES ASSUME d.pc \in Trying \union Tried
             PROVE  /\ task'[Head(d.todo)] # "none"
                    /\ IF d.pc \in Tried THEN live'[Head(d.todo)] <= d.attempt + 1
                       ELSE live'[Head(d.todo)] <= d.attempt
  BY DEF PaidFor, Platform, Trying, Tried
<1>2. d.todo = c.todo /\ Head(d.todo) = p
  BY DEF PhaseEffect, Trying, Tried, BeforeSend, Platform
<1>3. CASE c.pc = "createTask"
  <2>1. d.pc = "count" /\ d.attempt = 0 /\ p \in Platforms
    BY <1>1, <1>3, LabelFacts DEF Moves, Onwards, Trying, Tried
  <2>2. task'[p] = "pending" /\ live[p] = 0
    BY <1>1, <1>3, <2>1 DEF PhaseEffect, PostsInv, BeforeSend, At
  <2>3. UNCHANGED live
    BY <1>3 DEF PostEffect, At
  <2>4. QED BY <1>2, <2>1, <2>2, <2>3
<1>4. CASE c.pc # "createTask"
  <2>1. c.pc \in Trying \union Tried /\ p \in Platforms
    BY <1>1, <1>4, LabelFacts DEF Moves, Onwards, Trying, Tried, Finished
  <2>2. task[p] # "none" /\ task'[p] # "none"
    BY <1>1, <2>1 DEF PostsInv, PaidFor, TaskEffect, TaskStatuses
  <2>3. live'[p] <= live[p] + (IF c.pc = "send" THEN 1 ELSE 0)
    BY <1>1, <2>1 DEF PostEffect, At
  <2>4. live[p] <= c.attempt + (IF c.pc \in Tried THEN 1 ELSE 0)
    BY <1>1, <2>1 DEF PostsInv, PaidFor
  <2>5. /\ live[p] \in Nat /\ live'[p] \in Nat
        /\ \/ d.attempt = c.attempt /\ (c.pc \in Tried => d.pc \in Tried)
              /\ (c.pc = "send" => d.pc \in Tried)
           \/ /\ c.pc = "markRetrying" /\ d.pc = "count"
              /\ d.attempt = c.attempt + 1
    BY <1>1, <2>1 DEF Moves, Onwards, Trying, Tried, Finished, PostEffect
  <2> HIDE DEF c, d, p
  <2>6. IF d.pc \in Tried THEN live'[p] <= d.attempt + 1 ELSE live'[p] <= d.attempt
    BY <1>1, <2>3, <2>4, <2>5 DEF Tried
  <2>7. QED BY <1>2, <2>2, <2>6
<1>5. QED
  BY <1>3, <1>4

LEMMA PostsInvariant == Spec => []PostsInv
<1>1. Init => PostsInv
  BY ServiceAssumption DEF Init, PostsInv, PostsAreBounded, PaidFor, Trying, Tried
<1>2. /\ TypeOK /\ PublishingIsExclusive /\ AttemptsFit /\ PostsInv
      /\ [Next]_vars
      => PostsInv'
  <2> SUFFICES ASSUME TypeOK, PublishingIsExclusive, AttemptsFit, PostsInv,
                      [Next]_vars
               PROVE  PostsInv'
    OBVIOUS
  <2> USE ServiceAssumption
  <2>1. ASSUME NEW k \in Calls, Continue(k) PROVE PostsInv'
    <3>0. /\ \A j \in Calls \ {k} : call'[j] = call[j]
          /\ PostEffect(k) /\ TaskEffect(k) /\ PhaseEffect(k) /\ Moves(k)
          /\ live \in [Platforms -> Nat]
          /\ task \in [Platforms -> TaskStatuses \union {"none"}]
          /\ \A j \in Calls : call[j].pc \in InTask => Platform(j) \in Platforms
      BY <2>1, StepMoves, StepEffects, StepAdvances, TypeOKParts, PlatformType
         DEF TypeOK, CallOK
    <3>1. \/ UNCHANGED live
          \/ /\ At(k, "send") /\ Platform(k) \in Platforms
             /\ live' = [live EXCEPT ![Platform(k)] = live[Platform(k)] + 1]
      BY <3>0 DEF PostEffect, At, InTask, BeforeSend
    <3>2. PostsAreBounded'
      <4>1. At(k, "send") => live[Platform(k)] <= MaxRetries
        <5>1. call[k].attempt \in Nat
          BY DEF TypeOK, CallState
        <5>2. QED BY <3>0, <5>1 DEF At, PostsInv, PaidFor, AttemptsFit,
                 AttemptFits, Trying, Looping, BeforeSend, InTask
      <4>2. QED BY <3>0, <3>1, <4>1 DEF PostsInv, PostsAreBounded
    <3>3. ASSUME NEW p \in Platforms, task'[p] = "none" PROVE live'[p] = 0
      <4>1. task[p] = "none" /\ live[p] = 0
        BY <3>0, <3>3 DEF TaskEffect, TaskStatuses, PostsInv
      <4>2. At(k, "send") => p # Platform(k)
        BY <4>1 DEF At, PostsInv, PaidFor, Trying
      <4>3. QED BY <3>0, <3>1, <4>1, <4>2
    <3>4. ASSUME NEW j \in Calls PROVE PaidFor(j)'
      <4>1. CASE j = k
        BY <3>0, <4>1, StepPays
      <4>2. CASE j # k /\ call[j].pc \in Trying \union Tried
        <5>1. UNCHANGED live
          BY <3>1, <4>2 DEF PublishingIsExclusive, Executor, Executing, InTask,
             BeforeSend, At, Trying, Tried
        <5>2. \A p \in Platforms : task[p] # "none" => task'[p] # "none"
          BY <3>0 DEF TaskEffect, TaskStatuses
        <5>3. Platform(j) \in Platforms
          BY <3>0, <4>2 DEF InTask, BeforeSend, Trying, Tried
        <5>4. QED BY <3>0, <4>2, <5>1, <5>2, <5>3 DEF PostsInv, PaidFor, Platform
      <4>3. CASE j # k /\ call[j].pc \notin Trying \union Tried
        BY <3>0, <4>3 DEF PaidFor
      <4>4. QED BY <4>1, <4>2, <4>3
    <3>5. QED BY <3>2, <3>3, <3>4 DEF PostsInv
  <2>2. ASSUME NEW k \in Calls, NEW intent \in Intents, Fetch(k, intent)
        PROVE  PostsInv'
    <3>1. /\ UNCHANGED << task, live >>
          /\ \A j \in Calls : call'[j].pc \in Trying \union Tried =>
                              call'[j] = call[j]
      BY <2>2, FetchMoves DEF Trying, Tried
    <3>2. QED BY <3>1 DEF PostsInv, PostsAreBounded, PaidFor, Platform
  <2>3. ASSUME UNCHANGED << task, live, call >> PROVE PostsInv'
    BY <2>3 DEF PostsInv, PostsAreBounded, PaidFor, Platform
  <2> QED
    BY <2>1, <2>2, <2>3 DEF Next, UserMovesContent, ExpireKey, vars
<1>3. QED
  BY <1>1, <1>2, TypeCorrect, ExclusivePublishing, AttemptsInvariant, PTL DEF Spec

\* Whatever replies are lost, whatever store calls fail and however many calls
\* publish the content, a platform is posted to at most as often as the policy
\* allows attempts for one task.
THEOREM AttemptsBoundPosts == Spec => []PostsAreBounded
<1>1. PostsInv => PostsAreBounded
  BY DEF PostsInv
<1>2. QED
  BY <1>1, PostsInvariant, PTL

===============================================================================
