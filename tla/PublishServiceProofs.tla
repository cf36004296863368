------------------------- MODULE PublishServiceProofs -------------------------
(***************************************************************************)
(* Theorems about PublishService for every set of platforms and calls,     *)
(* every list of intents, every MaxRetries and every number of store       *)
(* faults.                                                                 *)
(***************************************************************************)
EXTENDS PublishService, SequenceTheorems, TLAPS

\* The part of TypeOK about the calls' local state.
CallOK ==
  /\ call \in [Calls -> CallState]
  /\ \A k \in Calls : call[k].pc \in InTask => call[k].todo # << >>

\* The part about the stores and the platforms.
StoreOK ==
  /\ status \in ContentStatuses
  /\ task \in [Platforms -> TaskStatuses \union {"none"}]
  /\ attemptCount \in [Platforms -> Nat]
  /\ attempts \in [Platforms -> Seq(Attempt)]
  /\ posts \subseteq Platforms
  /\ claimed \subseteq Registered
  /\ live \in [Platforms -> Nat]
  /\ faults \in 0 .. MaxFaults

LEMMA TypeOKParts == TypeOK <=> StoreOK /\ CallOK
BY DEF TypeOK, StoreOK, CallOK

-------------------------------------------------------------------------------
(* Facts about the helpers.                                                 *)

\* The target of the final transition is one the machine allows from
\* publishing, whatever the list of results.
LEMMA FinalStatusIsFinal ==
  ASSUME NEW k
  PROVE  FinalStatus(k) \in {"published", "partially_published", "failed"}
BY DEF FinalStatus, AggregateStatus

\* Inside a task the current platform is a platform.
LEMMA PlatformType ==
  ASSUME CallOK, NEW k \in Calls, call[k].todo # << >>
  PROVE  /\ Platform(k) \in Platforms
         /\ Tail(call[k].todo) \in Seq(Platforms)
<1>1. call[k].todo \in Seq(Platforms)
  BY DEF CallOK, CallState
<1>2. QED
  BY <1>1, HeadTailProperties DEF Platform

\* Which labels are inside a task.
LEMMA LabelFacts ==
  /\ InTask \subseteq Labels
  /\ \A l \in { "lookup", "createTask", "count", "openAttempt",
               "startProcessing", "prepare", "send", "markRejected",
               "closeRejected", "closeFailed", "markFailed", "markDead",
               "markRetrying", "markSucceeded", "closeSucceeded",
               "storePost" } : l \in InTask
  /\ \A l \in { "idle", "recheck", "enter", "loop", "leave", "returned",
               "rejected" } : l \in Labels \ InTask
BY DEF Labels, Executing, Finished, InTask, BeforeSend, AfterPost

\* Moving one call to another label.
LEMMA GotoType ==
  ASSUME CallOK, NEW k \in Calls, NEW l \in Labels, Goto(k, l),
         l \in InTask => call[k].todo # << >>
  PROVE  CallOK'
BY DEF CallOK, CallState, Goto

\* Replacing the local state of one call.
LEMMA ReplaceType ==
  ASSUME CallOK, NEW k \in Calls, NEW r \in CallState,
         r.pc \in InTask => r.todo # << >>, call' = [call EXCEPT ![k] = r]
  PROVE  CallOK'
BY DEF CallOK

\* Moving it and setting one of the variables of executeWithRetry.
LEMMA AssignType ==
  ASSUME CallOK, NEW k \in Calls, NEW l \in Labels,
         l \in InTask => call[k].todo # << >>
  PROVE  /\ \A n \in Nat :
              call' = [call EXCEPT ![k].pc = l, ![k].attempt = n] => CallOK'
         /\ \A n \in Nat :
              call' = [call EXCEPT ![k].pc = l, ![k].rec = n] => CallOK'
         /\ \A f \in FailureKinds :
              call' = [call EXCEPT ![k].pc = l, ![k].failure = f] => CallOK'
<1>0. call[k] \in CallState
  BY DEF CallOK
<1>1. ASSUME NEW n \in Nat,
             call' = [call EXCEPT ![k].pc = l, ![k].attempt = n]
      PROVE  CallOK'
  <2> DEFINE r == [call[k] EXCEPT !.pc = l, !.attempt = n]
  <2>1. r \in CallState /\ r.pc = l /\ r.todo = call[k].todo
    BY <1>0 DEF CallState
  <2>2. call' = [call EXCEPT ![k] = r]
    BY <1>1 DEF CallOK
  <2> HIDE DEF r
  <2>3. QED BY <2>1, <2>2, ReplaceType
<1>2. ASSUME NEW n \in Nat,
             call' = [call EXCEPT ![k].pc = l, ![k].rec = n]
      PROVE  CallOK'
  <2> DEFINE r == [call[k] EXCEPT !.pc = l, !.rec = n]
  <2>1. r \in CallState /\ r.pc = l /\ r.todo = call[k].todo
    BY <1>0 DEF CallState
  <2>2. call' = [call EXCEPT ![k] = r]
    BY <1>2 DEF CallOK
  <2> HIDE DEF r
  <2>3. QED BY <2>1, <2>2, ReplaceType
<1>3. ASSUME NEW f \in FailureKinds,
             call' = [call EXCEPT ![k].pc = l, ![k].failure = f]
      PROVE  CallOK'
  <2> DEFINE r == [call[k] EXCEPT !.pc = l, !.failure = f]
  <2>1. r \in CallState /\ r.pc = l /\ r.todo = call[k].todo
    BY <1>0 DEF CallState
  <2>2. call' = [call EXCEPT ![k] = r]
    BY <1>3 DEF CallOK
  <2> HIDE DEF r
  <2>3. QED BY <2>1, <2>2, ReplaceType
<1>4. QED
  BY <1>1, <1>2, <1>3

\* Reporting the outcome of the current platform.
LEMMA ReportType ==
  ASSUME CallOK, NEW k \in Calls, NEW s \in TaskStatuses,
         call[k].todo # << >>, Report(k, s)
  PROVE  CallOK'
<1> DEFINE r == [platform |-> Platform(k), status |-> s]
<1>1. r \in Result /\ Tail(call[k].todo) \in Seq(Platforms)
  BY PlatformType DEF Result
<1>2. Append(call[k].results, r) \in Seq(Result)
  BY <1>1, AppendProperties DEF CallOK, CallState
<1>3. "loop" \in Labels /\ "loop" \notin InTask
  BY LabelFacts
<1> HIDE DEF r
<1>4. call' = [call EXCEPT ![k].pc = "loop", ![k].todo = Tail(call[k].todo),
                           ![k].results = Append(call[k].results, r)]
  BY DEF Report, r, CallOK
<1> DEFINE c == [call[k] EXCEPT !.pc = "loop", !.todo = Tail(call[k].todo),
                                !.results = Append(call[k].results, r)]
<1>5. c \in CallState /\ c.pc = "loop"
  <2>1. call[k] \in CallState
    BY DEF CallOK
  <2>2. QED BY <1>1, <1>2, <1>3, <2>1 DEF CallState
<1>6. call' = [call EXCEPT ![k] = c]
  BY <1>4 DEF CallOK
<1> HIDE DEF c
<1>7. QED
  BY <1>3, <1>5, <1>6, ReplaceType

\* UpdateTaskStatus keeps the stores well typed.
LEMMA UpdateTaskType ==
  ASSUME StoreOK, NEW p \in Platforms, NEW to \in TaskStatuses,
         UpdateTaskStatus(p, to)
  PROVE  /\ task' \in [Platforms -> TaskStatuses \union {"none"}]
         /\ faults' \in 0 .. MaxFaults
<1>1. /\ task' = task \/ task' = [task EXCEPT ![p] = to]
      /\ faults' = faults \/ (faults < MaxFaults /\ faults' = faults + 1)
  BY DEF UpdateTaskStatus, StoreWorks, StoreFails
<1>2. /\ task \in [Platforms -> TaskStatuses \union {"none"}]
      /\ faults \in 0 .. MaxFaults
  BY DEF StoreOK
<1>3. QED BY <1>1, <1>2, ServiceAssumption

\* CompleteAttempt rewrites the status of one record.
LEMMA CompleteAttemptType ==
  ASSUME StoreOK, CallOK, NEW k \in Calls, NEW s \in {"succeeded", "failed"},
         call[k].todo # << >>, CompleteAttempt(k, s)
  PROVE  /\ attempts' \in [Platforms -> Seq(Attempt)]
         /\ faults' \in 0 .. MaxFaults
<1> DEFINE p == Platform(k)
           n == call[k].rec
           log == attempts[p]
<1>1. p \in Platforms /\ log \in Seq(Attempt) /\ n \in Nat
  BY PlatformType DEF StoreOK, CallOK, CallState
<1>2. [log EXCEPT ![n].status = s] \in Seq(Attempt)
  <2>1. CASE n \in 1 .. Len(log)
    <3>1. log[n] \in Attempt
      BY <1>1, <2>1, ElementOfSeq
    <3>2. [log[n] EXCEPT !.status = s] \in Attempt
      BY <3>1 DEF Attempt
    <3>3. [log EXCEPT ![n] = [log[n] EXCEPT !.status = s]] \in Seq(Attempt)
      BY <1>1, <2>1, <3>2, ExceptSeq
    <3>4. QED
      BY <3>3
  <2>2. CASE n \notin 1 .. Len(log)
    <3>1. DOMAIN log = 1 .. Len(log) /\ log \in [1 .. Len(log) -> Attempt]
      BY <1>1, LenProperties
    <3>2. [log EXCEPT ![n].status = s] = log
      BY <2>2, <3>1
    <3>3. QED
      BY <1>1, <3>2
  <2>3. QED
    BY <2>1, <2>2
<1>3. faults' \in 0 .. MaxFaults
  BY ServiceAssumption DEF CompleteAttempt, StoreWorks, StoreFails, StoreOK
<1>4. attempts' = attempts
      \/ attempts' = [attempts EXCEPT ![p] = [log EXCEPT ![n].status = s]]
  BY DEF CompleteAttempt, StoreOK
<1> HIDE DEF log, n, p
<1>5. QED
  BY <1>1, <1>2, <1>3, <1>4 DEF StoreOK
-------------------------------------------------------------------------------
(* Type correctness.                                                        *)

\* Every step of a call keeps the types.
LEMMA StepType ==
  ASSUME TypeOK, NEW k \in Calls, Continue(k)
  PROVE  TypeOK'
<1> USE ServiceAssumption
<1>0. StoreOK /\ CallOK
  BY TypeOKParts
<1> USE <1>0
<1> SUFFICES StoreOK' /\ CallOK'
  BY TypeOKParts, PTL
<1>1. CASE Recheck(k)
  <2>1. StoreOK'
    BY <1>1 DEF Recheck, StoreOK, StoreWorks, StoreFails, auditVars
  <2>2. CallOK'
    BY <1>1, GotoType, LabelFacts DEF Recheck
  <2>3. QED BY <2>1, <2>2
<1>2. CASE EnterPublishing(k)
  <2>1. StoreOK'
    BY <1>2 DEF EnterPublishing, StoreOK, StoreWorks, StoreFails, auditVars,
       ContentStatuses
  <2>2. CallOK'
    BY <1>2, GotoType, LabelFacts DEF EnterPublishing
  <2>3. QED BY <2>1, <2>2
<1>3. CASE ClaimKey(k)
  <2>1. StoreOK'
    BY <1>3 DEF ClaimKey, StoreOK, StoreWorks, StoreFails, auditVars
  <2>2. CallOK'
    <3>1. call[k].todo # << >>
      BY <1>3 DEF ClaimKey
    <3>2. QED BY <1>3, <3>1, GotoType, ReportType, LabelFacts
              DEF ClaimKey, TaskStatuses
  <2>3. QED BY <2>1, <2>2
<1>4. CASE LookupExisting(k)
  <2>1. StoreOK'
    BY <1>4 DEF LookupExisting, StoreOK, StoreWorks, StoreFails, auditVars
  <2>2. call[k].todo # << >>
    BY <1>4, LabelFacts DEF LookupExisting, At, CallOK
  <2>3. task[Platform(k)] \in TaskStatuses \union {"none"}
    BY <2>2, PlatformType DEF StoreOK
  <2>4. CallOK'
    BY <1>4, <2>2, <2>3, ReportType DEF LookupExisting, TaskStatuses
  <2>5. QED BY <2>1, <2>4
<1>5. CASE CreateTask(k)
  <2>1. StoreOK'
    <3>1. /\ \/ task' = task
             \/ task' = [task EXCEPT ![Platform(k)] = "pending"]
          /\ faults' \in 0 .. MaxFaults
          /\ UNCHANGED << status, attemptCount, attempts, posts, claimed, live >>
      BY <1>5 DEF CreateTask, StoreOK, StoreWorks, StoreFails, auditVars
    <3>2. QED BY <3>1 DEF StoreOK, TaskStatuses
  <2>2. call[k].todo # << >>
    BY <1>5, LabelFacts DEF CreateTask, At, CallOK
  <2>3. CASE call' = [call EXCEPT ![k].pc = "count", ![k].attempt = 0]
    BY <2>1, <2>2, <2>3, AssignType, LabelFacts
  <2>4. CASE Goto(k, "lookup")
    BY <2>1, <2>2, <2>4, GotoType, LabelFacts
  <2>5. CASE Report(k, "failed")
    BY <2>1, <2>2, <2>5, ReportType DEF TaskStatuses
  <2>6. QED BY <1>5, <2>1, <2>3, <2>4, <2>5 DEF CreateTask
<1>6. CASE IncrementAttemptCount(k)
  <2>1. call[k].todo # << >>
    BY <1>6, LabelFacts DEF IncrementAttemptCount, At, CallOK
  <2>2. StoreOK'
    BY <1>6 DEF IncrementAttemptCount, StoreOK, StoreWorks, StoreFails, auditVars
  <2>3. CallOK'
    BY <1>6, <2>1, GotoType, LabelFacts DEF IncrementAttemptCount
  <2>4. QED BY <2>2, <2>3
<1>7. CASE CreateAttempt(k)
  <2>1. call[k].todo # << >>
    BY <1>7, LabelFacts DEF CreateAttempt, At, CallOK
  <2> DEFINE p == Platform(k)
             a == [number |-> call[k].attempt + 1, status |-> "processing"]
  <2>2. p \in Platforms /\ attempts[p] \in Seq(Attempt)
    BY <2>1, PlatformType DEF StoreOK
  <2>3. Len(attempts[p]) \in Nat /\ a \in Attempt
    BY <2>2, LenProperties DEF CallOK, CallState, Attempt
  <2>4. Append(attempts[p], a) \in Seq(Attempt)
    BY <2>2, <2>3, AppendProperties
  <2>5. attempts' \in [Platforms -> Seq(Attempt)]
    <3>1. attempts' \in { attempts,
                          [attempts EXCEPT ![p] = Append(attempts[p], a)] }
      BY <1>7 DEF CreateAttempt, StoreOK
    <3> HIDE DEF a, p
    <3>2. QED BY <2>2, <2>4, <3>1 DEF StoreOK
  <2>6. StoreOK'
    BY <1>7, <2>5 DEF CreateAttempt, StoreOK, StoreWorks, StoreFails
  <2>7. CallOK'
    <3>1. PICK n \in Nat :
            call' = [call EXCEPT ![k].pc = "startProcessing", ![k].rec = n]
      <4>1. Len(attempts[Platform(k)]) + 1 \in Nat
        BY <2>3
      <4>2. \/ call' = [call EXCEPT ![k].pc = "startProcessing",
                              ![k].rec = Len(attempts[Platform(k)]) + 1]
            \/ call' = [call EXCEPT ![k].pc = "startProcessing", ![k].rec = 0]
        BY <1>7 DEF CreateAttempt
      <4>3. QED BY <4>1, <4>2
    <3>2. QED BY <2>1, <3>1, AssignType, LabelFacts
  <2>8. QED BY <2>6, <2>7
<1>8. CASE StartProcessing(k) \/ MarkRejected(k) \/ MarkSucceeded(k)
  <2>1. call[k].todo # << >>
    BY <1>8, LabelFacts DEF StartProcessing, MarkRejected, MarkSucceeded, At, CallOK
  <2>2. StoreOK'
    BY <1>8, <2>1, PlatformType, UpdateTaskType DEF StartProcessing, MarkRejected,
       MarkSucceeded, StoreOK, auditVars, TaskStatuses
  <2>3. CallOK'
    BY <1>8, <2>1, GotoType, LabelFacts DEF StartProcessing, MarkRejected, MarkSucceeded
  <2>4. QED BY <2>2, <2>3
<1>9. CASE Prepare(k)
  <2>1. call[k].todo # << >>
    BY <1>9, LabelFacts DEF Prepare, At, CallOK
  <2>2. CallOK'
    BY <1>9, <2>1, GotoType, LabelFacts DEF Prepare
  <2>3. QED BY <1>9, <2>2 DEF Prepare, StoreOK, auditVars
<1>10. CASE CloseRejected(k) \/ CloseSucceeded(k) \/ CloseFailed(k)
  <2>1. call[k].todo # << >>
    BY <1>10, LabelFacts DEF CloseRejected, CloseSucceeded, CloseFailed, At, CallOK
  <2>2. StoreOK'
    BY <1>10, <2>1, CompleteAttemptType DEF CloseRejected, CloseSucceeded,
       CloseFailed, StoreOK
  <2>3. CallOK'
    BY <1>10, <2>1, GotoType, LabelFacts, ReportType DEF CloseRejected, CloseSucceeded,
       CloseFailed, AfterFailure, TaskStatuses
  <2>4. QED BY <2>2, <2>3
<1>11. CASE Send(k)
  <2>1. call[k].todo # << >>
    BY <1>11, LabelFacts DEF Send, At, CallOK
  <2>2. StoreOK'
    <3>1. /\ \/ live' = live
             \/ live' = [live EXCEPT ![Platform(k)] = live[Platform(k)] + 1]
          /\ UNCHANGED << status, task, attemptCount, attempts, posts, claimed,
                          faults >>
      BY <1>11 DEF Send, auditVars
    <3>2. live[Platform(k)] + 1 \in Nat
      BY <2>1, PlatformType DEF StoreOK
    <3>3. QED BY <3>1, <3>2 DEF StoreOK
  <2>3. ASSUME Goto(k, "markSucceeded") PROVE CallOK'
    BY <2>1, <2>3, GotoType, LabelFacts
  <2>4. ASSUME NEW f \in FailureKinds,
               call' = [call EXCEPT ![k].pc = "closeFailed", ![k].failure = f]
        PROVE  CallOK'
    BY <2>1, <2>4, AssignType, LabelFacts
  <2>5. QED BY <1>11, <2>2, <2>3, <2>4 DEF Send, FailureKinds
<1>12. CASE StorePost(k)
  <2>1. call[k].todo # << >>
    BY <1>12, LabelFacts DEF StorePost, At, CallOK
  <2>2. StoreOK'
    <3>1. /\ posts' \subseteq posts \union {Platform(k)}
          /\ UNCHANGED faults \/ (faults < MaxFaults /\ faults' = faults + 1)
          /\ UNCHANGED << status, task, attemptCount, attempts, claimed, live >>
      BY <1>12 DEF StorePost, StoreWorks, StoreFails
    <3>2. Platform(k) \in Platforms
      BY <2>1, PlatformType
    <3>3. posts' \subseteq Platforms /\ faults' \in 0 .. MaxFaults
      BY <3>1, <3>2, ServiceAssumption DEF StoreOK
    <3>4. QED BY <3>1, <3>3 DEF StoreOK
  <2>3. CallOK'
    BY <1>12, <2>1, ReportType DEF StorePost, TaskStatuses
  <2>4. QED BY <2>2, <2>3
<1>13. CASE MarkFailed(k) \/ MarkDead(k)
  <2>1. call[k].todo # << >>
    BY <1>13, LabelFacts DEF MarkFailed, MarkDead, At, CallOK
  <2>2. StoreOK'
    BY <1>13, <2>1, PlatformType, UpdateTaskType DEF MarkFailed, MarkDead, StoreOK,
       auditVars, TaskStatuses
  <2>3. CallOK'
    BY <1>13, <2>1, ReportType DEF MarkFailed, MarkDead, TaskStatuses
  <2>4. QED BY <2>2, <2>3
<1>14. CASE MarkRetrying(k)
  <2>1. call[k].todo # << >>
    BY <1>14, LabelFacts DEF MarkRetrying, At, CallOK
  <2>2. StoreOK'
    BY <1>14, <2>1, PlatformType, UpdateTaskType DEF MarkRetrying, StoreOK,
       auditVars, TaskStatuses
  <2>3. CallOK'
    <3>1. call[k].attempt + 1 \in Nat
      BY DEF CallOK, CallState
    <3>2. call' = [call EXCEPT ![k].pc = "count",
                               ![k].attempt = call[k].attempt + 1]
      BY <1>14 DEF MarkRetrying
    <3>3. QED BY <2>1, <3>1, <3>2, AssignType, LabelFacts
  <2>4. QED BY <2>2, <2>3
<1>15. CASE VerifyPublishing(k)
  <2>1. StoreOK'
    BY <1>15 DEF VerifyPublishing, StoreOK, StoreWorks, StoreFails, auditVars
  <2>2. CallOK'
    BY <1>15, GotoType, LabelFacts DEF VerifyPublishing
  <2>3. QED BY <2>1, <2>2
<1>16. CASE LeavePublishing(k)
  <2>1. StoreOK'
    BY <1>16, FinalStatusIsFinal DEF LeavePublishing, StoreOK, StoreWorks,
       StoreFails, auditVars, ContentStatuses
  <2>2. CallOK'
    BY <1>16, GotoType, LabelFacts DEF LeavePublishing
  <2>3. QED BY <2>1, <2>2
<1>17. QED
  BY <1>1, <1>2, <1>3, <1>4, <1>5, <1>6, <1>7, <1>8, <1>9, <1>10, <1>11, <1>12,
     <1>13, <1>14, <1>15, <1>16 DEF Continue

\* Every state of the service is well typed, for every instance.
THEOREM TypeCorrect == Spec => []TypeOK
<1>1. Init => TypeOK
  BY ServiceAssumption DEF Init, TypeOK, CallState, ContentStatuses,
     Labels, InTask, BeforeSend, AfterPost, FailureKinds
<1>2. TypeOK /\ [Next]_vars => TypeOK'
  <2> SUFFICES ASSUME TypeOK, [Next]_vars PROVE TypeOK'
    OBVIOUS
  <2>1. ASSUME NEW k \in Calls, Continue(k) PROVE TypeOK'
    BY <2>1, StepType
  <2>2. ASSUME NEW k \in Calls, NEW intent \in Intents, Fetch(k, intent)
        PROVE  TypeOK'
    <3>1. intent \in Seq(Platforms)
      BY ServiceAssumption
    <3>2. CallOK /\ StoreOK
      BY TypeOKParts
    <3>3. ASSUME Goto(k, "rejected") PROVE CallOK'
      BY <2>2, <3>2, <3>3, GotoType, LabelFacts
    <3>4. ASSUME NEW l \in {"recheck", "rejected"},
                 call' = [call EXCEPT ![k].pc = l, ![k].from = status,
                                      ![k].todo = intent]
          PROVE  CallOK'
      <4> DEFINE r == [call[k] EXCEPT !.pc = l, !.from = status,
                                      !.todo = intent]
      <4>1. call[k] \in CallState /\ status \in ContentStatuses
        BY <3>2 DEF CallOK, StoreOK
      <4>2. r \in CallState /\ r.pc = l
        BY <3>1, <4>1, LabelFacts DEF CallState
      <4>3. call' = [call EXCEPT ![k] = r]
        BY <3>2, <3>4 DEF CallOK
      <4> HIDE DEF r
      <4>4. QED BY <3>2, <4>2, <4>3, ReplaceType, LabelFacts
    <3>5. CallOK'
      BY <2>2, <3>3, <3>4 DEF Fetch
    <3>6. StoreOK'
      BY <2>2, ServiceAssumption DEF Fetch, TypeOK, StoreOK, StoreWorks,
         StoreFails, auditVars
    <3>7. QED BY <3>5, <3>6, TypeOKParts, PTL
  <2>3. ASSUME NEW to \in ContentStatuses, UserMovesContent(to) PROVE TypeOK'
    BY <2>3 DEF UserMovesContent, TypeOK, auditVars
  <2>4. ASSUME NEW p \in Platforms, ExpireKey(p) PROVE TypeOK'
    BY <2>4 DEF ExpireKey, TypeOK, auditVars
  <2> QED
    <3>1. CASE UNCHANGED vars
      BY <3>1 DEF TypeOK, vars, auditVars
    <3>2. QED BY <3>1, <2>2, <2>4, <2>3, <2>1 DEF Next
<1>3. QED
  BY <1>1, <1>2, PTL DEF Spec
-------------------------------------------------------------------------------
(* Exclusive publishing.                                                    *)

\* The labels a call moves between, and what its step does to the status.
Approach(k) ==
  /\ call[k].pc \in {"recheck", "enter"}
  /\ call'[k].pc \in {"enter", "rejected"}
  /\ status' = status

Enters(k) ==
  /\ At(k, "enter")
  /\ call'[k].pc = "loop"
  /\ status' = "publishing"
  /\ ContentCanTransition(status, "publishing")

Works(k) ==
  /\ Executor(k)
  /\ call'[k].pc \in Executing \union {"returned"}
  /\ call'[k].pc = "returned" => StoreFails \/ status # "publishing"
  /\ status' = status

Leaves(k) ==
  /\ At(k, "leave")
  /\ call'[k].pc = "returned"
  /\ \/ status' = FinalStatus(k)
     \/ /\ status' = status
        /\ \/ StoreFails
           \/ ~ContentCanTransition(status, FinalStatus(k))

LEMMA StepMoves ==
  ASSUME TypeOK, NEW k \in Calls, Continue(k)
  PROVE  /\ \A j \in Calls \ {k} : call'[j] = call[j]
         /\ Approach(k) \/ Enters(k) \/ Works(k) \/ Leaves(k)
<1>0. call \in [Calls -> CallState] /\ call[k] \in CallState
  BY DEF TypeOK
<1> USE <1>0 DEF At, Goto, Report, CallState
<1>1. CASE Recheck(k)
  BY <1>1 DEF Recheck, Approach
<1>2. CASE EnterPublishing(k)
  BY <1>2 DEF EnterPublishing, Approach, Enters
<1>3. CASE ClaimKey(k)
  BY <1>3 DEF ClaimKey, Works, Executor, Executing, InTask
<1>4. CASE LookupExisting(k)
  BY <1>4 DEF LookupExisting, Works, Executor, Executing, InTask
<1>5. CASE CreateTask(k)
  BY <1>5 DEF CreateTask, Works, Executor, Executing, InTask, BeforeSend
<1>6. CASE IncrementAttemptCount(k)
  BY <1>6 DEF IncrementAttemptCount, Works, Executor, Executing, InTask, BeforeSend
<1>7. CASE CreateAttempt(k)
  BY <1>7 DEF CreateAttempt, Works, Executor, Executing, InTask, BeforeSend
<1>8. CASE StartProcessing(k)
  BY <1>8 DEF StartProcessing, Works, Executor, Executing, InTask, BeforeSend
<1>9. CASE Prepare(k)
  BY <1>9 DEF Prepare, Works, Executor, Executing, InTask, BeforeSend
<1>10. CASE MarkRejected(k)
  BY <1>10 DEF MarkRejected, Works, Executor, Executing, InTask, BeforeSend
<1>11. CASE CloseRejected(k)
  BY <1>11 DEF CloseRejected, Works, Executor, Executing, InTask, BeforeSend
<1>12. CASE Send(k)
  BY <1>12 DEF Send, Works, Executor, Executing, InTask, BeforeSend, AfterPost
<1>13. CASE MarkSucceeded(k)
  BY <1>13 DEF MarkSucceeded, Works, Executor, Executing, InTask, AfterPost
<1>14. CASE CloseSucceeded(k)
  BY <1>14 DEF CloseSucceeded, Works, Executor, Executing, InTask, AfterPost
<1>15. CASE StorePost(k)
  BY <1>15 DEF StorePost, Works, Executor, Executing, InTask, AfterPost
<1>16. CASE CloseFailed(k)
  BY <1>16 DEF CloseFailed, AfterFailure, Works, Executor, Executing, InTask, BeforeSend
<1>17. CASE MarkFailed(k)
  BY <1>17 DEF MarkFailed, Works, Executor, Executing, InTask, BeforeSend
<1>18. CASE MarkDead(k)
  BY <1>18 DEF MarkDead, Works, Executor, Executing, InTask, BeforeSend
<1>19. CASE MarkRetrying(k)
  BY <1>19 DEF MarkRetrying, Works, Executor, Executing, InTask, BeforeSend
<1>20. CASE VerifyPublishing(k)
  BY <1>20 DEF VerifyPublishing, Works, Executor, Executing
<1>21. CASE LeavePublishing(k)
  BY <1>21 DEF LeavePublishing, Leaves
<1>22. QED
  BY <1>1, <1>2, <1>3, <1>4, <1>5, <1>6, <1>7, <1>8, <1>9, <1>10, <1>11, <1>12,
     <1>13, <1>14, <1>15, <1>16, <1>17, <1>18, <1>19, <1>20, <1>21 DEF Continue

\* Starting a call touches nothing but that call, which does not execute.
LEMMA FetchMoves ==
  ASSUME TypeOK, NEW k \in Calls, NEW intent \in Intents, Fetch(k, intent)
  PROVE  /\ \A j \in Calls \ {k} : call'[j] = call[j]
         /\ call'[k].pc \in {"recheck", "rejected"}
         /\ call'[k].results = call[k].results
         /\ UNCHANGED << status, task, live >>
<1>0. call \in [Calls -> CallState] /\ call[k] \in CallState
  BY DEF TypeOK
<1>1. QED
  BY <1>0 DEF Fetch, Goto, CallState

\* At most one call executes, and only while the content is publishing: the
\* edge check inside UpdateContent is enough to serialise Publish calls.
THEOREM ExclusivePublishing == Spec => []PublishingIsExclusive
<1>1. Init => PublishingIsExclusive
  BY DEF Init, PublishingIsExclusive, Executor, Executing, InTask, BeforeSend,
     AfterPost
<1>2. TypeOK /\ PublishingIsExclusive /\ [Next]_vars => PublishingIsExclusive'
  <2> SUFFICES ASSUME TypeOK, PublishingIsExclusive, [Next]_vars
               PROVE  PublishingIsExclusive'
    OBVIOUS
  <2>1. ASSUME NEW k \in Calls, Continue(k) PROVE PublishingIsExclusive'
    <3>1. \A j \in Calls \ {k} : call'[j] = call[j]
      BY <2>1, StepMoves
    <3>2. CASE Approach(k)
      BY <3>1, <3>2 DEF Approach, PublishingIsExclusive, Executor, Executing,
         InTask, BeforeSend, AfterPost
    <3>3. CASE Enters(k)
      <4>1. \A j \in Calls : ~Executor(j)
        BY <3>3 DEF Enters, ContentCanTransition, ContentEdges,
           PublishingIsExclusive
      <4>2. QED
        BY <3>1, <3>3, <4>1 DEF Enters, PublishingIsExclusive, Executor
    <3>4. CASE Works(k)
      BY <3>1, <3>4 DEF Works, PublishingIsExclusive, Executor
    <3>5. CASE Leaves(k)
      <4>1. \A j \in Calls \ {k} : ~Executor(j)
        BY <3>5 DEF Leaves, At, PublishingIsExclusive, Executor, Executing
      <4>2. QED
        BY <3>1, <3>5, <4>1 DEF Leaves, PublishingIsExclusive, Executor,
           Executing, InTask, BeforeSend, AfterPost
    <3>6. QED BY <2>1, <3>2, <3>3, <3>4, <3>5, StepMoves
  <2>2. ASSUME NEW k \in Calls, NEW intent \in Intents, Fetch(k, intent)
        PROVE  PublishingIsExclusive'
    BY <2>2, FetchMoves DEF PublishingIsExclusive, Executor, Executing, InTask,
       BeforeSend, AfterPost
  <2>3. ASSUME NEW to \in ContentStatuses, UserMovesContent(to)
        PROVE  PublishingIsExclusive'
    BY <2>3 DEF UserMovesContent, ContentCanTransition, ContentEdges,
       PublishingIsExclusive, Executor
  <2>4. ASSUME NEW p \in Platforms, ExpireKey(p) PROVE PublishingIsExclusive'
    <3>1. UNCHANGED << status, call >>
      BY <2>4 DEF ExpireKey
    <3>2. QED BY <3>1 DEF PublishingIsExclusive, Executor
  <2> QED
    <3>1. CASE UNCHANGED vars
      BY <3>1 DEF vars, PublishingIsExclusive, Executor
    <3>2. QED BY <3>1, <2>2, <2>4, <2>3, <2>1 DEF Next
<1>3. QED
  BY <1>1, <1>2, TypeCorrect, PTL DEF Spec

-------------------------------------------------------------------------------
(* Until a store call returns an error.                                     *)

\* Errors are counted and never forgotten: before the first one, and in the steps
\* up to it, a store call is one that works.
LEMMA StoresAnswer ==
  ASSUME TypeOK, [Next]_vars, faults' = 0
  PROVE  faults = 0 /\ ~StoreFails
<1>1. faults \in Nat
  BY ServiceAssumption DEF TypeOK
<1>2. ~StoreFails
  BY <1>1 DEF StoreFails
<1>3. ASSUME NEW k \in Calls, Continue(k) PROVE UNCHANGED faults
  BY <1>2, <1>3
     DEF Continue, Recheck, EnterPublishing, ClaimKey, LookupExisting, CreateTask,
         IncrementAttemptCount, CreateAttempt, StartProcessing, Prepare, MarkRejected,
         CloseRejected, Send, MarkSucceeded, CloseSucceeded, StorePost, CloseFailed,
         MarkFailed, MarkDead, MarkRetrying, VerifyPublishing, LeavePublishing,
         UpdateTaskStatus, CompleteAttempt, StoreWorks
<1>4. QED
  BY <1>2, <1>3 DEF Next, Fetch, UserMovesContent, ExpireKey, StoreWorks, vars

\* Until a store fails, a publishing content has a call at work on it: with
\* ExclusivePublishing, exactly one.
THEOREM PublishingIsOwned == Spec => [](faults = 0 => PublishingHasExecutor)
<1>1. Init => PublishingHasExecutor
  BY DEF Init, PublishingHasExecutor
<1>2. /\ TypeOK /\ PublishingIsExclusive /\ (faults = 0 => PublishingHasExecutor)
      /\ [Next]_vars
      => (faults = 0 => PublishingHasExecutor)'
  <2> SUFFICES ASSUME TypeOK, PublishingIsExclusive, PublishingHasExecutor,
                      [Next]_vars, faults' = 0, status' = "publishing"
               PROVE  \E k \in Calls : call'[k].pc \in Executing
    BY StoresAnswer DEF PublishingHasExecutor, Executor
  <2> USE DEF PublishingHasExecutor, Executor
  <2>0. ~StoreFails
    BY StoresAnswer
  <2>1. ASSUME NEW k \in Calls, Continue(k)
        PROVE  \E j \in Calls : call'[j].pc \in Executing
    <3>1. \A j \in Calls \ {k} : call'[j] = call[j]
      BY <2>1, StepMoves
    <3>2. CASE Approach(k)
      <4>1. PICK j \in Calls : call[j].pc \in Executing
        BY <3>2 DEF Approach
      <4>2. j # k
        BY <3>2, <4>1 DEF Approach, Executing, InTask, BeforeSend, AfterPost
      <4>3. QED BY <3>1, <4>1, <4>2
    <3>3. CASE Enters(k)
      BY <3>3 DEF Enters, Executing
    <3>4. CASE Works(k)
      BY <2>0, <3>4 DEF Works, PublishingIsExclusive
    <3>5. CASE Leaves(k)
      <4>1. status = "publishing"
        BY <3>5 DEF Leaves, At, PublishingIsExclusive, Executing
      <4>2. /\ ContentCanTransition(status, FinalStatus(k))
            /\ FinalStatus(k) # "publishing"
        BY <4>1, FinalStatusIsFinal DEF ContentCanTransition, ContentEdges
      <4>3. QED BY <2>0, <3>5, <4>2 DEF Leaves
    <3>6. QED BY <2>1, <3>2, <3>3, <3>4, <3>5, StepMoves
  <2>2. ASSUME NEW k \in Calls, NEW intent \in Intents, Fetch(k, intent)
        PROVE  \E j \in Calls : call'[j].pc \in Executing
    <3>1. PICK j \in Calls : call[j].pc \in Executing
      BY <2>2, FetchMoves
    <3>2. j # k
      BY <2>2, <3>1 DEF Fetch, At, Executing, InTask, BeforeSend, AfterPost
    <3>3. QED BY <2>2, <3>1, <3>2, FetchMoves
  <2>3. ASSUME NEW to \in ContentStatuses, UserMovesContent(to)
        PROVE  \E j \in Calls : call'[j].pc \in Executing
    BY <2>3 DEF UserMovesContent
  <2>4. ASSUME NEW p \in Platforms, ExpireKey(p)
        PROVE  \E j \in Calls : call'[j].pc \in Executing
    BY <2>4 DEF ExpireKey
  <2> QED
    <3>1. CASE UNCHANGED vars
      BY <3>1 DEF vars
    <3>2. QED BY <3>1, <2>2, <2>4, <2>3, <2>1 DEF Next
<1>3. QED
  BY <1>1, <1>2, TypeCorrect, ExclusivePublishing, PTL DEF Spec

-------------------------------------------------------------------------------
(* Posts.                                                                   *)

\* A platform is contacted only by Send, and an acceptance is followed by
\* markSucceeded unless the reply is lost.
PostEffect(k) ==
  \/ UNCHANGED live
  \/ /\ At(k, "send")
     /\ live' = [live EXCEPT ![Platform(k)] = live[Platform(k)] + 1]
     /\ call'[k].pc = "markSucceeded" \/ ReplyLoss

\* A task is written by the call that executes it; it never disappears, and
\* becomes succeeded only after an acceptance.
TaskEffect(k) ==
  \/ UNCHANGED task
  \/ \E s \in TaskStatuses :
       /\ call[k].pc \in InTask
       /\ task' = [task EXCEPT ![Platform(k)] = s]
       /\ s = "succeeded" => At(k, "markSucceeded")

\* Results are appended, and a success is reported after an acceptance or for
\* a task stored as succeeded.
ResultEffect(k) ==
  \/ call'[k].results = call[k].results
  \/ \E s \in TaskStatuses :
       /\ call[k].todo # << >>
       /\ call'[k].results = Append(call[k].results,
                                    [platform |-> Platform(k), status |-> s])
       /\ s = "succeeded" => \/ At(k, "storePost")
                             \/ task[Platform(k)] = "succeeded"

\* How a call comes to be before its send, or after an acceptance.
PhaseEffect(k) ==
  /\ call'[k].pc \in BeforeSend =>
       /\ call'[k].todo = call[k].todo
       /\ \/ call[k].pc \in BeforeSend
          \/ At(k, "createTask") /\ task[Platform(k)] = "none"
                                 /\ task' = [task EXCEPT ![Platform(k)] = "pending"]
  /\ call'[k].pc \in AfterPost =>
       /\ call'[k].todo = call[k].todo
       /\ \/ call[k].pc \in AfterPost
          \/ /\ At(k, "send")
             /\ live' = [live EXCEPT ![Platform(k)] = live[Platform(k)] + 1]

\* A step that only moves the call on, to a label outside an attempt.
LEMMA QuietGoto ==
  ASSUME TypeOK, NEW k \in Calls, NEW l, l \notin BeforeSend \union AfterPost,
         Goto(k, l), UNCHANGED << live, task >>
  PROVE  PostEffect(k) /\ TaskEffect(k) /\ ResultEffect(k) /\ PhaseEffect(k)
<1>1. call'[k].pc = l /\ call'[k].results = call[k].results
  BY DEF TypeOK, CallState, Goto
<1>2. QED BY <1>1 DEF PostEffect, TaskEffect, ResultEffect, PhaseEffect

\* A platform given up before its task is executed.
LEMMA QuietReport ==
  ASSUME TypeOK, NEW k \in Calls, call[k].todo # << >>,
         Report(k, "failed"), UNCHANGED << live, task >>
  PROVE  PostEffect(k) /\ TaskEffect(k) /\ ResultEffect(k) /\ PhaseEffect(k)
<1>1. /\ call'[k].pc = "loop"
      /\ call'[k].results = Append(call[k].results,
                                   [platform |-> Platform(k), status |-> "failed"])
  BY DEF TypeOK, CallState, Report
<1>2. "failed" \in TaskStatuses /\ "failed" # "succeeded"
  BY DEF TaskStatuses
<1>3. "loop" \notin BeforeSend \union AfterPost
  BY DEF BeforeSend, AfterPost
<1>4. ResultEffect(k)
  BY <1>1, <1>2, Zenon DEF ResultEffect
<1>5. PhaseEffect(k)
  BY <1>1, <1>3, Zenon DEF PhaseEffect
<1>6. QED BY <1>4, <1>5 DEF PostEffect, TaskEffect

LEMMA StepEffects ==
  ASSUME TypeOK, NEW k \in Calls, Continue(k)
  PROVE  PostEffect(k) /\ TaskEffect(k) /\ ResultEffect(k) /\ PhaseEffect(k)
<1>0. /\ call \in [Calls -> CallState] /\ call[k] \in CallState
      /\ call[k].pc \in InTask => call[k].todo # << >>
      /\ call[k].todo # << >> => Platform(k) \in Platforms
      /\ task \in [Platforms -> TaskStatuses \union {"none"}]
  BY TypeOKParts, PlatformType DEF TypeOK
<1>outside. {"enter", "rejected", "loop", "createTask", "lookup"}
              \intersect (BeforeSend \union AfterPost) = {}
  BY DEF BeforeSend, AfterPost
<1>1. CASE Recheck(k)
  <2>1. (Goto(k, "enter") \/ Goto(k, "rejected")) /\ UNCHANGED << live, task >>
    BY <1>1 DEF Recheck
  <2>2. QED BY <1>outside, <2>1, QuietGoto
<1>2. CASE EnterPublishing(k)
  <2>1. (Goto(k, "loop") \/ Goto(k, "rejected")) /\ UNCHANGED << live, task >>
    BY <1>2 DEF EnterPublishing
  <2>2. QED BY <1>outside, <2>1, QuietGoto
<1>3. CASE ClaimKey(k)
  <2>1. /\ call[k].todo # << >> /\ UNCHANGED << live, task >>
        /\ Goto(k, "createTask") \/ Goto(k, "lookup") \/ Report(k, "failed")
    BY <1>3 DEF ClaimKey
  <2>2. CASE Report(k, "failed")
    BY <2>1, <2>2, QuietReport
  <2>3. QED BY <1>outside, <2>1, <2>2, QuietGoto
<1>4. CASE LookupExisting(k)
  <2>1. call[k].todo # << >> /\ UNCHANGED << live, task >>
    BY <1>0, <1>4 DEF LookupExisting, At, InTask
  <2>2. CASE Report(k, "failed")
    BY <2>1, <2>2, QuietReport
  <2>3. CASE /\ task[Platform(k)] # "none"
             /\ Report(k, task[Platform(k)])
    <3> DEFINE s == task[Platform(k)]
    <3>1. s \in TaskStatuses
      BY <1>0, <2>1, <2>3
    <3>2. /\ call'[k].pc = "loop"
          /\ call'[k].results = Append(call[k].results,
                                       [platform |-> Platform(k), status |-> s])
      BY <1>0, <2>3 DEF Report, CallState
    <3>3. "loop" \notin BeforeSend \union AfterPost
      BY <1>outside
    <3>4. ResultEffect(k)
      BY <2>1, <3>1, <3>2 DEF ResultEffect
    <3>5. PhaseEffect(k)
      BY <3>2, <3>3 DEF PhaseEffect
    <3>6. QED BY <2>1, <3>4, <3>5 DEF PostEffect, TaskEffect
  <2>4. QED BY <1>4, <2>2, <2>3 DEF LookupExisting
<1>5. CASE CreateTask(k)
  <2>1. /\ call[k].todo # << >> /\ At(k, "createTask") /\ UNCHANGED live
        /\ call[k].pc \in InTask
    BY <1>0, <1>5 DEF CreateTask, At, InTask
  <2>2. CASE /\ task[Platform(k)] = "none"
             /\ task' = [task EXCEPT ![Platform(k)] = "pending"]
             /\ call' = [call EXCEPT ![k].pc = "count", ![k].attempt = 0]
    <3>1. /\ call'[k].pc = "count" /\ call'[k].todo = call[k].todo
          /\ call'[k].results = call[k].results
      BY <1>0, <2>2 DEF CallState
    <3>2. "pending" \in TaskStatuses /\ "count" \notin AfterPost
      BY DEF TaskStatuses, AfterPost
    <3>3. TaskEffect(k)
      BY <2>1, <2>2, <3>2 DEF TaskEffect
    <3>4. PhaseEffect(k)
      BY <2>1, <2>2, <3>1, <3>2 DEF PhaseEffect
    <3>5. QED BY <2>1, <3>1, <3>3, <3>4 DEF PostEffect, ResultEffect
  <2>3. CASE (Goto(k, "lookup") \/ Report(k, "failed")) /\ UNCHANGED task
    BY <1>outside, <2>1, <2>3, QuietGoto, QuietReport
  <2>4. QED BY <1>5, <2>2, <2>3 DEF CreateTask
<1> USE <1>0 DEF At, Goto, Report, CallState, PostEffect, TaskEffect,
        ResultEffect, PhaseEffect, TaskStatuses, InTask, BeforeSend, AfterPost
<1>6. CASE IncrementAttemptCount(k)
  BY <1>6 DEF IncrementAttemptCount
<1>7. CASE CreateAttempt(k)
  BY <1>7 DEF CreateAttempt
<1>8. CASE StartProcessing(k)
  BY <1>8 DEF StartProcessing, UpdateTaskStatus
<1>9. CASE Prepare(k)
  BY <1>9 DEF Prepare
<1>10. CASE MarkRejected(k)
  BY <1>10 DEF MarkRejected, UpdateTaskStatus
<1>11. CASE CloseRejected(k)
  BY <1>11 DEF CloseRejected
<1>12. CASE Send(k)
  BY <1>12 DEF Send
<1>13. CASE MarkSucceeded(k)
  BY <1>13 DEF MarkSucceeded, UpdateTaskStatus
<1>14. CASE CloseSucceeded(k)
  BY <1>14 DEF CloseSucceeded
<1>15. CASE StorePost(k)
  BY <1>15 DEF StorePost
<1>16. CASE CloseFailed(k)
  BY <1>16 DEF CloseFailed, AfterFailure
<1>17. CASE MarkFailed(k)
  BY <1>17 DEF MarkFailed, UpdateTaskStatus
<1>18. CASE MarkDead(k)
  BY <1>18 DEF MarkDead, UpdateTaskStatus
<1>19. CASE MarkRetrying(k)
  BY <1>19 DEF MarkRetrying, UpdateTaskStatus
<1>20. CASE VerifyPublishing(k)
  BY <1>20 DEF VerifyPublishing
<1>21. CASE LeavePublishing(k)
  BY <1>21 DEF LeavePublishing
<1>22. QED
  BY <1>1, <1>2, <1>3, <1>4, <1>5, <1>6, <1>7, <1>8, <1>9, <1>10, <1>11, <1>12,
     <1>13, <1>14, <1>15, <1>16, <1>17, <1>18, <1>19, <1>20, <1>21, Zenon DEF Continue

\* OutcomesArePosted strengthened: a call between the acceptance and the
\* report has its post on the platform.
PostedInv ==
  /\ OutcomesArePosted
  /\ \A k \in Calls : call[k].pc \in AfterPost => live[Platform(k)] > 0

\* A final status other than failed is backed by a result that says succeeded.
LEMMA FinalStatusPosted ==
  ASSUME TypeOK, OutcomesArePosted, NEW k \in Calls,
         FinalStatus(k) # "failed"
  PROVE  \E p \in Platforms : live[p] > 0
<1>1. PICK i \in DOMAIN call[k].results : call[k].results[i].status = "succeeded"
  BY DEF FinalStatus, AggregateStatus
<1>2. call[k].results[i].platform \in Platforms
  <2>1. call[k].results \in Seq(Result)
    BY DEF TypeOK, CallState
  <2>2. call[k].results[i] \in Result
    BY <2>1, LenProperties, ElementOfSeq
  <2>3. QED BY <2>2 DEF Result
<1>3. QED
  BY <1>1, <1>2 DEF OutcomesArePosted

\* Posts never go away, and a step changes at most the one its call sends.
LEMMA LiveGrows ==
  ASSUME TypeOK, NEW k \in Calls, Continue(k)
  PROVE  \A p \in Platforms : live[p] > 0 => live'[p] > 0
<1>1. live \in [Platforms -> Nat] /\ PostEffect(k)
  BY StepEffects DEF TypeOK
<1>2. CASE UNCHANGED live
  BY <1>2
<1>3. CASE live' = [live EXCEPT ![Platform(k)] = live[Platform(k)] + 1]
  BY <1>1, <1>3
<1>4. QED
  BY <1>1, <1>2, <1>3 DEF PostEffect

LEMMA PostedInvariant == Spec => []PostedInv
<1>1. Init => PostedInv
  BY DEF Init, PostedInv, OutcomesArePosted, AfterPost
<1>2. TypeOK /\ PostedInv /\ [Next]_vars => PostedInv'
  <2> SUFFICES ASSUME TypeOK, PostedInv, [Next]_vars PROVE PostedInv'
    OBVIOUS
  <2> USE DEF PostedInv, OutcomesArePosted
  <2>1. ASSUME NEW k \in Calls, Continue(k) PROVE PostedInv'
    <3>0. /\ \A j \in Calls \ {k} : call'[j] = call[j]
          /\ PostEffect(k) /\ TaskEffect(k) /\ ResultEffect(k) /\ PhaseEffect(k)
          /\ \A p \in Platforms : live[p] > 0 => live'[p] > 0
          /\ call[k].todo # << >> => Platform(k) \in Platforms
          /\ call[k].pc \in InTask => call[k].todo # << >>
      BY <2>1, StepMoves, StepEffects, LiveGrows, TypeOKParts, PlatformType
         DEF CallOK
    <3>1. ASSUME NEW p \in Platforms, task'[p] = "succeeded" PROVE live'[p] > 0
      <4>1. CASE task[p] = "succeeded"
        BY <3>0, <4>1
      <4>2. CASE task[p] # "succeeded"
        <5>1. At(k, "markSucceeded") /\ p = Platform(k)
          BY <3>0, <3>1, <4>2 DEF TaskEffect, TypeOK
        <5>2. QED BY <3>0, <5>1 DEF At, AfterPost
      <4>3. QED BY <4>1, <4>2
    <3>2. ASSUME NEW j \in Calls, NEW i \in DOMAIN call'[j].results,
                 call'[j].results[i].status = "succeeded"
          PROVE  live'[call'[j].results[i].platform] > 0
      <4>1. /\ call[j].results \in Seq(Result)
            /\ \A n \in DOMAIN call[j].results :
                 call[j].results[n].platform \in Platforms
        <5>1. call[j].results \in Seq(Result)
          BY DEF TypeOK, CallState
        <5>2. \A n \in DOMAIN call[j].results : call[j].results[n] \in Result
          BY <5>1, LenProperties, ElementOfSeq
        <5>3. QED BY <5>1, <5>2 DEF Result
      <4>2. CASE call'[j].results = call[j].results
        BY <3>0, <3>2, <4>1, <4>2
      <4>3. CASE call'[j].results # call[j].results
        <5>1. j = k
          BY <3>0, <4>3
        <5>2. PICK s \in TaskStatuses :
                /\ call[k].todo # << >>
                /\ call'[k].results =
                     Append(call[k].results,
                            [platform |-> Platform(k), status |-> s])
                /\ s = "succeeded" => \/ At(k, "storePost")
                                      \/ task[Platform(k)] = "succeeded"
          BY <3>0, <4>3, <5>1 DEF ResultEffect
        <5> DEFINE r == [platform |-> Platform(k), status |-> s]
                   old == call[k].results
        <5>3. r \in Result /\ old \in Seq(Result)
          BY <3>0, <4>1, <5>1, <5>2 DEF Result
        <5>4. /\ DOMAIN Append(old, r) = 1 .. Len(old) + 1
              /\ DOMAIN old = 1 .. Len(old)
              /\ Append(old, r)[Len(old) + 1] = r
              /\ \A n \in 1 .. Len(old) : Append(old, r)[n] = old[n]
              /\ Len(old) \in Nat
          BY <5>3, AppendProperties, LenProperties
        <5>5. CASE i \in 1 .. Len(old)
          BY <3>0, <3>2, <4>1, <5>1, <5>2, <5>4, <5>5
        <5>6. CASE i = Len(old) + 1
          <6>1. s = "succeeded" /\ call'[j].results[i].platform = Platform(k)
            BY <3>2, <5>1, <5>2, <5>4, <5>6
          <6>2. live[Platform(k)] > 0
            BY <3>0, <5>2, <6>1 DEF At, AfterPost
          <6>3. QED BY <3>0, <5>2, <6>1, <6>2
        <5>7. QED BY <3>2, <5>1, <5>2, <5>4, <5>5, <5>6
      <4>4. QED BY <4>2, <4>3
    <3>3. ASSUME NEW j \in Calls, call'[j].pc \in AfterPost
          PROVE  live'[Head(call'[j].todo)] > 0
      <4>1. CASE j # k
        <5>1. call'[j] = call[j] /\ call[j].todo # << >>
          BY <3>0, <4>1, <3>3, TypeOKParts DEF CallOK, InTask
        <5>2. Platform(j) \in Platforms
          BY <5>1, TypeOKParts, PlatformType
        <5>3. QED BY <3>0, <3>3, <5>1, <5>2 DEF Platform
      <4>2. CASE j = k
        <5>1. call'[k].todo = call[k].todo
          BY <3>0, <3>3, <4>2 DEF PhaseEffect
        <5>2. CASE call[k].pc \in AfterPost
          <6>1. Platform(k) \in Platforms /\ live[Platform(k)] > 0
            BY <3>0, <5>2 DEF InTask
          <6>2. QED BY <3>0, <4>2, <5>1, <6>1 DEF Platform
        <5>3. CASE /\ At(k, "send")
                   /\ live' = [live EXCEPT ![Platform(k)] = live[Platform(k)] + 1]
          <6>1. Platform(k) \in Platforms
            BY <3>0, <5>3 DEF At, InTask, BeforeSend
          <6>2. live[Platform(k)] \in Nat /\ live \in [Platforms -> Nat]
            BY <6>1 DEF TypeOK
          <6>3. live'[Platform(k)] = live[Platform(k)] + 1
            BY <5>3, <6>1, <6>2
          <6>4. QED BY <4>2, <5>1, <6>2, <6>3 DEF Platform
        <5>4. QED BY <3>0, <3>3, <4>2, <5>2, <5>3 DEF PhaseEffect
      <4>3. QED BY <4>1, <4>2
    <3>4. ASSUME status' \in {"published", "partially_published"}
          PROVE  \E p \in Platforms : live'[p] > 0
      <4>1. CASE status' = status
        BY <3>0, <3>4, <4>1
      <4>2. CASE status' # status
        <5>1. Leaves(k) /\ FinalStatus(k) # "failed"
          BY <2>1, <3>4, <4>2, StepMoves DEF Approach, Enters, Works, Leaves
        <5>2. QED BY <3>0, <5>1, FinalStatusPosted
      <4>3. QED BY <4>1, <4>2
    <3>5. QED BY <3>1, <3>2, <3>3, <3>4 DEF Platform
  <2>2. ASSUME NEW k \in Calls, NEW intent \in Intents, Fetch(k, intent)
        PROVE  PostedInv'
    <3>1. /\ UNCHANGED << status, task, live >>
          /\ \A j \in Calls : call'[j].results = call[j].results
          /\ \A j \in Calls : call'[j].pc \in AfterPost => call'[j] = call[j]
      BY <2>2, FetchMoves DEF AfterPost
    <3>2. QED BY <3>1 DEF Platform
  <2>3. ASSUME NEW to \in ContentStatuses, UserMovesContent(to) PROVE PostedInv'
    BY <2>3 DEF UserMovesContent, Platform
  <2>4. ASSUME NEW p \in Platforms, ExpireKey(p) PROVE PostedInv'
    BY <2>4 DEF ExpireKey, Platform
  <2> QED
    <3>1. CASE UNCHANGED vars
      BY <3>1 DEF vars, Platform
    <3>2. QED BY <3>1, <2>2, <2>4, <2>3, <2>1 DEF Next
<1>3. QED
  BY <1>1, <1>2, TypeCorrect, PTL DEF Spec

LogSucceeded(p) == \E i \in DOMAIN attempts[p] : attempts[p][i].status = "succeeded"

\* A record of success is written after an acceptance, by its call.
RecordedEffect(k) ==
  \A p \in Platforms :
    p \in posts' \/ LogSucceeded(p)' =>
      \/ p \in posts \/ LogSucceeded(p)
      \/ p = Platform(k) /\ call[k].pc \in AfterPost

\* Completing an attempt writes one status into one log.
LEMMA CompletionRecords ==
  ASSUME TypeOK, NEW k \in Calls, NEW s \in {"succeeded", "failed"},
         CompleteAttempt(k, s), NEW p \in Platforms, LogSucceeded(p)'
  PROVE  LogSucceeded(p) \/ (p = Platform(k) /\ s = "succeeded")
<1>1. attempts \in [Platforms -> Seq(Attempt)]
  BY DEF TypeOK
<1>2. CASE attempts' = attempts
  BY <1>2 DEF LogSucceeded
<1>3. CASE attempts' = [attempts EXCEPT ![Platform(k)][call[k].rec].status = s]
  <2>1. p # Platform(k) => attempts'[p] = attempts[p]
    BY <1>1, <1>3
  <2>2. CASE p = Platform(k) /\ s = "failed"
    <3> DEFINE log == attempts[p]
               n == call[k].rec
    <3>1. attempts'[p] = [log EXCEPT ![n].status = "failed"]
      BY <1>1, <1>3, <2>2
    <3>2. /\ log \in Seq(Attempt) /\ DOMAIN log = 1 .. Len(log)
          /\ \A i \in DOMAIN log : log[i] \in Attempt
      BY <1>1, LenProperties, ElementOfSeq
    <3>3. PICK i \in DOMAIN attempts'[p] : attempts'[p][i].status = "succeeded"
      BY DEF LogSucceeded
    <3>4. i \in DOMAIN log
      BY <3>1, <3>3
    <3>5. CASE i = n
      <4>1. attempts'[p][i] = [log[i] EXCEPT !.status = "failed"]
        BY <3>1, <3>4, <3>5
      <4>2. log[i] \in Attempt
        BY <3>2, <3>4
      <4>3. attempts'[p][i].status = "failed"
        BY <4>1, <4>2 DEF Attempt
      <4>4. QED BY <3>3, <4>3
    <3>6. CASE i # n
      BY <3>1, <3>3, <3>4, <3>6 DEF LogSucceeded
    <3>7. QED BY <3>5, <3>6
  <2>3. QED BY <2>1, <2>2 DEF LogSucceeded
<1>4. QED BY <1>2, <1>3 DEF CompleteAttempt

LEMMA StepRecorded ==
  ASSUME TypeOK, NEW k \in Calls, Continue(k)
  PROVE  RecordedEffect(k)
<1> USE DEF RecordedEffect, At
<1>1. CASE Recheck(k) \/ EnterPublishing(k) \/ ClaimKey(k) \/ LookupExisting(k)
           \/ CreateTask(k) \/ IncrementAttemptCount(k) \/ StartProcessing(k)
  BY <1>1 DEF Recheck, EnterPublishing, ClaimKey, LookupExisting, CreateTask,
     IncrementAttemptCount, StartProcessing, auditVars, LogSucceeded
<1>2. CASE Prepare(k) \/ MarkRejected(k) \/ Send(k) \/ MarkSucceeded(k)
           \/ MarkFailed(k) \/ MarkDead(k) \/ MarkRetrying(k)
           \/ VerifyPublishing(k) \/ LeavePublishing(k)
  BY <1>2 DEF Prepare, MarkRejected, Send, MarkSucceeded, MarkFailed, MarkDead,
     MarkRetrying, VerifyPublishing, LeavePublishing, auditVars, LogSucceeded
<1>3. CASE CreateAttempt(k)
  <2>1. CASE UNCHANGED attempts
    BY <1>3, <2>1 DEF CreateAttempt, LogSucceeded
  <2>2. CASE attempts' = [attempts EXCEPT ![Platform(k)] =
                            Append(@, [number |-> call[k].attempt + 1,
                                       status |-> "processing"])]
    <3>1. SUFFICES ASSUME NEW p \in Platforms, LogSucceeded(p)' PROVE LogSucceeded(p)
      BY <1>3 DEF CreateAttempt
    <3> DEFINE log == attempts[p]
               new == [number |-> call[k].attempt + 1, status |-> "processing"]
    <3>2. log \in Seq(Attempt) /\ new \in Attempt
      BY DEF TypeOK, CallState, Attempt
    <3>3. attempts'[p] \in {log, Append(log, new)}
      BY <2>2 DEF TypeOK
    <3>4. /\ DOMAIN Append(log, new) = 1 .. Len(log) + 1
          /\ DOMAIN log = 1 .. Len(log) /\ Len(log) \in Nat
          /\ Append(log, new)[Len(log) + 1] = new
          /\ \A i \in 1 .. Len(log) : Append(log, new)[i] = log[i]
      BY <3>2, AppendProperties, LenProperties
    <3>5. new.status # "succeeded"
      OBVIOUS
    <3> HIDE DEF new
    <3>6. PICK i \in DOMAIN attempts'[p] : attempts'[p][i].status = "succeeded"
      BY <3>1 DEF LogSucceeded
    <3>7. CASE attempts'[p] = log
      BY <3>6, <3>7 DEF LogSucceeded
    <3>8. CASE attempts'[p] = Append(log, new)
      <4>1. i \in 1 .. Len(log)
        BY <3>4, <3>5, <3>6, <3>8
      <4>2. log[i].status = "succeeded"
        BY <3>4, <3>6, <3>8, <4>1
      <4>3. QED BY <3>4, <4>1, <4>2 DEF LogSucceeded
    <3>9. QED BY <3>3, <3>7, <3>8
  <2>3. QED BY <1>3, <2>1, <2>2 DEF CreateAttempt
<1>4. CASE CloseRejected(k) \/ CloseFailed(k)
  BY <1>4, CompletionRecords DEF CloseRejected, CloseFailed
<1>5. CASE CloseSucceeded(k)
  BY <1>5, CompletionRecords DEF CloseSucceeded, AfterPost
<1>6. CASE StorePost(k)
  BY <1>6 DEF StorePost, AfterPost, LogSucceeded
<1>7. QED
  BY <1>1, <1>2, <1>3, <1>4, <1>5, <1>6 DEF Continue

\* A post record and a succeeded attempt are written by a call past an acceptance.
LEMMA RecordsPosted == Spec => []RecordsArePosted
<1>1. Init => RecordsArePosted
  BY DEF Init, RecordsArePosted
<1>2. TypeOK /\ PostedInv /\ RecordsArePosted /\ [Next]_vars => RecordsArePosted'
  <2> SUFFICES ASSUME TypeOK, PostedInv, RecordsArePosted, [Next]_vars
               PROVE  RecordsArePosted'
    OBVIOUS
  <2>1. ASSUME NEW k \in Calls, Continue(k) PROVE RecordsArePosted'
    <3>1. RecordedEffect(k) /\ \A p \in Platforms : live[p] > 0 => live'[p] > 0
      BY <2>1, StepRecorded, LiveGrows
    <3>2. QED
      BY <3>1 DEF RecordedEffect, RecordsArePosted, LogSucceeded, PostedInv
  <2>2. CASE UNCHANGED << attempts, posts, live >>
    BY <2>2 DEF RecordsArePosted
  <2>3. QED
    BY <2>1, <2>2 DEF Next, Fetch, UserMovesContent, ExpireKey, auditVars, vars
<1>3. QED
  BY <1>1, <1>2, TypeCorrect, PostedInvariant, PTL DEF Spec

\* What is reported as published, as a succeeded task or as a succeeded result is
\* visible on a platform, and so is what an attempt or a post record says.
THEOREM PublishedIsPosted == Spec => []PublishedMeansPosted
<1>1. PostedInv /\ RecordsArePosted => PublishedMeansPosted
  BY DEF PostedInv, PublishedMeansPosted
<1>2. QED
  BY <1>1, PostedInvariant, RecordsPosted, PTL

\* AtMostOnePost strengthened: a platform without a task shows nothing, and a
\* call that has not sent yet has a task and nothing visible.
OnceInv ==
  /\ AtMostOnePost
  /\ \A p \in Platforms : task[p] = "none" => live[p] = 0
  /\ \A k \in Calls :
       call[k].pc \in BeforeSend =>
         task[Platform(k)] # "none" /\ live[Platform(k)] = 0

\* The same with exclusivity, on which the step of another call relies.
LEMMA OnceInvariant ==
  ASSUME ReplyLoss = FALSE
  PROVE  Spec => []OnceInv
<1>1. Init => OnceInv
  BY DEF Init, OnceInv, AtMostOnePost, BeforeSend
<1>2. TypeOK /\ PublishingIsExclusive /\ OnceInv /\ [Next]_vars => OnceInv'
  <2> SUFFICES ASSUME TypeOK, PublishingIsExclusive, OnceInv, [Next]_vars
               PROVE  OnceInv'
    OBVIOUS
  <2> USE DEF OnceInv, AtMostOnePost
  <2>1. ASSUME NEW k \in Calls, Continue(k) PROVE OnceInv'
    <3>0. /\ \A j \in Calls \ {k} : call'[j] = call[j]
          /\ PostEffect(k) /\ TaskEffect(k) /\ PhaseEffect(k)
          /\ live \in [Platforms -> Nat]
          /\ task \in [Platforms -> TaskStatuses \union {"none"}]
          /\ \A j \in Calls : call[j].pc \in InTask => Platform(j) \in Platforms
      BY <2>1, StepMoves, StepEffects, TypeOKParts, PlatformType DEF TypeOK, CallOK
    <3>1. \/ UNCHANGED live
          \/ /\ At(k, "send")
             /\ Platform(k) \in Platforms
             /\ live[Platform(k)] = 0
             /\ live' = [live EXCEPT ![Platform(k)] = 1]
             /\ call'[k].pc = "markSucceeded"
      BY <3>0 DEF PostEffect, At, InTask, BeforeSend
    <3>2. \A p \in Platforms : task[p] # "none" => task'[p] # "none"
      BY <3>0 DEF TaskEffect, TaskStatuses
    <3>3. \A p \in Platforms : live'[p] <= 1
      BY <3>0, <3>1
    <3>4. ASSUME NEW p \in Platforms, task'[p] = "none" PROVE live'[p] = 0
      <4>1. task[p] = "none" /\ live[p] = 0
        BY <3>2, <3>4
      <4>2. At(k, "send") => p # Platform(k)
        BY <4>1 DEF At, BeforeSend
      <4>3. QED BY <3>0, <3>1, <4>1, <4>2
    <3>5. ASSUME NEW j \in Calls, call'[j].pc \in BeforeSend
          PROVE  /\ task'[Head(call'[j].todo)] # "none"
                 /\ live'[Head(call'[j].todo)] = 0
      <4>1. CASE j # k
        <5>1. /\ call'[j] = call[j]
              /\ Platform(j) \in Platforms
              /\ task[Platform(j)] # "none" /\ live[Platform(j)] = 0
          BY <3>0, <3>5, <4>1 DEF InTask
        <5>2. ~At(k, "send")
          BY <3>0, <3>5, <4>1, <5>1 DEF PublishingIsExclusive, Executor, Executing,
             InTask, BeforeSend, At
        <5>3. QED BY <3>1, <3>2, <5>1, <5>2 DEF Platform
      <4>2. CASE j = k
        <5>1. call'[k].todo = call[k].todo /\ UNCHANGED live
          BY <3>0, <3>1, <3>5, <4>2 DEF PhaseEffect, BeforeSend
        <5>2. CASE call[k].pc \in BeforeSend
          <6>1. Platform(k) \in Platforms
            BY <3>0, <5>2 DEF InTask
          <6>2. QED BY <3>2, <4>2, <5>1, <5>2, <6>1 DEF Platform
        <5>3. CASE /\ At(k, "createTask") /\ task[Platform(k)] = "none"
                   /\ task' = [task EXCEPT ![Platform(k)] = "pending"]
          <6>1. Platform(k) \in Platforms
            BY <3>0, <5>3 DEF At, InTask
          <6>2. task'[Platform(k)] = "pending" /\ live[Platform(k)] = 0
            BY <3>0, <5>3, <6>1
          <6>3. QED BY <4>2, <5>1, <6>2 DEF Platform
        <5>4. QED BY <3>0, <3>5, <4>2, <5>2, <5>3 DEF PhaseEffect
      <4>3. QED BY <4>1, <4>2
    <3>6. QED BY <3>3, <3>4, <3>5 DEF Platform
  <2>2. ASSUME NEW k \in Calls, NEW intent \in Intents, Fetch(k, intent)
        PROVE  OnceInv'
    <3>1. /\ UNCHANGED << task, live >>
          /\ \A j \in Calls : call'[j].pc \in BeforeSend => call'[j] = call[j]
      BY <2>2, FetchMoves DEF BeforeSend
    <3>2. QED BY <3>1 DEF Platform
  <2>3. ASSUME NEW to \in ContentStatuses, UserMovesContent(to) PROVE OnceInv'
    BY <2>3 DEF UserMovesContent, Platform
  <2>4. ASSUME NEW p \in Platforms, ExpireKey(p) PROVE OnceInv'
    BY <2>4 DEF ExpireKey, Platform
  <2> QED
    <3>1. CASE UNCHANGED vars
      BY <3>1 DEF vars, Platform
    <3>2. QED BY <3>1, <2>2, <2>4, <2>3, <2>1 DEF Next
<1>3. QED
  BY <1>1, <1>2, TypeCorrect, ExclusivePublishing, PTL DEF Spec

\* When platforms report what they accept, a platform never shows the content
\* twice: across calls, retries, store faults and expired keys.
THEOREM PostedOnce == ASSUME ReplyLoss = FALSE PROVE Spec => []AtMostOnePost
<1>1. OnceInv => AtMostOnePost
  BY DEF OnceInv
<1>2. QED
  BY <1>1, OnceInvariant, PTL

-------------------------------------------------------------------------------
(* Refinement.                                                              *)

\* Under the same condition every behaviour of the service is one the promise
\* allows, with the posts visible on the platforms as what the promise shows.
THEOREM KeepsPromise ==
  ASSUME ReplyLoss = FALSE PROVE Spec => ImplementsPromise
<1>1. Init => Promise!Init
  BY DEF Init, Promise!Init
<1>2. /\ TypeOK /\ PublishingIsExclusive /\ OutcomesArePosted /\ OnceInv
      /\ [Next]_vars
      => [Promise!Next]_(Promise!promiseVars)
  <2> SUFFICES ASSUME TypeOK, PublishingIsExclusive, OutcomesArePosted,
                      OnceInv, [Next]_vars
               PROVE  Promise!Next \/ UNCHANGED << status, live >>
    BY DEF Promise!promiseVars
  <2>1. ASSUME NEW k \in Calls, Continue(k)
        PROVE  Promise!Next \/ UNCHANGED << status, live >>
    <3>1. UNCHANGED live \/ /\ At(k, "send")
                            /\ Platform(k) \in Platforms
                            /\ live[Platform(k)] = 0
                            /\ live' = [live EXCEPT ![Platform(k)] = 1]
      <4>1. At(k, "send") => Platform(k) \in Platforms /\ live[Platform(k)] = 0
        BY TypeOKParts, PlatformType DEF CallOK, OnceInv, At, InTask, BeforeSend
      <4>2. QED BY <2>1, <4>1, StepEffects DEF PostEffect
    <3>2. CASE Approach(k)
      BY <3>1, <3>2 DEF Approach, At
    <3>3. CASE Enters(k)
      <4>1. status \in {"ready", "partially_published"} /\ UNCHANGED live
        BY <3>1, <3>3 DEF Enters, At, ContentCanTransition, ContentEdges
      <4>2. Promise!Begin
        BY <3>3, <4>1 DEF Enters, Promise!Begin
      <4>3. QED BY <4>2 DEF Promise!Next
    <3>4. CASE Works(k)
      <4>1. CASE UNCHANGED live
        BY <3>4, <4>1 DEF Works
      <4>2. CASE ~UNCHANGED live
        <5>1. Promise!Show(Platform(k))
          BY <3>1, <3>4, <4>2 DEF Works, PublishingIsExclusive, Promise!Show
        <5>2. QED BY <3>1, <4>2, <5>1 DEF Promise!Next
      <4>3. QED BY <4>1, <4>2
    <3>5. CASE Leaves(k)
      <4>1. status = "publishing" /\ UNCHANGED live
        BY <3>1, <3>5 DEF Leaves, At, PublishingIsExclusive, Executor, Executing
      <4>2. CASE status' = status
        BY <4>1, <4>2
      <4>3. CASE status' # status
        <5>1. status' = FinalStatus(k)
          BY <3>5, <4>3 DEF Leaves
        <5>2. Promise!End(FinalStatus(k)) /\ FinalStatus(k) \in ContentStatuses
          BY <4>1, <5>1, FinalStatusIsFinal, FinalStatusPosted
             DEF Promise!End, ContentStatuses
        <5>3. QED
          BY <5>2 DEF Promise!Next, ContentStatuses, Promise!ContentStatuses
      <4>4. QED BY <4>2, <4>3
    <3>6. QED BY <2>1, <3>2, <3>3, <3>4, <3>5, StepMoves
  <2>2. ASSUME NEW k \in Calls, NEW intent \in Intents, Fetch(k, intent)
        PROVE  UNCHANGED << status, live >>
    BY <2>2, FetchMoves
  <2>3. ASSUME NEW to \in ContentStatuses, UserMovesContent(to)
        PROVE  Promise!Next
    <3>1. Promise!AuthorMoves(to)
      BY <2>3 DEF UserMovesContent, Promise!AuthorMoves, ContentCanTransition,
         ContentEdges, Promise!ContentCanTransition, Promise!ContentEdges
    <3>2. QED
      BY <3>1 DEF Promise!Next, ContentStatuses, Promise!ContentStatuses
  <2>4. ASSUME NEW p \in Platforms, ExpireKey(p)
        PROVE  UNCHANGED << status, live >>
    BY <2>4 DEF ExpireKey
  <2> QED
    <3>1. CASE UNCHANGED vars
      BY <3>1 DEF vars
    <3>2. QED BY <3>1, <2>2, <2>4, <2>3, <2>1 DEF Next
<1>3. PostedInv => OutcomesArePosted
  BY DEF PostedInv
<1>4. QED
  BY <1>1, <1>2, <1>3, TypeCorrect, ExclusivePublishing, PostedInvariant,
     OnceInvariant, PTL DEF Spec, ImplementsPromise, Promise!Spec
===============================================================================
