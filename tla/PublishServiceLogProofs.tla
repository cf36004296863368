------------------------ MODULE PublishServiceLogProofs ------------------------
(***************************************************************************)
(* The attempt log until a store call returns an error.  A call inside     *)
(* executeWithRetry is the only writer of its platform's log; what the log *)
(* must look like is a function of where that call is.                     *)
(***************************************************************************)
EXTENDS PublishServiceTaskProofs

-------------------------------------------------------------------------------
(* Logs.                                                                    *)

AllFailed(log) == \A i \in DOMAIN log : log[i].status = "failed"

\* What holds of a log at any time, whoever works on it.
WellKept(log) ==
  /\ Len(log) <= MaxRetries + 1
  /\ \A i \in DOMAIN log : log[i].number = i
  /\ \A i \in DOMAIN log : i < Len(log) => log[i].status = "failed"

\* A new attempt follows failed ones.
LEMMA OpenedLog ==
  ASSUME NEW log \in Seq(Attempt), WellKept(log), AllFailed(log),
         Len(log) <= MaxRetries,
         NEW new, new = Append(log, [number |-> Len(log) + 1,
                                     status |-> "processing"])
  PROVE  /\ Len(new) = Len(log) + 1
         /\ WellKept(new)
         /\ new[Len(new)].status = "processing"
<1> DEFINE a == [number |-> Len(log) + 1, status |-> "processing"]
<1>1. Len(log) \in Nat /\ a \in Attempt /\ new = Append(log, a)
  BY LenProperties DEF Attempt
<1>2. /\ Len(new) = Len(log) + 1
      /\ DOMAIN new = 1 .. Len(log) + 1
      /\ DOMAIN log = 1 .. Len(log)
      /\ \A i \in 1 .. Len(log) : new[i] = log[i]
      /\ new[Len(log) + 1] = a
  BY <1>1, AppendProperties, LenProperties
<1>3. a.number = Len(log) + 1 /\ a.status = "processing"
  OBVIOUS
<1> HIDE DEF a
<1>4. QED
  BY <1>1, <1>2, <1>3, ServiceAssumption DEF WellKept, AllFailed

\* The log after its last attempt was given the status s.
LastSetTo(log, s) == [log EXCEPT ![Len(log)].status = s]

\* Completing the last attempt changes its status and nothing else.
LEMMA ClosedLog ==
  ASSUME NEW log \in Seq(Attempt), WellKept(log), Len(log) > 0,
         NEW s \in {"succeeded", "failed"}
  PROVE  /\ Len(LastSetTo(log, s)) = Len(log)
         /\ DOMAIN LastSetTo(log, s) = 1 .. Len(log)
         /\ WellKept(LastSetTo(log, s))
         /\ \A i \in 1 .. Len(log) :
              i < Len(log) => LastSetTo(log, s)[i].status = "failed"
         /\ LastSetTo(log, s)[Len(log)].status = s
<1> DEFINE n == Len(log)
           new == LastSetTo(log, s)
           a == [log[n] EXCEPT !.status = s]
<1>1. n \in 1 .. n /\ DOMAIN log = 1 .. n
  BY LenProperties
<1>2. log[n] \in Attempt
  BY <1>1, ElementOfSeq
<1>3. a \in Attempt /\ a.status = s /\ a.number = log[n].number
  BY <1>2 DEF Attempt
<1>4. new = [log EXCEPT ![n] = a]
  BY DEF LastSetTo
<1> HIDE DEF new, a
<1>5. /\ new \in Seq(Attempt) /\ Len(new) = n
      /\ \A i \in 1 .. n : new[i] = IF i = n THEN a ELSE log[i]
  BY <1>1, <1>3, <1>4, ExceptSeq
<1>6. DOMAIN new = 1 .. n
  BY <1>5, LenProperties
<1>7. ASSUME NEW i \in 1 .. n
      PROVE  new[i].number = i /\ (i < n => new[i].status = "failed")
  <2>1. log[i].number = i /\ (i < n => log[i].status = "failed")
    BY <1>1 DEF WellKept
  <2>2. new[i] = IF i = n THEN a ELSE log[i]
    BY <1>5
  <2>3. CASE i = n
    BY <1>3, <2>1, <2>2, <2>3
  <2>4. CASE i # n
    BY <1>1, <2>1, <2>2, <2>4
  <2>5. QED BY <2>3, <2>4
<1>8. WellKept(new)
  BY <1>5, <1>6, <1>7 DEF WellKept
<1>9. QED
  BY <1>1, <1>3, <1>5, <1>6, <1>7, <1>8 DEF new

-------------------------------------------------------------------------------
(* The log under a call.                                                    *)

\* Inside executeWithRetry.
Busy(k) == call[k].pc \in BeforeSend \union AfterPost

Opened == { "startProcessing", "prepare", "send", "markRejected",
            "closeRejected", "closeFailed", "markSucceeded", "closeSucceeded" }

Closed == { "markFailed", "markDead", "markRetrying" }

\* Before an attempt is opened all earlier ones are closed as failed; once it
\* is open it is the last record and the one the call will complete.
LogFits(k) ==
  LET log == attempts[Platform(k)]
      count == attemptCount[Platform(k)]
      n == call[k].attempt
  IN  Busy(k) =>
        /\ n <= MaxRetries
        /\ call[k].pc \in {"count", "openAttempt"} =>
             Len(log) = n /\ AllFailed(log)
        /\ At(k, "count") => count = n
        /\ ~At(k, "count") => count = n + 1
        /\ call[k].pc \notin {"count", "openAttempt"} => Len(log) = n + 1
        /\ call[k].pc \in Opened =>
             call[k].rec = n + 1 /\ log[n + 1].status = "processing"
        /\ call[k].pc \in Closed => AllFailed(log)
        /\ At(k, "markRetrying") => n < MaxRetries
        /\ At(k, "storePost") => log[n + 1].status = "succeeded"

\* Nobody works on the platform: every attempt is counted and closed.
LogAtRest(p) ==
  /\ attemptCount[p] = Len(attempts[p])
  /\ \A i \in DOMAIN attempts[p] : attempts[p][i].status # "processing"

\* What a step of k does to the logs.
LogEffect(k) ==
  /\ \A q \in Platforms : q # Platform(k) \/ ~Busy(k) =>
       attempts'[q] = attempts[q] /\ attemptCount'[q] = attemptCount[q]
  /\ LogFits(k)'
  /\ Busy(k) => WellKept(attempts'[Platform(k)])
  /\ Busy(k) /\ ~Busy(k)' =>
       /\ attemptCount'[Platform(k)] = Len(attempts'[Platform(k)])
       /\ \A i \in DOMAIN attempts'[Platform(k)] :
            attempts'[Platform(k)][i].status # "processing"

\* A platform without a task has an empty log.
EmptyLogs ==
  \A p \in Platforms :
    task[p] = "none" => attempts[p] = << >> /\ attemptCount[p] = 0

LogContext(k) ==
  /\ StoreOK /\ CallOK /\ ~StoreFails
  /\ call[k].pc \in InTask => Platform(k) \in Platforms
  /\ EmptyLogs /\ LogFits(k)
  /\ \A p \in Platforms : WellKept(attempts[p])

\* CreateTask starts the loop on an empty log.
LEMMA LoopStarts ==
  ASSUME NEW k \in Calls, LogContext(k), CreateTask(k)
  PROVE  LogEffect(k)
<1> USE DEF LogContext, StoreOK, CallOK, CallState, At, Goto, Report
<1>1. /\ call[k].pc = "createTask" /\ ~Busy(k)
      /\ UNCHANGED << attempts, attemptCount >>
  BY DEF CreateTask, auditVars, Busy, BeforeSend, AfterPost
<1>2. CASE /\ task[Platform(k)] = "none"
           /\ call' = [call EXCEPT ![k].pc = "count", ![k].attempt = 0]
  <2>1. /\ call'[k].pc = "count" /\ call'[k].attempt = 0
        /\ call'[k].todo = call[k].todo
    BY <1>2
  <2>2. /\ Platform(k) \in Platforms /\ attempts[Platform(k)] = << >>
        /\ attemptCount[Platform(k)] = 0
    BY <1>1, <1>2, LabelFacts DEF EmptyLogs
  <2>3. LogFits(k)'
    BY <1>1, <2>1, <2>2, ServiceAssumption
       DEF LogFits, Platform, Opened, Closed, AllFailed
  <2>4. QED BY <1>1, <2>3 DEF LogEffect
<1>3. CASE call'[k].pc \in {"lookup", "loop"}
  BY <1>1, <1>3 DEF LogEffect, LogFits, Busy, BeforeSend, AfterPost
<1>4. CASE Goto(k, "lookup")
  <2>1. call'[k].pc = "lookup"
    BY <1>4
  <2>2. QED BY <1>3, <2>1
<1>5. CASE Report(k, "failed")
  <2>1. call'[k].pc = "loop"
    BY <1>5
  <2>2. QED BY <1>3, <2>1
<1>6. QED
  <2> HIDE DEF LogContext, StoreOK, CallOK, Goto, Report
  <2>1. QED BY <1>2, <1>4, <1>5 DEF CreateTask

\* The steps outside executeWithRetry leave the logs alone.
LEMMA OutsideSteps ==
  ASSUME NEW k \in Calls, LogContext(k),
         \/ Recheck(k) \/ EnterPublishing(k) \/ ClaimKey(k) \/ LookupExisting(k)
         \/ VerifyPublishing(k) \/ LeavePublishing(k)
  PROVE  LogEffect(k)
<1> DEFINE Outside == { "recheck", "enter", "loop", "createTask", "lookup", "leave",
                        "returned", "rejected" }
<1>1. Outside \intersect (BeforeSend \union AfterPost) = {}
  BY DEF BeforeSend, AfterPost
<1>2. /\ call[k].pc \in Outside
      /\ (\E l \in Outside : Goto(k, l)) \/ (\E s : Report(k, s))
      /\ UNCHANGED << attempts, attemptCount >>
  BY DEF At, Recheck, EnterPublishing, ClaimKey, LookupExisting, VerifyPublishing,
     LeavePublishing, auditVars
<1>3. call \in [Calls -> CallState] /\ call[k] \in CallState
  BY DEF LogContext, CallOK
<1>4. call'[k].pc \in Outside
  <2>1. ASSUME NEW l \in Outside, Goto(k, l)
        PROVE  call'[k].pc = l
    <3> HIDE DEF Outside
    <3>1. QED BY <2>1, <1>3 DEF Goto, CallState
  <2>2. ASSUME NEW s, Report(k, s)
        PROVE  call'[k].pc = "loop"
    <3> HIDE DEF Outside
    <3>1. QED BY <2>2, <1>3 DEF Report, CallState
  <2>3. "loop" \in Outside
    OBVIOUS
  <2> HIDE DEF Outside
  <2>4. QED BY <1>2, <2>1, <2>2, <2>3
<1> HIDE DEF Outside
<1>5. QED
  BY <1>1, <1>2, <1>4 DEF LogEffect, LogFits, Busy

\* Counting an attempt.
LEMMA CountStep ==
  ASSUME NEW k \in Calls, LogContext(k), IncrementAttemptCount(k)
  PROVE  LogEffect(k)
<1>1. /\ call[k].pc = "count" /\ call'[k].pc = "openAttempt"
      /\ call'[k].attempt = call[k].attempt /\ call'[k].todo = call[k].todo
      /\ Platform(k) \in Platforms /\ UNCHANGED attempts
      /\ attemptCount' = [attemptCount EXCEPT
                            ![Platform(k)] = attemptCount[Platform(k)] + 1]
  <2>1. /\ call[k].pc = "count" /\ Goto(k, "openAttempt") /\ UNCHANGED attempts
        /\ attemptCount' = [attemptCount EXCEPT
                              ![Platform(k)] = attemptCount[Platform(k)] + 1]
    BY DEF IncrementAttemptCount, LogContext, At, StoreFails, auditVars
  <2>2. Platform(k) \in Platforms
    BY <2>1, LabelFacts DEF LogContext
  <2>3. QED BY <2>1, <2>2 DEF Goto, LogContext, CallOK, CallState
<1>2. Busy(k) /\ Busy(k)'
  BY <1>1 DEF Busy, BeforeSend
<1>3. /\ call[k].attempt <= MaxRetries
      /\ attemptCount[Platform(k)] = call[k].attempt
      /\ Len(attempts[Platform(k)]) = call[k].attempt
      /\ AllFailed(attempts[Platform(k)])
  BY <1>1, <1>2 DEF LogContext, LogFits, At
<1>4. attemptCount'[Platform(k)] = call[k].attempt + 1
  BY <1>1, <1>3 DEF LogContext, StoreOK
<1>5. LogFits(k)'
  BY <1>1, <1>3, <1>4 DEF LogFits, Platform, At, Opened, Closed
<1>6. QED
  BY <1>1, <1>2, <1>5 DEF LogEffect, LogContext, StoreOK

\* Opening an attempt.
LEMMA OpenStep ==
  ASSUME NEW k \in Calls, LogContext(k), CreateAttempt(k)
  PROVE  LogEffect(k)
<1> DEFINE log == attempts[Platform(k)]
           n == call[k].attempt
           new == Append(log, [number |-> Len(log) + 1, status |-> "processing"])
<1>1. /\ call[k].pc = "openAttempt" /\ call'[k].pc = "startProcessing"
      /\ call'[k].attempt = n /\ call'[k].todo = call[k].todo
      /\ call'[k].rec = Len(log) + 1
      /\ Platform(k) \in Platforms /\ UNCHANGED attemptCount
      /\ attempts' = [attempts EXCEPT ![Platform(k)] =
                        Append(log, [number |-> n + 1, status |-> "processing"])]
  <2>1. /\ call \in [Calls -> CallState] /\ call[k] \in CallState
        /\ ~StoreFails /\ call[k].pc = "openAttempt"
    BY DEF LogContext, CallOK, CreateAttempt, At
  <2>2. Platform(k) \in Platforms
    BY <2>1, LabelFacts DEF LogContext
  <2>3. /\ call' = [call EXCEPT ![k].pc = "startProcessing", ![k].rec = Len(log) + 1]
        /\ attempts' = [attempts EXCEPT ![Platform(k)] =
                          Append(log, [number |-> n + 1, status |-> "processing"])]
        /\ UNCHANGED attemptCount
    BY <2>1 DEF CreateAttempt
  <2>4. QED BY <2>1, <2>2, <2>3 DEF CallState
<1>2. Busy(k) /\ Busy(k)'
  BY <1>1 DEF Busy, BeforeSend
<1>3. /\ n <= MaxRetries /\ Len(log) = n /\ AllFailed(log)
      /\ attemptCount[Platform(k)] = n + 1
  BY <1>1, <1>2 DEF LogContext, LogFits, At
<1>4. log \in Seq(Attempt) /\ WellKept(log) /\ attempts'[Platform(k)] = new
  BY <1>1, <1>3 DEF LogContext, StoreOK
<1>5. /\ Len(new) = Len(log) + 1 /\ WellKept(new)
      /\ new[Len(new)].status = "processing"
  BY <1>3, <1>4, OpenedLog
<1> HIDE DEF new
<1>6. LogFits(k)'
  BY <1>1, <1>3, <1>4, <1>5 DEF LogFits, Platform, At, Opened, Closed
<1>7. QED
  BY <1>1, <1>2, <1>4, <1>5, <1>6 DEF LogEffect, LogContext, StoreOK

\* The steps between opening an attempt and completing it.
LEMMA OpenedSteps ==
  ASSUME NEW k \in Calls, LogContext(k),
         \/ StartProcessing(k) \/ Prepare(k) \/ MarkRejected(k) \/ Send(k)
         \/ MarkSucceeded(k)
  PROVE  LogEffect(k)
<1>1. /\ call[k].pc \in Opened /\ call'[k].pc \in Opened
      /\ call'[k].attempt = call[k].attempt /\ call'[k].todo = call[k].todo
      /\ call'[k].rec = call[k].rec
      /\ UNCHANGED << attempts, attemptCount >>
  BY DEF LogContext, CallOK, CallState, At, Goto, StartProcessing, Prepare,
     MarkRejected, Send, MarkSucceeded, auditVars, Opened
<1>2. Busy(k) /\ Busy(k)'
  BY <1>1 DEF Busy, Opened, BeforeSend, AfterPost
<1>3. LogFits(k)'
  BY <1>1, <1>2 DEF LogContext, LogFits, Platform, At, Opened, Closed
<1>4. Platform(k) \in Platforms
  BY <1>1, LabelFacts DEF LogContext, Opened
<1>5. QED
  BY <1>1, <1>2, <1>3, <1>4 DEF LogEffect, LogContext

\* CompleteAttempt closes the record that is last in the log.
LEMMA CompletedLog ==
  ASSUME NEW k \in Calls, LogContext(k), call[k].pc \in Opened,
         NEW s \in {"succeeded", "failed"}, CompleteAttempt(k, s)
  PROVE  LET new == attempts'[Platform(k)]
             n == call[k].attempt
         IN  /\ \A q \in Platforms \ {Platform(k)} : attempts'[q] = attempts[q]
             /\ Busy(k) /\ n \in Nat /\ n <= MaxRetries
             /\ attemptCount[Platform(k)] = n + 1
             /\ Len(new) = n + 1 /\ WellKept(new)
             /\ DOMAIN new = 1 .. n + 1
             /\ \A i \in DOMAIN new : i < n + 1 => new[i].status = "failed"
             /\ new[n + 1].status = s
<1> DEFINE p == Platform(k)
           log == attempts[p]
           n == call[k].attempt
           new == LastSetTo(log, s)
<1>1. /\ p \in Platforms /\ log \in Seq(Attempt) /\ n \in Nat
      /\ WellKept(log) /\ Busy(k)
  BY LabelFacts
     DEF LogContext, StoreOK, CallOK, CallState, Opened, Busy, BeforeSend, AfterPost
<1>2. /\ n <= MaxRetries /\ Len(log) = n + 1 /\ attemptCount[p] = n + 1
      /\ call[k].rec = n + 1
  BY <1>1 DEF LogContext, LogFits, At, Opened
<1>3. attempts' = [attempts EXCEPT ![p] = new]
  BY <1>1, <1>2 DEF CompleteAttempt, StoreFails, LogContext, StoreOK, LastSetTo
<1>4. /\ attempts'[p] = new
      /\ \A q \in Platforms \ {p} : attempts'[q] = attempts[q]
  BY <1>1, <1>3 DEF LogContext, StoreOK
<1>5. Len(log) > 0
  BY <1>1, <1>2
<1>6. /\ Len(new) = Len(log) /\ WellKept(new)
      /\ DOMAIN new = 1 .. Len(log)
      /\ \A i \in 1 .. Len(log) : i < Len(log) => new[i].status = "failed"
      /\ new[Len(log)].status = s
  <2>1. log \in Seq(Attempt) /\ WellKept(log) /\ Len(log) > 0
    BY <1>1, <1>5
  <2> HIDE DEF log
  <2>2. QED BY ONLY <2>1, ClosedLog, s \in {"succeeded", "failed"}
<1> HIDE DEF new
<1>7. QED
  BY <1>1, <1>2, <1>4, <1>6

\* Completing an attempt.
LEMMA CloseSteps ==
  ASSUME NEW k \in Calls, LogContext(k),
         CloseRejected(k) \/ CloseSucceeded(k) \/ CloseFailed(k)
  PROVE  LogEffect(k)
<1> DEFINE p == Platform(k)
           n == call[k].attempt
<1>0. UNCHANGED attemptCount /\ call[k].pc \in Opened
  BY DEF CloseRejected, CloseSucceeded, CloseFailed, At, Opened
<1>1. CASE CloseRejected(k)
  <2>1. CompleteAttempt(k, "failed") /\ call'[k].pc = "loop"
    BY <1>1 DEF CloseRejected, Report, LogContext, CallOK, CallState
  <2>2. ~Busy(k)'
    BY <2>1 DEF Busy, BeforeSend, AfterPost
  <2>3. /\ \A q \in Platforms \ {p} : attempts'[q] = attempts[q]
        /\ Busy(k) /\ attemptCount[p] = n + 1 /\ n \in Nat
        /\ Len(attempts'[p]) = n + 1 /\ WellKept(attempts'[p])
        /\ DOMAIN attempts'[p] = 1 .. n + 1
        /\ \A i \in DOMAIN attempts'[p] :
             i < n + 1 => attempts'[p][i].status = "failed"
        /\ attempts'[p][n + 1].status = "failed"
    BY <1>0, <2>1, CompletedLog
  <2>4. \A i \in DOMAIN attempts'[p] : attempts'[p][i].status = "failed"
    BY <2>3
  <2>5. QED BY <1>0, <2>2, <2>3, <2>4 DEF LogEffect, LogFits
<1>2. CASE CloseSucceeded(k)
  <2>1. /\ CompleteAttempt(k, "succeeded") /\ call'[k].pc = "storePost"
        /\ call'[k].todo = call[k].todo /\ call'[k].attempt = n
    BY <1>2 DEF CloseSucceeded, Goto, LogContext, CallOK, CallState
  <2>2. Busy(k)'
    BY <2>1 DEF Busy, AfterPost
  <2>3. /\ \A q \in Platforms \ {p} : attempts'[q] = attempts[q]
        /\ Busy(k) /\ attemptCount[p] = n + 1 /\ n \in Nat /\ n <= MaxRetries
        /\ Len(attempts'[p]) = n + 1 /\ WellKept(attempts'[p])
        /\ attempts'[p][n + 1].status = "succeeded"
    BY <1>0, <2>1, CompletedLog
  <2>4. LogFits(k)'
    BY <1>0, <2>1, <2>3 DEF LogFits, Platform, At, Opened, Closed
  <2>5. QED BY <1>0, <2>2, <2>3, <2>4 DEF LogEffect
<1>3. CASE CloseFailed(k)
  <2>1. /\ CompleteAttempt(k, "failed")
        /\ call'[k].pc = AfterFailure(k)
        /\ call'[k].todo = call[k].todo /\ call'[k].attempt = n
    BY <1>3 DEF CloseFailed, Goto, LogContext, CallOK, CallState
  <2>2. Busy(k)' /\ call'[k].pc \in Closed
    BY <2>1 DEF Busy, BeforeSend, AfterFailure, Closed
  <2>3. /\ \A q \in Platforms \ {p} : attempts'[q] = attempts[q]
        /\ Busy(k) /\ attemptCount[p] = n + 1 /\ n \in Nat /\ n <= MaxRetries
        /\ Len(attempts'[p]) = n + 1 /\ WellKept(attempts'[p])
        /\ DOMAIN attempts'[p] = 1 .. n + 1
        /\ \A i \in DOMAIN attempts'[p] :
             i < n + 1 => attempts'[p][i].status = "failed"
        /\ attempts'[p][n + 1].status = "failed"
    BY <1>0, <2>1, CompletedLog
  <2>4. AllFailed(attempts'[p])
    BY <2>3 DEF AllFailed
  <2>5. call'[k].pc = "markRetrying" => n < MaxRetries
    BY <2>1, <2>3, ServiceAssumption DEF AfterFailure
  <2>6. LogFits(k)'
    BY <1>0, <2>1, <2>2, <2>3, <2>4, <2>5
       DEF LogFits, Platform, At, Opened, Closed
  <2>7. QED BY <1>0, <2>2, <2>3, <2>6 DEF LogEffect
<1>4. QED
  BY <1>1, <1>2, <1>3

\* Leaving the loop, or starting its next iteration.
LEMMA LoopEnds ==
  ASSUME NEW k \in Calls, LogContext(k),
         StorePost(k) \/ MarkFailed(k) \/ MarkDead(k) \/ MarkRetrying(k)
  PROVE  LogEffect(k)
<1> DEFINE p == Platform(k)
           n == call[k].attempt
           log == attempts[p]
<1>1. /\ UNCHANGED << attempts, attemptCount >>
      /\ call[k].pc \in Closed \union {"storePost"}
  BY DEF StorePost, MarkFailed, MarkDead, MarkRetrying, auditVars, At, Closed
<1>2. Busy(k) /\ p \in Platforms
  BY <1>1, LabelFacts DEF LogContext, Closed, Busy, BeforeSend, AfterPost
<1>3. /\ n \in Nat /\ log \in Seq(Attempt) /\ WellKept(log)
      /\ Len(log) = n + 1 /\ attemptCount[p] = n + 1 /\ n <= MaxRetries
      /\ call[k].pc \in Closed => AllFailed(log)
      /\ At(k, "markRetrying") => n < MaxRetries
      /\ At(k, "storePost") => log[n + 1].status = "succeeded"
  BY <1>1, <1>2 DEF LogContext, StoreOK, CallOK, CallState, LogFits, At, Closed
<1>4. \A i \in DOMAIN log : log[i].status # "processing"
  <2>1. DOMAIN log = 1 .. n + 1
    BY <1>3, LenProperties
  <2>2. QED BY <1>1, <1>3, <2>1 DEF AllFailed, WellKept, At
<1>5. CASE StorePost(k) \/ MarkFailed(k) \/ MarkDead(k)
  <2>1. call'[k].pc = "loop"
    <3>1. \E s \in {"succeeded", "failed", "dead"} : Report(k, s)
      BY <1>5, Zenon DEF StorePost, MarkFailed, MarkDead
    <3>2. QED BY <3>1 DEF Report, LogContext, CallOK, CallState
  <2>2. ~Busy(k)'
    BY <2>1 DEF Busy, BeforeSend, AfterPost
  <2>3. QED BY <1>1, <1>2, <1>3, <1>4, <2>2 DEF LogEffect, LogFits
<1>6. CASE MarkRetrying(k)
  <2>1. /\ call[k].pc = "markRetrying" /\ call'[k].pc = "count"
        /\ call'[k].attempt = n + 1 /\ call'[k].todo = call[k].todo
    BY <1>6 DEF MarkRetrying, LogContext, CallOK, CallState, At
  <2>2. Busy(k)'
    BY <2>1 DEF Busy, BeforeSend
  <2>3. n + 1 <= MaxRetries /\ AllFailed(log)
    BY <1>3, <2>1, ServiceAssumption DEF At, Closed
  <2>4. LogFits(k)'
    BY <1>1, <1>3, <2>1, <2>3 DEF LogFits, Platform, At, Opened, Closed
  <2>5. QED BY <1>1, <1>2, <1>3, <2>2, <2>4 DEF LogEffect
<1>7. QED
  BY <1>5, <1>6

LEMMA StepLogs ==
  ASSUME NEW k \in Calls, LogContext(k), Continue(k)
  PROVE  LogEffect(k)
BY LoopStarts, OutsideSteps, CountStep, OpenStep, OpenedSteps, CloseSteps, LoopEnds
   DEF Continue

-------------------------------------------------------------------------------
(* The invariant.                                                           *)

LogInv ==
  /\ EmptyLogs
  /\ \A p \in Platforms : WellKept(attempts[p])
  /\ \A k \in Calls : LogFits(k)
  /\ \A p \in Platforms :
       (\A k \in Calls : Busy(k) => Platform(k) # p) => LogAtRest(p)

LEMMA LogInvariant == Spec => [](faults = 0 => LogInv)
<1>1. Init => LogInv
  BY ServiceAssumption DEF Init, LogInv, EmptyLogs, WellKept, LogFits, LogAtRest,
     Busy, BeforeSend, AfterPost
<1>2. /\ TypeOK /\ PublishingIsExclusive /\ (faults = 0 => StatusInv)
      /\ (faults = 0 => LogInv) /\ [Next]_vars
      => (faults = 0 => LogInv)'
  <2> SUFFICES ASSUME TypeOK, PublishingIsExclusive, StatusInv, LogInv, [Next]_vars,
                      ~StoreFails
               PROVE  LogInv'
    BY StoresAnswer
  <2>1. ASSUME NEW k \in Calls, Continue(k) PROVE LogInv'
    <3>0. /\ \A j \in Calls \ {k} : call'[j] = call[j]
          /\ TaskEffect(k) /\ PhaseEffect(k)
          /\ task \in [Platforms -> TaskStatuses \union {"none"}]
      BY <2>1, StepMoves, StepEffects DEF TypeOK
    <3>1. LogContext(k)
      BY TypeOKParts, PlatformType DEF LogInv, LogContext, CallOK
    <3>2. LogEffect(k)
      BY <2>1, <3>1, StepLogs
    <3>3. Busy(k) => Platform(k) \in Platforms /\ task[Platform(k)] # "none"
      BY <3>1 DEF LogContext, Busy, InTask, StatusInv, StoredStatusFits, Starting,
         Started, BeforeSend, AfterPost, At
    <3>4. Busy(k)' => call'[k].todo = call[k].todo
      BY <3>0 DEF PhaseEffect, Busy
    <3>5. EmptyLogs'
      <4>1. \A p \in Platforms : task[p] # "none" => task'[p] # "none"
        BY <3>0 DEF TaskEffect, TaskStatuses
      <4>2. QED BY <3>2, <3>3, <4>1 DEF LogInv, EmptyLogs, LogEffect
    <3>6. ASSUME NEW p \in Platforms PROVE WellKept(attempts'[p])
      <4>1. CASE Busy(k) /\ Platform(k) = p
        BY <3>2, <4>1 DEF LogEffect
      <4>2. CASE ~(Busy(k) /\ Platform(k) = p)
        BY <3>2, <4>2 DEF LogEffect, LogInv
      <4>3. QED BY <4>1, <4>2
    <3>7. ASSUME NEW j \in Calls, j # k PROVE LogFits(j)'
      <4>1. CASE ~Busy(j)
        BY <3>0, <3>7, <4>1 DEF LogFits, Busy
      <4>2. CASE Busy(j)
        <5>1. ~Busy(k)
          BY <3>7, <4>2 DEF PublishingIsExclusive, Executor, Executing, InTask, Busy
        <5>2. /\ Platform(j) \in Platforms /\ call'[j] = call[j] /\ LogFits(j)
          BY <3>0, <3>7, <4>2, TypeOKParts, PlatformType
             DEF Busy, InTask, CallOK, LogInv
        <5>3. QED BY <3>2, <5>1, <5>2 DEF LogEffect, LogFits, Busy, Platform, At
      <4>3. QED BY <4>1, <4>2
    <3>8. ASSUME NEW p \in Platforms,
                 \A j \in Calls : Busy(j)' => Platform(j)' # p
          PROVE  LogAtRest(p)'
      <4>1. CASE Busy(k) /\ Platform(k) = p
        <5>1. ~Busy(k)'
          BY <3>4, <3>8, <4>1 DEF Platform
        <5>2. QED BY <3>2, <4>1, <5>1 DEF LogEffect, LogAtRest
      <4>2. CASE ~(Busy(k) /\ Platform(k) = p)
        <5>1. \A j \in Calls : Busy(j) => Platform(j) # p
          BY <3>0, <3>8, <4>2 DEF Busy, Platform
        <5>2. LogAtRest(p)
          BY <5>1 DEF LogInv
        <5>3. QED BY <3>2, <4>2, <5>2 DEF LogEffect, LogAtRest
      <4>3. QED BY <4>1, <4>2
    <3>9. LogFits(k)'
      BY <3>2 DEF LogEffect
    <3>10. QED BY <3>5, <3>6, <3>7, <3>8, <3>9 DEF LogInv
  <2>2. ASSUME UNCHANGED << task, attempts, attemptCount >>,
               \A k \in Calls : call'[k] = call[k] \/ (~Busy(k) /\ ~Busy(k)')
        PROVE  LogInv'
    <3>1. EmptyLogs' /\ \A p \in Platforms : WellKept(attempts'[p])
      BY <2>2 DEF LogInv, EmptyLogs
    <3>2. ASSUME NEW k \in Calls PROVE LogFits(k)'
      <4>1. CASE call'[k] = call[k]
        <5>1. LogFits(k)
          BY DEF LogInv
        <5>2. QED BY <2>2, <4>1, <5>1 DEF LogFits, Busy, Platform, At
      <4>2. CASE ~Busy(k)'
        BY <4>2 DEF LogFits
      <4>3. QED BY <2>2, <4>1, <4>2
    <3>3. ASSUME NEW p \in Platforms,
                 \A k \in Calls : Busy(k)' => Platform(k)' # p
          PROVE  LogAtRest(p)'
      <4>1. \A k \in Calls : Busy(k) => Platform(k) # p
        BY <2>2, <3>3 DEF Busy, Platform
      <4>2. QED BY <2>2, <4>1 DEF LogInv, LogAtRest
    <3>4. QED BY <3>1, <3>2, <3>3 DEF LogInv
  <2>3. ASSUME NEW k \in Calls, NEW intent \in Intents, Fetch(k, intent)
        PROVE  LogInv'
    <3>1. /\ \A j \in Calls \ {k} : call'[j] = call[j]
          /\ ~Busy(k) /\ ~Busy(k)'
      BY <2>3, FetchMoves DEF Fetch, At, Busy, BeforeSend, AfterPost
    <3>2. UNCHANGED << task, attempts, attemptCount >>
      BY <2>3 DEF Fetch, auditVars
    <3>3. \A j \in Calls : call'[j] = call[j] \/ (~Busy(j) /\ ~Busy(j)')
      BY <3>1, Zenon
    <3>4. QED BY <2>2, <3>2, <3>3, Zenon
  <2>4. ASSUME NEW to \in ContentStatuses, UserMovesContent(to) PROVE LogInv'
    BY <2>2, <2>4 DEF UserMovesContent, auditVars
  <2>5. ASSUME NEW p \in Platforms, ExpireKey(p) PROVE LogInv'
    BY <2>2, <2>5 DEF ExpireKey, auditVars
  <2> QED
    <3>1. CASE UNCHANGED vars
      BY <2>2, <3>1 DEF vars
    <3>2. QED BY <2>1, <2>3, <2>4, <2>5, <3>1 DEF Next
<1>3. QED
  BY <1>1, <1>2, TypeCorrect, ExclusivePublishing, StatusInvariant, PTL DEF Spec

\* Until a store fails the attempt log of executeWithRetry is a faithful
\* history for every MaxRetries: no gap, no attempt beyond the policy, the
\* count in step, and nothing left open.
THEOREM AttemptsAreFaithful == Spec => [](faults = 0 => AttemptLogIsFaithful)
<1>1. TypeOK /\ LogInv => AttemptLogIsFaithful
  <2> SUFFICES ASSUME TypeOK, LogInv, NEW p \in Platforms
               PROVE  /\ WellKept(attempts[p])
                      /\ attemptCount[p] = Len(attempts[p]) +
                           (IF \E k \in Calls : At(k, "openAttempt") /\ Platform(k) = p
                            THEN 1 ELSE 0)
                      /\ (\A k \in Calls : ~(call[k].pc \in InTask /\ Platform(k) = p))
                           => \A i \in DOMAIN attempts[p] :
                                attempts[p][i].status # "processing"
    BY DEF AttemptLogIsFaithful, WellKept
  <2> DEFINE Counting == \E k \in Calls : At(k, "openAttempt") /\ Platform(k) = p
             Alone == \A k \in Calls : Busy(k) => Platform(k) # p
  <2>1. WellKept(attempts[p])
    BY DEF LogInv
  <2>2. Len(attempts[p]) \in Nat
    BY LenProperties DEF TypeOK
  <2>3. Alone => LogAtRest(p)
    BY DEF LogInv
  <2>4. (\A k \in Calls : ~(call[k].pc \in InTask /\ Platform(k) = p)) => Alone
    BY DEF Busy, InTask
  <2>5. ASSUME NEW k \in Calls, Busy(k), Platform(k) = p
        PROVE  /\ At(k, "openAttempt") =>
                    attemptCount[p] = Len(attempts[p]) + 1
               /\ ~At(k, "openAttempt") => attemptCount[p] = Len(attempts[p])
    <3>1. LogFits(k)
      BY DEF LogInv
    <3>2. QED BY <2>5, <3>1 DEF LogFits, At
  <2>6. CASE Counting
    <3>1. PICK k \in Calls : At(k, "openAttempt") /\ Platform(k) = p
      BY <2>6
    <3>2. attemptCount[p] = Len(attempts[p]) + 1
      BY <2>5, <3>1 DEF Busy, BeforeSend, At
    <3>3. ~Alone
      BY <3>1 DEF Busy, BeforeSend, At
    <3>4. QED BY <2>1, <2>4, <2>6, <3>2, <3>3
  <2>7. CASE ~Counting
    <3>1. \A k \in Calls : Platform(k) = p => ~At(k, "openAttempt")
      BY <2>7
    <3>2. attemptCount[p] = Len(attempts[p])
      <4>1. CASE Alone
        BY <2>3, <4>1 DEF LogAtRest
      <4>2. CASE ~Alone
        <5>1. PICK k \in Calls : Busy(k) /\ Platform(k) = p
          BY <4>2
        <5>2. QED BY <2>5, <3>1, <5>1
      <4>3. QED BY <4>1, <4>2
    <3>3. Alone => \A i \in DOMAIN attempts[p] :
                     attempts[p][i].status # "processing"
      BY <2>3 DEF LogAtRest
    <3>4. attemptCount[p] = Len(attempts[p]) + 0
      BY <2>2, <3>2
    <3> HIDE DEF Alone
    <3>5. QED BY <2>1, <2>4, <2>7, <3>3, <3>4
  <2>8. QED
    BY <2>6, <2>7
<1>2. QED
  BY <1>1, TypeCorrect, LogInvariant, PTL

-------------------------------------------------------------------------------
(* The four records of an outcome.                                          *)

\* The task, the platform, the post records and the log tell the same story.
RecordsAgree(p) ==
  LET succeeded == task[p] = "succeeded"
  IN  /\ succeeded <=> live[p] > 0
      /\ succeeded <=> p \in posts
      /\ succeeded <=> LogSucceeded(p)

\* They agree wherever no call is inside executeWithRetry; the post record is
\* the last that such a call writes.
RecordsInv ==
  /\ \A p \in Platforms :
       (\A k \in Calls : Busy(k) => Platform(k) # p) => RecordsAgree(p)
  /\ \A k \in Calls : Busy(k) => Platform(k) \notin posts

\* What the other invariants say at a step of k.
RecordContext(k) ==
  /\ LogContext(k) /\ StoredStatusFits(k)
  /\ call[k].pc \in BeforeSend => live[Platform(k)] = 0
  /\ call[k].pc \in AfterPost => live[Platform(k)] > 0
  /\ Busy(k) => Platform(k) \notin posts

\* A call that leaves the loop leaves the records in agreement.
RecordEffect(k) ==
  /\ \/ UNCHANGED posts
     \/ /\ posts' = posts \union {Platform(k)}
        /\ Busy(k) /\ ~Busy(k)'
  /\ ~Busy(k) /\ ~Busy(k)' => UNCHANGED << task, live >>
  /\ \A p \in Platforms :
       p = Platform(k) /\ Busy(k) /\ ~Busy(k)' => RecordsAgree(p)'

\* The ways to leave it after a refusal.
LEMMA RefusalAgrees ==
  ASSUME NEW k \in Calls, RecordContext(k),
         CloseRejected(k) \/ MarkFailed(k) \/ MarkDead(k)
  PROVE  RecordEffect(k)
<1> DEFINE p == Platform(k)
           n == call[k].attempt
<1>1. /\ LogContext(k) /\ StoredStatusFits(k)
      /\ live[p] = 0 /\ p \notin posts /\ p \in Platforms
      /\ call[k].pc \in BeforeSend
  BY LabelFacts DEF RecordContext, LogContext, CloseRejected, MarkFailed, MarkDead,
     At, Busy, BeforeSend
<1>2. UNCHANGED << live, posts >> /\ Busy(k)
  BY <1>1 DEF CloseRejected, MarkFailed, MarkDead, auditVars, Busy
<1>3. task'[p] # "succeeded"
  <2>1. CASE CloseRejected(k)
    BY <1>1, <2>1 DEF CloseRejected, StoredStatusFits
  <2>2. CASE MarkFailed(k) \/ MarkDead(k)
    BY <1>1, <2>2 DEF MarkFailed, MarkDead, UpdateTaskStatus, TaskCanTransition,
       TaskEdges, StoredStatusFits, Started, At, LogContext, StoreOK
  <2>3. QED BY <2>1, <2>2
<1>4. \A i \in DOMAIN attempts'[p] : attempts'[p][i].status = "failed"
  <2>1. CASE CloseRejected(k)
    <3>1. CompleteAttempt(k, "failed") /\ call[k].pc \in Opened
      BY <2>1 DEF CloseRejected, At, Opened
    <3>2. /\ DOMAIN attempts'[p] = 1 .. n + 1 /\ n \in Nat
          /\ \A i \in DOMAIN attempts'[p] :
               i < n + 1 => attempts'[p][i].status = "failed"
          /\ attempts'[p][n + 1].status = "failed"
      BY <1>1, <3>1, CompletedLog
    <3>3. QED BY <3>2
  <2>2. CASE MarkFailed(k) \/ MarkDead(k)
    <3>1. AllFailed(attempts[p]) /\ UNCHANGED attempts
      BY <1>1, <1>2, <2>2 DEF MarkFailed, MarkDead, auditVars, At, LogContext,
         LogFits, Closed
    <3>2. QED BY <3>1 DEF AllFailed
  <2>3. QED BY <2>1, <2>2
<1>5. ASSUME NEW q \in Platforms, q = p PROVE RecordsAgree(q)'
  BY <1>1, <1>2, <1>3, <1>4, <1>5 DEF RecordsAgree, LogSucceeded
<1>6. QED
  BY <1>2, <1>5 DEF RecordEffect

\* The way to leave it after an acceptance.
LEMMA AcceptanceAgrees ==
  ASSUME NEW k \in Calls, RecordContext(k), StorePost(k)
  PROVE  RecordEffect(k)
<1> DEFINE p == Platform(k)
           n == call[k].attempt
<1>1. /\ LogContext(k) /\ StoredStatusFits(k)
      /\ live[p] > 0 /\ p \in Platforms /\ At(k, "storePost") /\ Busy(k)
  BY LabelFacts DEF RecordContext, LogContext, StorePost, At, Busy, AfterPost
<1>2. /\ UNCHANGED << task, live, attempts >>
      /\ posts' = posts \union {p}
  BY <1>1 DEF StorePost, StoreFails, LogContext
<1>3. ~Busy(k)'
  BY <1>1 DEF StorePost, Report, LogContext, CallOK, CallState, Busy, BeforeSend,
     AfterPost
<1>4. task[p] = "succeeded"
  BY <1>1 DEF StoredStatusFits, At
<1>5. \E i \in DOMAIN attempts[p] : attempts[p][i].status = "succeeded"
  <2>1. /\ attempts[p] \in Seq(Attempt) /\ n \in Nat
        /\ Len(attempts[p]) = n + 1
        /\ attempts[p][n + 1].status = "succeeded"
    BY <1>1 DEF LogContext, StoreOK, CallOK, CallState, LogFits, At
  <2>2. n + 1 \in DOMAIN attempts[p]
    BY <2>1, LenProperties
  <2>3. QED BY <2>1, <2>2
<1>6. ASSUME NEW q \in Platforms, q = p PROVE RecordsAgree(q)'
  BY <1>1, <1>2, <1>4, <1>5, <1>6 DEF RecordsAgree, LogSucceeded
<1>7. QED
  BY <1>1, <1>2, <1>3, <1>6 DEF RecordEffect

LEMMA StepRecords ==
  ASSUME NEW k \in Calls, RecordContext(k), Continue(k)
  PROVE  RecordEffect(k)
<1>0. /\ call \in [Calls -> CallState] /\ call[k] \in CallState
      /\ ~StoreFails
  BY DEF RecordContext, LogContext, CallOK
<1> USE <1>0 DEF RecordEffect, Busy, BeforeSend, AfterPost, At, Goto, CallState
<1>1. CASE Recheck(k) \/ EnterPublishing(k) \/ ClaimKey(k) \/ LookupExisting(k)
  BY <1>1 DEF Recheck, EnterPublishing, ClaimKey, LookupExisting, auditVars
<1>2. CASE CreateTask(k)
  BY <1>2 DEF CreateTask, StoreFails, auditVars
<1>3. CASE IncrementAttemptCount(k) \/ CreateAttempt(k) \/ StartProcessing(k)
           \/ Prepare(k) \/ MarkRejected(k)
  BY <1>3 DEF IncrementAttemptCount, CreateAttempt, StartProcessing, Prepare,
     MarkRejected, auditVars
<1>4. CASE Send(k) \/ MarkSucceeded(k) \/ CloseSucceeded(k)
  BY <1>4 DEF Send, MarkSucceeded, CloseSucceeded, auditVars
<1>5. CASE CloseFailed(k) \/ MarkRetrying(k)
  BY <1>5 DEF CloseFailed, MarkRetrying, AfterFailure, auditVars
<1>6. CASE VerifyPublishing(k) \/ LeavePublishing(k)
  BY <1>6 DEF VerifyPublishing, LeavePublishing, auditVars
<1>7. QED
  BY <1>1, <1>2, <1>3, <1>4, <1>5, <1>6, RefusalAgrees, AcceptanceAgrees
     DEF Continue

LEMMA RecordsInvariant ==
  ASSUME ReplyLoss = FALSE PROVE Spec => [](faults = 0 => RecordsInv)
<1>1. Init => RecordsInv
  BY ServiceAssumption
     DEF Init, RecordsInv, RecordsAgree, LogSucceeded, Busy, BeforeSend, AfterPost
<1>2. /\ TypeOK /\ PublishingIsExclusive /\ PostedInv /\ OnceInv
      /\ (faults = 0 => StatusInv) /\ (faults = 0 => LogInv)
      /\ (faults = 0 => RecordsInv) /\ [Next]_vars
      => (faults = 0 => RecordsInv)'
  <2> SUFFICES ASSUME TypeOK, PublishingIsExclusive, StatusInv, LogInv, PostedInv,
                      OnceInv, RecordsInv, [Next]_vars, ~StoreFails
               PROVE  RecordsInv'
    BY StoresAnswer
  <2>1. ASSUME NEW k \in Calls, Continue(k) PROVE RecordsInv'
    <3>0. /\ \A j \in Calls \ {k} : call'[j] = call[j]
          /\ TaskEffect(k) /\ PostEffect(k) /\ PhaseEffect(k)
          /\ task \in [Platforms -> TaskStatuses \union {"none"}]
          /\ live \in [Platforms -> Nat]
      BY <2>1, StepMoves, StepEffects DEF TypeOK
    <3>1. LogContext(k)
      BY TypeOKParts, PlatformType DEF LogInv, LogContext, CallOK
    <3>2. RecordContext(k)
      BY <3>1 DEF RecordContext, StatusInv, OnceInv, PostedInv, RecordsInv
    <3>3. LogEffect(k) /\ RecordEffect(k)
      BY <2>1, <3>1, <3>2, StepLogs, StepRecords
    <3>4. Busy(k)' => call'[k].todo = call[k].todo
      BY <3>0 DEF PhaseEffect, Busy
    <3>5. ASSUME NEW j \in Calls, Busy(j), j # k PROVE ~Busy(k)
      BY <3>5 DEF PublishingIsExclusive, Executor, Executing, InTask, Busy
    <3>6. ASSUME NEW p \in Platforms,
                 \A j \in Calls : Busy(j)' => Platform(j)' # p
          PROVE  RecordsAgree(p)'
      <4>1. CASE Busy(k) /\ Platform(k) = p
        <5>1. ~Busy(k)'
          BY <3>4, <3>6, <4>1 DEF Platform
        <5>2. QED BY <3>3, <4>1, <5>1 DEF RecordEffect
      <4>2. CASE ~(Busy(k) /\ Platform(k) = p)
        <5>1. \A j \in Calls : Busy(j) => Platform(j) # p
          BY <3>0, <3>6, <4>2 DEF Busy, Platform
        <5>2. RecordsAgree(p)
          BY <5>1 DEF RecordsInv
        <5>3. task'[p] = task[p] /\ live'[p] = live[p]
          <6>1. CASE Busy(k) \/ Busy(k)'
            <7>1. Platform(k) # p
              BY <3>4, <3>6, <4>2, <6>1 DEF Platform
            <7>2. QED BY <3>0, <7>1 DEF TaskEffect, PostEffect
          <6>2. QED BY <3>3, <6>1 DEF RecordEffect
        <5>4. attempts'[p] = attempts[p] /\ (p \in posts' <=> p \in posts)
          BY <3>3, <4>2 DEF LogEffect, RecordEffect
        <5>5. QED BY <5>2, <5>3, <5>4 DEF RecordsAgree, LogSucceeded
      <4>3. QED BY <4>1, <4>2
    <3>7. ASSUME NEW j \in Calls, Busy(j)' PROVE Platform(j)' \notin posts'
      <4>1. CASE j # k
        <5>1. call'[j] = call[j] /\ Busy(j) /\ ~Busy(k)
          BY <3>0, <3>5, <3>7, <4>1 DEF Busy
        <5>2. QED BY <3>3, <5>1 DEF RecordEffect, RecordsInv, Platform
      <4>2. CASE j = k /\ Busy(k)
        BY <3>3, <3>4, <3>7, <4>2 DEF RecordEffect, RecordsInv, Platform
      <4>3. CASE j = k /\ ~Busy(k)
        <5>1. At(k, "createTask") /\ task[Platform(k)] = "none"
          BY <3>0, <3>7, <4>3 DEF PhaseEffect, Busy, At, AfterPost, BeforeSend
        <5>2. Platform(k) \in Platforms
          BY <3>1, <5>1, LabelFacts DEF LogContext, At
        <5>3. \A i \in Calls : ~Busy(i)
          BY <5>1 DEF PublishingIsExclusive, Executor, Executing, InTask, Busy, At,
             BeforeSend, AfterPost
        <5>4. Platform(k) \notin posts
          BY <5>1, <5>2, <5>3 DEF RecordsInv, RecordsAgree
        <5>5. QED BY <3>3, <3>4, <3>7, <4>3, <5>4 DEF RecordEffect, Platform
      <4>4. QED BY <4>1, <4>2, <4>3
    <3>8. QED BY <3>6, <3>7 DEF RecordsInv
  <2>2. ASSUME UNCHANGED << task, live, posts, attempts >>,
               \A k \in Calls : call'[k] = call[k] \/ (~Busy(k) /\ ~Busy(k)')
        PROVE  RecordsInv'
    <3>1. \A k \in Calls : /\ Busy(k)' <=> Busy(k)
                           /\ Busy(k) => Platform(k)' = Platform(k)
      BY <2>2 DEF Busy, Platform
    <3>2. \A p \in Platforms : RecordsAgree(p) => RecordsAgree(p)'
      BY <2>2 DEF RecordsAgree, LogSucceeded
    <3>3. ASSUME NEW p \in Platforms, \A k \in Calls : Busy(k)' => Platform(k)' # p
          PROVE  RecordsAgree(p)'
      <4>1. \A k \in Calls : Busy(k) => Platform(k) # p
        BY <3>1, <3>3
      <4>2. QED BY <3>2, <4>1 DEF RecordsInv
    <3>4. ASSUME NEW k \in Calls, Busy(k)' PROVE Platform(k)' \notin posts'
      <4>1. Busy(k) /\ Platform(k)' = Platform(k)
        BY <3>1, <3>4
      <4>2. QED BY <2>2, <4>1 DEF RecordsInv
    <3>5. QED BY <3>3, <3>4, Zenon DEF RecordsInv
  <2>3. ASSUME NEW k \in Calls, NEW intent \in Intents, Fetch(k, intent)
        PROVE  RecordsInv'
    <3>1. /\ \A j \in Calls \ {k} : call'[j] = call[j]
          /\ ~Busy(k) /\ ~Busy(k)'
      BY <2>3, FetchMoves DEF Fetch, At, Busy, BeforeSend, AfterPost
    <3>2. UNCHANGED << task, live, posts, attempts >>
      BY <2>3 DEF Fetch, auditVars
    <3>3. \A j \in Calls : call'[j] = call[j] \/ (~Busy(j) /\ ~Busy(j)')
      BY <3>1, Zenon
    <3>4. QED BY <2>2, <3>2, <3>3, Zenon
  <2>4. ASSUME NEW to \in ContentStatuses, UserMovesContent(to) PROVE RecordsInv'
    BY <2>2, <2>4 DEF UserMovesContent, auditVars
  <2>5. ASSUME NEW p \in Platforms, ExpireKey(p) PROVE RecordsInv'
    BY <2>2, <2>5 DEF ExpireKey, auditVars
  <2> QED
    <3>1. CASE UNCHANGED vars
      BY <2>2, <3>1 DEF vars
    <3>2. QED BY <2>1, <2>3, <2>4, <2>5, <3>1 DEF Next
<1>3. QED
  BY <1>1, <1>2, TypeCorrect, ExclusivePublishing, StatusInvariant, LogInvariant,
     PostedInvariant, OnceInvariant, PTL DEF Spec

\* Between publishes, until a store fails and if no reply of a platform is lost,
\* the task, the platform, the post record and the attempt log never disagree
\* about a success, in whatever order calls, retries and expiries come.
THEOREM OutcomeRecordsAgree ==
  ASSUME ReplyLoss = FALSE PROVE Spec => [](faults = 0 => RecordsAgreeAtRest)
<1>1. RecordsInv => RecordsAgreeAtRest
  <2> SUFFICES ASSUME RecordsInv, Resting, NEW p \in Platforms
               PROVE  RecordsAgree(p)
    BY DEF RecordsAgreeAtRest, RecordsAgree, LogSucceeded
  <2>1. \A k \in Calls : ~Busy(k)
    BY DEF Resting, Executor, Executing, InTask, Busy
  <2>2. QED BY <2>1 DEF RecordsInv
<1>2. QED
  BY <1>1, RecordsInvariant, PTL

===============================================================================
