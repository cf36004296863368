--------------------------- MODULE HttpPublishProofs ---------------------------
(***************************************************************************)
(* Theorems about HttpPublish for every set of requests, platforms and     *)
(* runs, and every combination of failures.  What is proved about          *)
(* PublishQueue is inherited through HttpRefinesQueue.                     *)
(***************************************************************************)
EXTENDS HttpPublish, PublishQueueProofs

-------------------------------------------------------------------------------
(* Lists.                                                                   *)

\* The ends of a list of platforms, and a list with one more.
LEMMA ListParts ==
  ASSUME NEW S, NEW s \in Seq(S)
  PROVE  /\ s # << >> => Head(s) \in S /\ Tail(s) \in Seq(S)
         /\ \A e \in S : /\ Append(s, e) \in Seq(S)
                         /\ Append(s, e) # << >>
                         /\ DOMAIN Append(s, e) = (DOMAIN s) \union {Len(s) + 1}
                         /\ Append(s, e)[Len(s) + 1] = e
                         /\ \A i \in DOMAIN s : Append(s, e)[i] = s[i] /\ i # Len(s) + 1
OBVIOUS

\* A request under way has a platform, hence a task, to work on.
LEMMA CurrentTask ==
  ASSUME HttpTypeOK, NEW q \in Requests,
         request[q].pc \in {"createContent", "toReady", "toPublishing", "createTask",
                            "enqueue"}
  PROVE  /\ Head(request[q].todo) \in Platforms
         /\ Tail(request[q].todo) \in Seq(Platforms)
         /\ Current(q) \in Tasks
         /\ Current(q) = << q, Head(request[q].todo) >>
         /\ WithCurrent(q) \in Seq(Platforms)
<1>1. request[q].todo \in Seq(Platforms) /\ request[q].todo # << >>
      /\ request[q].listed \in Seq(Platforms)
  BY DEF HttpTypeOK, RequestState
<1>2. QED BY <1>1, ListParts, HttpAssumption DEF Current, WithCurrent

-------------------------------------------------------------------------------
(* Type correctness.                                                        *)

\* Moving on to another label.
LEMMA GotoType ==
  ASSUME request \in [Requests -> RequestState], NEW q \in Requests,
         NEW l \in RequestLabels, Goto(q, l)
  PROVE  /\ request' \in [Requests -> RequestState]
         /\ request'[q].pc = l
         /\ request'[q].todo = request[q].todo
         /\ \A p \in Requests \ {q} : request'[p] = request[p]
<1> DEFINE new == [request[q] EXCEPT !.pc = l]
<1>1. new \in RequestState /\ new.pc = l /\ new.todo = request[q].todo
  BY DEF RequestState
<1>2. request' = [request EXCEPT ![q] = new]
  BY DEF Goto
<1> HIDE DEF new
<1>3. QED BY <1>1, <1>2

\* Ending with an answer.
LEMMA AnswerType ==
  ASSUME request \in [Requests -> RequestState], NEW q \in Requests,
         NEW w \in {"refused", "failed"}, Answer(q, w)
  PROVE  /\ request' \in [Requests -> RequestState]
         /\ request'[q].pc = "done"
         /\ \A p \in Requests \ {q} : request'[p] = request[p]
<1> DEFINE new == [request[q] EXCEPT !.pc = "done", !.answer = w]
<1>1. /\ request[q] \in RequestState /\ "done" \in RequestLabels
      /\ w \in {"none", "accepted", "refused", "failed"}
  BY DEF RequestLabels
<1>2. new \in RequestState /\ new.pc = "done"
  BY <1>1 DEF RequestState
<1>3. request' = [request EXCEPT ![q] = new]
  BY DEF Answer
<1> HIDE DEF new
<1>4. QED BY <1>2, <1>3

\* The label and the list of one request change, the rest of the types stay.
LEMMA OneRequestMoves ==
  ASSUME HttpTypeOK, NEW q \in Requests,
         content' \in [Requests -> ContentStatuses \union {"none"}],
         version' \in [Requests -> Nat], UNCHANGED page,
         request' \in [Requests -> RequestState],
         request'[q].pc = "done" \/ request'[q].todo # << >>,
         \A p \in Requests \ {q} : request'[p] = request[p]
  PROVE  HttpTypeOK'
<1>1. ASSUME NEW p \in Requests, request'[p].pc # "done",
             request'[p].pc \in {"createContent", "toReady", "toPublishing",
                                 "createTask", "enqueue"}
      PROVE  request'[p].todo # << >>
  BY <1>1 DEF HttpTypeOK
<1>2. QED BY <1>1 DEF HttpTypeOK

\* Going through the list.
LEMMA NextPlatformType ==
  ASSUME HttpTypeOK, NEW q \in Requests, NEW l \in Seq(Platforms),
         request[q].pc \in {"createTask", "enqueue"}, NextPlatform(q, l)
  PROVE  /\ request' \in [Requests -> RequestState]
         /\ request'[q].pc # "done" => request'[q].todo # << >>
         /\ \A p \in Requests \ {q} : request'[p] = request[p]
<1>1. request \in [Requests -> RequestState]
  BY DEF HttpTypeOK
<1>2. Tail(request[q].todo) \in Seq(Platforms)
  BY CurrentTask
<1> DEFINE rest == Tail(request[q].todo)
           label == IF rest = << >> THEN "done" ELSE "createTask"
           what == IF rest # << >> THEN "none"
                   ELSE IF l = << >> THEN "failed" ELSE "accepted"
           new == [request[q] EXCEPT !.todo = rest, !.listed = l, !.pc = label,
                                     !.answer = what]
<1>3. label \in RequestLabels /\ what \in {"none", "accepted", "refused", "failed"}
  BY DEF RequestLabels
<1>4. request' = [request EXCEPT ![q] = new]
  BY <1>1 DEF NextPlatform
<1>5. /\ new \in RequestState
      /\ new.pc = label
      /\ new.todo = rest
  <2> HIDE DEF label, what, rest
  <2>1. request[q] \in RequestState /\ rest \in Seq(Platforms)
    BY <1>1, <1>2 DEF rest
  <2>2. QED BY <1>3, <2>1 DEF RequestState
<1> HIDE DEF new
<1>6. QED BY <1>1, <1>4, <1>5

\* The two status updates.
LEMMA UpdateType ==
  ASSUME HttpTypeOK, NEW q \in Requests, NEW to \in ContentStatuses,
         NEW e \in Nat, NEW l \in {"toPublishing", "createTask"},
         request[q].pc \in {"toReady", "toPublishing"},
         UpdateOrFail(q, to, e, l)
  PROVE  HttpTypeOK'
<1>1. request[q].todo # << >> /\ request \in [Requests -> RequestState]
  BY DEF HttpTypeOK
<1>2. content' \in [Requests -> ContentStatuses \union {"none"}]
      /\ version' \in [Requests -> Nat]
      /\ UNCHANGED page
  <2>1. UpdateContent(q, to, e) \/ UNCHANGED << content, version >>
    BY DEF UpdateOrFail
  <2>2. UNCHANGED page
    BY DEF UpdateOrFail
  <2>3. /\ content \in [Requests -> ContentStatuses \union {"none"}]
        /\ version \in [Requests -> Nat]
    BY DEF HttpTypeOK
  <2>4. QED BY ONLY <2>1, <2>2, <2>3, to \in ContentStatuses DEF UpdateContent
<1>3. l \in RequestLabels
  BY DEF RequestLabels
<1>4. CASE Goto(q, l)
  BY <1>1, <1>2, <1>3, <1>4, GotoType, OneRequestMoves
<1>5. CASE Answer(q, "failed")
  BY <1>1, <1>2, <1>5, AnswerType, OneRequestMoves
<1>6. QED BY <1>4, <1>5 DEF UpdateOrFail

LEMMA HttpTypeStep ==
  ASSUME HttpTypeOK, [HttpNext]_vars
  PROVE  HttpTypeOK'
<1>1. CASE UNCHANGED httpVars
  BY <1>1 DEF httpVars, HttpTypeOK
<1>2. ASSUME NEW q \in Requests, NEW s \in Submissions, Submit(q, s)
      PROVE  HttpTypeOK'
  <2>1. s \in [form : BOOLEAN, platforms : Seq(Platforms)]
    BY HttpAssumption
  <2>2. QED BY <1>2, <2>1 DEF Submit, HttpTypeOK, RequestState, RequestLabels
<1>3. ASSUME NEW q \in Requests, CreateContent(q)
      PROVE  HttpTypeOK'
  <2>1. /\ UNCHANGED page
        /\ content' \in [Requests -> ContentStatuses \union {"none"}]
        /\ version' \in [Requests -> Nat]
        /\ request[q].pc = "createContent" /\ request[q].todo # << >>
    <3>1. "draft" \in ContentStatuses \union {"none"}
      BY DEF ContentStatuses
    <3>2. request[q].pc = "createContent" /\ request[q].todo # << >> /\ UNCHANGED page
      BY <1>3 DEF CreateContent, At, HttpTypeOK
    <3>3. content' \in [Requests -> ContentStatuses \union {"none"}]
          /\ version' \in [Requests -> Nat]
      BY <1>3, <3>1 DEF CreateContent, HttpTypeOK
    <3>4. QED BY <3>2, <3>3
  <2>2. "toReady" \in RequestLabels /\ request \in [Requests -> RequestState]
    BY DEF RequestLabels, HttpTypeOK
  <2>3. CASE Goto(q, "toReady")
    BY <2>1, <2>2, <2>3, GotoType, OneRequestMoves
  <2>4. CASE Answer(q, "failed")
    BY <2>1, <2>2, <2>4, AnswerType, OneRequestMoves
  <2>5. QED BY <1>3, <2>3, <2>4 DEF CreateContent
<1>4. ASSUME NEW q \in Requests, ToReady(q) \/ ToPublishing(q)
      PROVE  HttpTypeOK'
  BY <1>4, UpdateType DEF ToReady, ToPublishing, At, ContentStatuses
<1>5. ASSUME NEW q \in Requests, CreateTask(q)
      PROVE  HttpTypeOK'
  <2>1. UNCHANGED << content, version, page >> /\ request[q].pc = "createTask"
    BY <1>5 DEF CreateTask, At
  <2>2. request[q].listed \in Seq(Platforms) /\ WithCurrent(q) \in Seq(Platforms)
    BY <2>1, CurrentTask DEF HttpTypeOK, RequestState
  <2>3. CASE Goto(q, "enqueue")
    <3>1. "enqueue" \in RequestLabels /\ request \in [Requests -> RequestState]
      BY DEF RequestLabels, HttpTypeOK
    <3>2. request[q].todo # << >>
      BY <2>1 DEF HttpTypeOK
    <3>3. /\ content' \in [Requests -> ContentStatuses \union {"none"}]
          /\ version' \in [Requests -> Nat] /\ UNCHANGED page
      BY <2>1 DEF HttpTypeOK
    <3>4. QED BY <2>3, <3>1, <3>2, <3>3, GotoType, OneRequestMoves
  <2>4. ASSUME NEW l \in Seq(Platforms), NextPlatform(q, l)
        PROVE  HttpTypeOK'
    BY <2>1, <2>4, NextPlatformType DEF HttpTypeOK
  <2>5. QED BY <1>5, <2>2, <2>3, <2>4 DEF CreateTask, Created
<1>6. ASSUME NEW q \in Requests, Enqueue(q)
      PROVE  HttpTypeOK'
  <2>1. UNCHANGED << content, version, page >> /\ request[q].pc = "enqueue"
    BY <1>6 DEF Enqueue, At
  <2>2. WithCurrent(q) \in Seq(Platforms)
    BY <2>1, CurrentTask
  <2>3. QED BY <1>6, <2>1, <2>2, NextPlatformType DEF Enqueue, HttpTypeOK
<1>7. ASSUME NEW q \in Requests, Poll(q)
      PROVE  HttpTypeOK'
  BY <1>7 DEF Poll, HttpTypeOK
<1>8. QED
  BY <1>1, <1>2, <1>3, <1>4, <1>5, <1>6, <1>7
  DEF HttpNext, RequestStep, Browser, BehindTheQueue, vars

\* Every variable of the requests keeps its type, and a request under way has a
\* platform left to go through (handlers.go:98).
THEOREM HttpTypeCorrect == HttpSpec => []HttpTypeOK
<1>1. HttpInit => HttpTypeOK
  BY DEF HttpInit, HttpTypeOK, RequestState, RequestLabels
<1>2. QED BY <1>1, HttpTypeStep, PTL DEF HttpSpec

-------------------------------------------------------------------------------
(* The requests are a producer as PublishQueue describes it.                *)

LEMMA HttpStepRefines ==
  ASSUME HttpTypeOK, [HttpNext]_vars
  PROVE  [QueueNext]_queueVars
<1>1. CASE UNCHANGED vars
  BY <1>1 DEF vars
<1>2. CASE BehindTheQueue
  BY <1>2 DEF BehindTheQueue, QueueNext
<1>3. ASSUME NEW q \in Requests, CreateTask(q) \/ Enqueue(q)
      PROVE  [QueueNext]_queueVars
  <2>1. Current(q) \in Tasks
    BY <1>3, CurrentTask DEF CreateTask, Enqueue, At
  <2>2. QED BY <1>3, <2>1 DEF CreateTask, Enqueue, QueueNext
<1>4. CASE \E q \in Requests : \/ CreateContent(q) \/ ToReady(q) \/ ToPublishing(q)
                               \/ Browser(q)
  BY <1>4 DEF CreateContent, ToReady, ToPublishing, UpdateOrFail, Browser, Submit, Poll
<1>5. QED BY <1>1, <1>2, <1>3, <1>4 DEF HttpNext, RequestStep

\* Requests create each task once and enqueue it at most once, whatever lists
\* they are sent and whatever fails: the composition implements PublishQueue,
\* and everything proved about that holds behind the HTTP front.
THEOREM HttpRefinesQueue == HttpSpec => ImplementsQueue
<1>1. HttpInit => QueueInit
  BY DEF HttpInit
<1>2. HttpTypeOK /\ [HttpNext]_vars => [QueueNext]_queueVars
  BY HttpStepRefines
<1>3. QED BY <1>1, <1>2, HttpTypeCorrect, PTL DEF HttpSpec, QueueSpec, ImplementsQueue

-------------------------------------------------------------------------------
(* The inductive invariant: what the response lists, what the store holds   *)
(* and what the broker knows, at every label of a request.                  *)

\* The response lists task t of request q, or is about to.
Listed(q, t) == \E i \in DOMAIN request[q].listed : t = << q, request[q].listed[i] >>
InHand(q, t) == At(q, "enqueue") /\ t = Current(q)

BooksOf(q) ==
  LET listed == request[q].listed
  IN  /\ \A t \in Tasks :
           t[1] = q => (stored[t] # "none" <=> Listed(q, t) \/ InHand(q, t))
      /\ \A i, j \in DOMAIN listed : listed[i] = listed[j] => i = j
      /\ At(q, "enqueue") =>
           \A i \in DOMAIN listed : listed[i] # Head(request[q].todo)
      /\ request[q].pc \in {"idle", "createContent", "toReady", "toPublishing"}
           => listed = << >>
      /\ request[q].answer \in {"refused", "failed"} => listed = << >>
      /\ request[q].answer # "none" => At(q, "done")

Bookkeeping == \A q \in Requests : BooksOf(q)

\* A run that is not free works on a message that was enqueued.
RunsHaveMessages == \A r \in Runs : ~RunAt(r, "free") => msg[Task(r)] # "none"

\* Only API requests enqueue, and only with their content publishing.
EnqueuesPrepared ==
  \A q \in Requests :
    /\ At(q, "enqueue") => ~IsForm(q)
    /\ request[q].pc \in {"createTask", "enqueue"} /\ ~IsForm(q)
         => content[q] = "publishing"

HttpInvariant ==
  Bookkeeping /\ RunsHaveMessages /\ EnqueuesPrepared /\ MessagesNeedPublishing

\* Behind the queue no message appears or vanishes.
LEMMA MessagesStay ==
  ASSUME QueueTypeOK, AttachedIsBusy, RunsHaveMessages, BehindTheQueue, NEW t \in Tasks
  PROVE  msg'[t] # "none" <=> msg[t] # "none"
<1>1. msg \in [Tasks -> MessageStates]
  BY DEF QueueTypeOK
<1>2. ASSUME NEW r \in Runs, run[r].attached
      PROVE  Task(r) \in Tasks /\ msg[Task(r)] # "none"
  BY <1>2, BusyTask DEF AttachedIsBusy, RunsHaveMessages
<1>3. ASSUME NEW u \in Tasks, msg[u] # "none", FailDelivery(u)
      PROVE  msg'[t] # "none" <=> msg[t] # "none"
  BY <1>1, <1>3 DEF FailDelivery
<1>4. CASE UNCHANGED msg
  BY <1>4
<1>5. CASE \E u \in Tasks : Recover(u) \/ Reschedule(u) \/ ExpireGuard(u)
  BY <1>1, <1>3, <1>5 DEF Recover, Reschedule, ExpireGuard, brokerVars
<1>6. CASE \E u \in Tasks, r \in Runs : Deliver(u, r)
  BY <1>1, <1>6 DEF Deliver
<1>7. CASE \E r \in Runs : Timeout(r) \/ Crash(r) \/ Shutdown(r) \/ Return(r)
  BY <1>1, <1>2, <1>3, <1>7 DEF Timeout, Crash, Shutdown, Return, brokerVars
<1>8. CASE Operator
  BY <1>1, <1>8 DEF Operator, RetryDeadTask, RetryAllDeadTasks, DeleteDeadTask,
                    DeleteAllDeadTasks
<1>9. ASSUME NEW r \in Runs, HandlerStep(r)
      PROVE  UNCHANGED msg \/ Return(r)
  BY <1>9 DEF HandlerStep, Acquire, SetProcessing, Publish, RecordPublishResult,
              SetSucceeded, SetDead, brokerVars
<1>10. QED
  BY <1>4, <1>5, <1>6, <1>7, <1>8, <1>9 DEF BehindTheQueue, Broker

\* Behind the queue no task appears or vanishes: a handler writes the status of
\* the task its message names, and that exists.
LEMMA TasksStay ==
  ASSUME QueueTypeOK, RunsHaveMessages, MessagesNeedPublishing, BehindTheQueue,
         NEW t \in Tasks
  PROVE  stored'[t] # "none" <=> stored[t] # "none"
<1>1. stored \in [Tasks -> TaskStatuses \union {"none"}]
  BY DEF QueueTypeOK
<1>2. CASE UNCHANGED stored
  BY <1>2
<1>3. ASSUME NEW r \in Runs, HandlerStep(r)
      PROVE  stored'[t] # "none" <=> stored[t] # "none"
  <2>1. Task(r) \in Tasks /\ stored[Task(r)] # "none"
    BY <1>3, HandlerBusy, BusyTask DEF RunsHaveMessages, MessagesNeedPublishing
  <2>2. UNCHANGED stored \/ \E s \in TaskStatuses : SetStored(Task(r), s)
    BY <1>3 DEF HandlerStep, Acquire, SetProcessing, Publish, RecordPublishResult,
                SetSucceeded, SetDead, Return, taskVars, TaskStatuses
  <2>3. "none" \notin TaskStatuses
    BY DEF TaskStatuses
  <2>4. QED BY <1>1, <2>1, <2>2, <2>3 DEF SetStored
<1>4. Broker \/ Operator => UNCHANGED stored
  BY DEF Broker, Operator, Recover, Reschedule, ExpireGuard, Deliver, Timeout, Crash,
         Shutdown, RetryDeadTask, RetryAllDeadTasks, DeleteDeadTask,
         DeleteAllDeadTasks, taskVars
<1>5. QED BY <1>2, <1>3, <1>4 DEF BehindTheQueue

\* A run that is busy after the step was busy with the same task, or has just
\* been given a message.
LEMMA RunsKeepMessages ==
  ASSUME QueueTypeOK, AttachedIsBusy, RunsHaveMessages, BehindTheQueue
  PROVE  RunsHaveMessages'
<1> USE QueueTypeOKRuns
<1>1. CASE \E t \in Tasks, q \in Runs : Deliver(t, q)
  <2>1. PICK t \in Tasks, q \in Runs : Deliver(t, q)
    BY <1>1
  <2>2. msg[t] # "none" /\ Task(q)' = t
        /\ \A r \in Runs \ {q} : run'[r] = run[r]
    BY <2>1, DeliverRun DEF Deliver
  <2>3. ASSUME NEW r \in Runs, ~RunAt(r, "free")'
        PROVE  msg'[Task(r)'] # "none"
    <3>1. CASE r = q
      BY <2>2, <3>1, MessagesStay
    <3>2. CASE r # q
      BY <2>2, <2>3, <3>2, MessagesStay, BusyTask DEF RunAt, Task, RunsHaveMessages
    <3>3. QED BY <3>1, <3>2
  <2>4. QED BY <2>3 DEF RunsHaveMessages
<1>2. CASE ~\E t \in Tasks, q \in Runs : Deliver(t, q)
  <2>1. ASSUME NEW r \in Runs
        PROVE  RunAt(r, "free")' \/ (~RunAt(r, "free") /\ Task(r)' = Task(r))
               \/ UNCHANGED run
    <3>1. CASE \E q \in Runs : run' = [run EXCEPT ![q] = Free]
      BY <3>1 DEF RunsOK, RunAt, Task, Free
    <3>2. CASE \E q \in Runs : HandlerStep(q) /\ \E l \in RunLabels : Step(q, l)
      BY <3>2, HandlerBusy DEF RunsOK, RunAt, Task, Step, RunState
    <3>3. CASE \E q \in Runs : Timeout(q)
      BY <3>3 DEF Timeout, RunsOK, RunAt, Task, RunState
    <3>4. \A q \in Runs :
            /\ Crash(q) \/ Shutdown(q) \/ Return(q) => run' = [run EXCEPT ![q] = Free]
            /\ HandlerStep(q) => Return(q) \/ \E l \in RunLabels : Step(q, l)
      BY LabelSets DEF Crash, Shutdown, Return, HandlerStep, Acquire, SetProcessing,
        Publish, HandleFailure, RecordPublishResult, SetSucceeded, SetDead
    <3>5. Operator \/ (\E t \in Tasks : Recover(t) \/ Reschedule(t) \/ ExpireGuard(t))
            => UNCHANGED run
      BY DEF Operator, RetryDeadTask, RetryAllDeadTasks, DeleteDeadTask,
        DeleteAllDeadTasks, Recover, Reschedule, ExpireGuard
    <3>6. QED
      BY <1>2, <3>1, <3>2, <3>3, <3>4, <3>5 DEF BehindTheQueue, Broker
  <2>2. ASSUME NEW r \in Runs, ~RunAt(r, "free")'
        PROVE  msg'[Task(r)'] # "none"
    BY <2>1, <2>2, MessagesStay, BusyTask DEF RunsHaveMessages, RunAt, Task
  <2>3. QED BY <2>2 DEF RunsHaveMessages
<1>3. QED BY <1>1, <1>2

\* The request keeps its books while others act.
LEMMA BooksUntouched ==
  ASSUME NEW q \in Requests, BooksOf(q), request'[q] = request[q],
         \A t \in Tasks : t[1] = q => (stored'[t] # "none" <=> stored[t] # "none")
  PROVE  BooksOf(q)'
BY DEF BooksOf, Listed, InHand, At, Current

\* A step behind the queue.
LEMMA BehindStep ==
  ASSUME QueueTypeOK, AttachedIsBusy, HttpInvariant, BehindTheQueue
  PROVE  HttpInvariant'
<1> USE DEF HttpInvariant
<1>1. /\ \A t \in Tasks : /\ stored'[t] # "none" <=> stored[t] # "none"
                          /\ msg'[t] # "none" <=> msg[t] # "none"
      /\ UNCHANGED << content, request >>
  BY TasksStay, MessagesStay DEF BehindTheQueue, httpVars
<1>2. ASSUME NEW q \in Requests
      PROVE  BooksOf(q)'
  <2>1. BooksOf(q)
    BY DEF Bookkeeping
  <2>2. QED BY <1>1, <2>1, BooksUntouched
<1>3. EnqueuesPrepared'
  BY <1>1 DEF EnqueuesPrepared, At, IsForm
<1>4. MessagesNeedPublishing'
  BY <1>1 DEF MessagesNeedPublishing
<1>5. QED BY <1>2, <1>3, <1>4, RunsKeepMessages DEF Bookkeeping

\* What going on to the next platform makes of a request.
LEMMA NextPlatformFacts ==
  ASSUME HttpTypeOK, NEW q \in Requests, NEW l \in Seq(Platforms), NextPlatform(q, l)
  PROVE  /\ request'[q].listed = l
         /\ request'[q].form = request[q].form
         /\ request'[q].pc \in {"createTask", "done"}
         /\ request'[q].answer # "none" => request'[q].pc = "done"
         /\ request'[q].answer \in {"refused", "failed"} => l = << >>
<1> DEFINE rest == Tail(request[q].todo)
           label == IF rest = << >> THEN "done" ELSE "createTask"
           what == IF rest # << >> THEN "none"
                   ELSE IF l = << >> THEN "failed" ELSE "accepted"
           new == [request[q] EXCEPT !.todo = rest, !.listed = l, !.pc = label,
                                     !.answer = what]
<1>1. request[q] \in RequestState /\ request' = [request EXCEPT ![q] = new]
  BY DEF HttpTypeOK, NextPlatform
<1>2. /\ label \in {"createTask", "done"}
      /\ what # "none" => label = "done"
      /\ what \in {"refused", "failed"} => l = << >>
  OBVIOUS
<1>3. /\ new.listed = l /\ new.form = request[q].form
      /\ new.pc = label /\ new.answer = what
  <2> HIDE DEF label, what, rest
  <2>1. QED BY <1>1 DEF RequestState
<1>4. request'[q] = new
  <2> HIDE DEF new
  <2>1. QED BY <1>1 DEF HttpTypeOK
<1> HIDE DEF new, label, what, rest
<1>5. QED BY <1>2, <1>3, <1>4

\* Only the request that moves changes.
LEMMA OtherRequests ==
  ASSUME HttpTypeOK, QueueTypeOK, NEW q \in Requests, NEW p \in Requests \ {q},
         RequestStep(q) \/ Browser(q)
  PROVE  /\ request'[p] = request[p]
         /\ content'[p] = content[p]
         /\ \A t \in Tasks : t[1] = p => stored'[t] = stored[t] /\ msg'[t] = msg[t]
<1>current. Current(q)[1] = q
  BY DEF Current
<1> USE DEF HttpTypeOK
<1>1. CASE Browser(q)
  BY <1>1 DEF Browser, Submit, Poll, queueVars, taskVars, brokerVars
<1>2. CASE CreateContent(q) \/ ToReady(q) \/ ToPublishing(q)
  BY <1>2 DEF CreateContent, ToReady, ToPublishing, UpdateOrFail, UpdateContent, Goto,
    Answer, queueVars, taskVars, brokerVars
<1>3. CASE CreateTask(q) \/ Enqueue(q)
  <2>1. request'[p] = request[p] /\ UNCHANGED content
    BY <1>3 DEF CreateTask, Created, Enqueue, Goto, NextPlatform
  <2>2. \A t \in Tasks : t # Current(q) => stored'[t] = stored[t] /\ msg'[t] = msg[t]
    BY <1>3 DEF CreateTask, Enqueue, CreateStoredTask, SetStored, EnqueuePublish,
      queueVars, taskVars, brokerVars, QueueTypeOK
  <2>3. QED BY <1>current, <2>1, <2>2
<1>4. QED BY <1>1, <1>2, <1>3 DEF RequestStep

\* One more platform in the list.
LEMMA ListedMore ==
  ASSUME HttpTypeOK, NEW q \in Requests, NEW t,
         request[q].pc \in {"createTask", "enqueue"},
         request'[q].listed = WithCurrent(q)
  PROVE  Listed(q, t)' <=> Listed(q, t) \/ t = Current(q)
<1>1. request[q].listed \in Seq(Platforms) /\ Head(request[q].todo) \in Platforms
  BY CurrentTask DEF HttpTypeOK, RequestState
<1>2. QED BY <1>1, ListParts DEF Listed, WithCurrent, Current

\* The books of a request at a step of its own before the list is gone through.
LEMMA EarlyBooks ==
  ASSUME HttpTypeOK, NEW q \in Requests, BooksOf(q), UNCHANGED stored,
         request[q].pc \in {"createContent", "toReady", "toPublishing"},
         \/ \E l \in {"toReady", "toPublishing", "createTask"} : Goto(q, l)
         \/ Answer(q, "failed")
  PROVE  BooksOf(q)'
<1>1. /\ request[q].listed = << >> /\ request[q].answer = "none"
      /\ \A t \in Tasks : t[1] = q => stored[t] = "none"
  BY DEF BooksOf, At, Listed, InHand
<1>2. /\ request'[q].listed = << >>
      /\ request'[q].pc # "enqueue"
      /\ request'[q].answer # "none" => request'[q].pc = "done"
  BY <1>1 DEF Goto, Answer, HttpTypeOK, RequestState
<1>3. QED BY <1>1, <1>2 DEF BooksOf, At, Listed, InHand

\* A created task is in hand or listed, a failed one is neither.
LEMMA CreateTaskBooks ==
  ASSUME HttpTypeOK, QueueTypeOK, NEW q \in Requests, BooksOf(q), CreateTask(q)
  PROVE  BooksOf(q)'
<1> DEFINE c == Current(q)
           listed == request[q].listed
<1>1. /\ request[q].pc = "createTask"
      /\ request[q].answer = "none"
      /\ c \in Tasks /\ c = << q, Head(request[q].todo) >>
      /\ listed \in Seq(Platforms) /\ WithCurrent(q) \in Seq(Platforms)
      /\ \A t \in Tasks : t[1] = q => (stored[t] # "none" <=> Listed(q, t))
      /\ stored \in [Tasks -> TaskStatuses \union {"none"}]
  BY CurrentTask
  DEF CreateTask, At, BooksOf, InHand, HttpTypeOK, RequestState, QueueTypeOK
<1>2. CASE CreateStoredTask(c) /\ Created(q)
  <2>1. stored[c] = "none" /\ stored' = [stored EXCEPT ![c] = "pending"]
    BY <1>2 DEF CreateStoredTask, SetStored
  <2>2. \A i \in DOMAIN listed : listed[i] # Head(request[q].todo)
    BY <1>1, <2>1 DEF Listed
  <2>3. \A t \in Tasks : stored'[t] # "none" <=> stored[t] # "none" \/ t = c
    BY <1>1, <2>1
  <2>4. CASE Goto(q, "enqueue")
    <3>1. request'[q] = [request[q] EXCEPT !.pc = "enqueue"]
      BY <2>4 DEF Goto, HttpTypeOK
    <3>2. /\ request'[q].pc = "enqueue"
          /\ request'[q].listed = listed
          /\ request'[q].todo = request[q].todo
          /\ request'[q].answer = "none"
      BY <1>1, <3>1 DEF HttpTypeOK, RequestState
    <3>3. \A t : (Listed(q, t)' <=> Listed(q, t)) /\ (InHand(q, t)' <=> t = c)
      BY <3>2 DEF Listed, InHand, Current, At
    <3>4. QED BY <1>1, <2>2, <2>3, <3>2, <3>3 DEF BooksOf, At
  <2>5. CASE NextPlatform(q, WithCurrent(q))
    <3>1. /\ request'[q].listed = WithCurrent(q)
          /\ request'[q].pc \in {"createTask", "done"}
          /\ request'[q].answer # "none" => request'[q].pc = "done"
          /\ request'[q].answer \in {"refused", "failed"} => WithCurrent(q) = << >>
      BY <1>1, <2>5, NextPlatformFacts
    <3>2. \A t : (Listed(q, t)' <=> Listed(q, t) \/ t = c) /\ ~InHand(q, t)'
      BY <1>1, <3>1, ListedMore DEF InHand, At
    <3>3. \A i, j \in DOMAIN WithCurrent(q) :
            WithCurrent(q)[i] = WithCurrent(q)[j] => i = j
      BY <1>1, <2>2, CurrentTask, ListParts DEF WithCurrent, BooksOf
    <3>4. WithCurrent(q) # << >>
      BY <1>1, CurrentTask, ListParts DEF WithCurrent
    <3>5. QED BY <1>1, <2>3, <3>1, <3>2, <3>3, <3>4 DEF BooksOf, At
  <2>6. QED BY <1>2, <2>4, <2>5 DEF Created
<1>3. CASE NextPlatform(q, listed) /\ UNCHANGED queueVars
  <2>1. /\ request'[q].listed = listed
        /\ request'[q].pc \in {"createTask", "done"}
        /\ request'[q].answer # "none" => request'[q].pc = "done"
        /\ request'[q].answer \in {"refused", "failed"} => listed = << >>
    BY <1>1, <1>3, NextPlatformFacts
  <2>2. \A t : (Listed(q, t)' <=> Listed(q, t)) /\ ~InHand(q, t)'
    BY <2>1 DEF Listed, InHand, At
  <2>3. UNCHANGED stored
    BY <1>3 DEF queueVars, taskVars
  <2>4. QED BY <1>1, <2>1, <2>2, <2>3 DEF BooksOf, At
<1>4. QED BY <1>2, <1>3 DEF CreateTask

\* The task in hand is listed.
LEMMA EnqueueBooks ==
  ASSUME HttpTypeOK, NEW q \in Requests, BooksOf(q), Enqueue(q)
  PROVE  BooksOf(q)'
<1>1. /\ request[q].pc = "enqueue"
      /\ request[q].listed \in Seq(Platforms) /\ WithCurrent(q) \in Seq(Platforms)
      /\ Head(request[q].todo) \in Platforms
      /\ UNCHANGED stored
  BY CurrentTask
  DEF Enqueue, At, HttpTypeOK, RequestState, EnqueuePublish, queueVars, taskVars
<1>2. /\ request'[q].listed = WithCurrent(q)
      /\ request'[q].pc \in {"createTask", "done"}
      /\ request'[q].answer # "none" => request'[q].pc = "done"
      /\ request'[q].answer \in {"refused", "failed"} => WithCurrent(q) = << >>
  BY <1>1, NextPlatformFacts DEF Enqueue
<1>3. \A t : /\ Listed(q, t)' <=> Listed(q, t) \/ InHand(q, t)
             /\ ~InHand(q, t)'
  BY <1>1, <1>2, ListedMore DEF InHand, At
<1>4. /\ WithCurrent(q) # << >>
      /\ \A i, j \in DOMAIN WithCurrent(q) :
           WithCurrent(q)[i] = WithCurrent(q)[j] => i = j
  BY <1>1, ListParts DEF WithCurrent, BooksOf, At
<1>5. QED BY <1>1, <1>2, <1>3, <1>4 DEF BooksOf, At

\* The books of the request that moves.
LEMMA OwnBooks ==
  ASSUME HttpTypeOK, QueueTypeOK, NEW q \in Requests, BooksOf(q),
         RequestStep(q) \/ Browser(q)
  PROVE  BooksOf(q)'
<1>1. ASSUME NEW s \in Submissions, Submit(q, s)
      PROVE  BooksOf(q)'
  <2>1. /\ request[q].listed = << >> /\ ~At(q, "enqueue") /\ UNCHANGED stored
    BY <1>1 DEF Submit, At, BooksOf, queueVars, taskVars
  <2>2. /\ request'[q].listed = << >>
        /\ request'[q].pc # "enqueue"
        /\ request'[q].answer # "none" => request'[q].pc = "done"
    BY <1>1 DEF Submit, HttpTypeOK
  <2>3. QED BY <2>1, <2>2 DEF BooksOf, At, Listed, InHand
<1>2. CASE Poll(q)
  <2>1. UNCHANGED << request, stored >>
    BY <1>2 DEF Poll, queueVars, taskVars
  <2>2. QED BY <2>1, BooksUntouched
<1>3. CASE CreateContent(q) \/ ToReady(q) \/ ToPublishing(q)
  <2>1. UNCHANGED stored
    BY <1>3 DEF CreateContent, ToReady, ToPublishing, UpdateOrFail, queueVars, taskVars
  <2>2. QED
    BY <1>3, <2>1, EarlyBooks
    DEF CreateContent, ToReady, ToPublishing, UpdateOrFail, At
<1>4. QED
  BY <1>1, <1>2, <1>3, CreateTaskBooks, EnqueueBooks DEF RequestStep, Browser

\* A message comes with its content publishing and its task stored.
LEMMA OwnMessages ==
  ASSUME HttpTypeOK, QueueTypeOK, HttpInvariant, NEW q \in Requests,
         RequestStep(q) \/ Browser(q), NEW t \in Tasks, t[1] = q, msg'[t] # "none"
  PROVE  stored'[t] # "none" /\ content'[q] = "publishing"
<1>1. msg[t] # "none" => stored[t] # "none" /\ content[q] = "publishing"
  BY DEF HttpInvariant, MessagesNeedPublishing
<1>2. CASE Browser(q) \/ CreateTask(q)
  <2>1. UNCHANGED << msg, content >> /\ (stored[t] # "none" => stored'[t] # "none")
    BY <1>2 DEF Browser, Submit, Poll, CreateTask, CreateStoredTask, SetStored,
      QueueTypeOK, queueVars, taskVars, brokerVars
  <2>2. QED BY <1>1, <2>1
<1>3. CASE CreateContent(q) \/ ToReady(q) \/ ToPublishing(q)
  <2>1. UNCHANGED msg /\ stored[t] = "none"
    BY <1>3 DEF CreateContent, ToReady, ToPublishing, UpdateOrFail, At, HttpInvariant,
      Bookkeeping, BooksOf, Listed, InHand, queueVars, brokerVars
  <2>2. QED BY <1>1, <2>1
<1>4. CASE Enqueue(q)
  <2>1. content'[q] = "publishing" /\ UNCHANGED stored
    BY <1>4 DEF Enqueue, At, HttpInvariant, EnqueuesPrepared, EnqueuePublish,
      queueVars, taskVars
  <2>2. CASE t = Current(q)
    BY <1>4, <2>1, <2>2 DEF Enqueue, HttpInvariant, Bookkeeping, BooksOf, InHand
  <2>3. CASE t # Current(q)
    <3>1. msg'[t] = msg[t]
      BY <1>4, <2>3 DEF Enqueue, EnqueuePublish, QueueTypeOK, queueVars, brokerVars
    <3>2. QED BY <1>1, <2>1, <3>1
  <2>4. QED BY <2>2, <2>3
<1>5. QED BY <1>2, <1>3, <1>4 DEF RequestStep

\* A step of a request.
LEMMA FrontStep ==
  ASSUME HttpTypeOK, QueueTypeOK, HttpInvariant, NEW q \in Requests,
         RequestStep(q) \/ Browser(q)
  PROVE  HttpInvariant'
<1>1. ASSUME NEW p \in Requests
      PROVE  BooksOf(p)'
  <2>1. BooksOf(p)
    BY DEF HttpInvariant, Bookkeeping
  <2>2. CASE p = q
    BY <2>1, <2>2, OwnBooks
  <2>3. CASE p # q
    BY <2>1, <2>3, OtherRequests, BooksUntouched
  <2>4. QED BY <2>2, <2>3
<1>2. ASSUME NEW t \in Tasks, msg'[t] # "none"
      PROVE  stored'[t] # "none" /\ content'[t[1]] = "publishing"
  <2>1. t[1] \in Requests
    BY HttpAssumption
  <2>2. CASE t[1] = q
    BY <1>2, <2>2, OwnMessages
  <2>3. CASE t[1] # q
    BY <1>2, <2>1, <2>3, OtherRequests DEF HttpInvariant, MessagesNeedPublishing
  <2>4. QED BY <2>2, <2>3
<1>3. RunsHaveMessages'
  <2>1. UNCHANGED run /\ \A t \in Tasks : msg[t] # "none" => msg'[t] # "none"
    BY DEF RequestStep, Browser, Submit, Poll, CreateContent, ToReady, ToPublishing,
      UpdateOrFail, CreateTask, Enqueue, CreateStoredTask, EnqueuePublish, QueueTypeOK,
      queueVars, brokerVars
  <2>2. QED
    BY <2>1, BusyTask DEF HttpInvariant, RunsHaveMessages, RunAt, Task
<1>4. EnqueuesPrepared'
  <2>1. ASSUME NEW p \in Requests, p # q
        PROVE  request'[p] = request[p] /\ content'[p] = content[p]
    BY <2>1, OtherRequests
  <2>2. /\ request'[q].pc = "enqueue" => ~request'[q].form
        /\ request'[q].pc \in {"createTask", "enqueue"} /\ ~request'[q].form
             => content'[q] = "publishing"
    <3>1. CASE Browser(q)
      BY <3>1 DEF Browser, Submit, Poll, HttpInvariant, EnqueuesPrepared, At, IsForm,
        HttpTypeOK
    <3>2. CASE CreateContent(q)
      BY <3>2 DEF CreateContent, Goto, Answer, HttpTypeOK, RequestState
    <3>3. CASE ToReady(q) \/ ToPublishing(q)
      <4>1. \/ Goto(q, "toPublishing")
            \/ Goto(q, "createTask") /\ IsForm(q)
            \/ Goto(q, "createTask") /\ content'[q] = "publishing"
            \/ Answer(q, "failed")
        BY <3>3 DEF ToReady, ToPublishing, UpdateOrFail, UpdateContent, HttpTypeOK
      <4>2. request \in [Requests -> RequestState]
        BY DEF HttpTypeOK
      <4>3. QED BY <4>1, <4>2 DEF Goto, Answer, IsForm, RequestState
    <3>4. CASE CreateTask(q) /\ Goto(q, "enqueue") /\ ~IsForm(q)
      BY <3>4 DEF CreateTask, Goto, HttpInvariant, EnqueuesPrepared, At, IsForm,
        HttpTypeOK, RequestState
    <3>5. ASSUME NEW l \in Seq(Platforms), NextPlatform(q, l), UNCHANGED content,
                 request[q].pc \in {"createTask", "enqueue"}
          PROVE  /\ request'[q].pc = "enqueue" => ~request'[q].form
                 /\ request'[q].pc \in {"createTask", "enqueue"} /\ ~request'[q].form
                      => content'[q] = "publishing"
      BY <3>5, NextPlatformFacts DEF HttpInvariant, EnqueuesPrepared, At, IsForm
    <3>6. CASE CreateTask(q) \/ Enqueue(q)
      <4>1. request[q].listed \in Seq(Platforms) /\ WithCurrent(q) \in Seq(Platforms)
            /\ request[q].pc \in {"createTask", "enqueue"} /\ UNCHANGED content
        BY <3>6, CurrentTask DEF CreateTask, Enqueue, At, HttpTypeOK, RequestState
      <4>2. QED BY <3>4, <3>5, <3>6, <4>1 DEF CreateTask, Created, Enqueue
    <3>7. QED BY <3>1, <3>2, <3>3, <3>6 DEF RequestStep
  <2>3. QED
    BY <2>1, <2>2 DEF HttpInvariant, EnqueuesPrepared, At, IsForm
<1>5. QED
  BY <1>1, <1>2, <1>3, <1>4 DEF HttpInvariant, Bookkeeping, MessagesNeedPublishing

LEMMA HttpInvariantInit == HttpInit => HttpInvariant
<1> SUFFICES ASSUME HttpInit PROVE HttpInvariant
  OBVIOUS
<1>1. \A q \in Requests : /\ request[q].pc = "idle" /\ request[q].answer = "none"
                          /\ request[q].listed = << >>
  BY DEF HttpInit
<1>2. /\ \A t \in Tasks : stored[t] = "none" /\ msg[t] = "none"
      /\ \A r \in Runs : RunAt(r, "free")
  BY DEF HttpInit, QueueInit, Free, RunAt
<1>3. Bookkeeping
  BY <1>1, <1>2 DEF Bookkeeping, BooksOf, Listed, InHand, At
<1>4. QED
  BY <1>1, <1>2, <1>3
  DEF HttpInvariant, RunsHaveMessages, EnqueuesPrepared, MessagesNeedPublishing, At

LEMMA HttpInvariantStep ==
  HttpTypeOK /\ QueueTypeOK /\ AttachedIsBusy /\ HttpInvariant /\ [HttpNext]_vars
    => HttpInvariant'
<1> SUFFICES ASSUME HttpTypeOK, QueueTypeOK, AttachedIsBusy, HttpInvariant,
                    [HttpNext]_vars
             PROVE  HttpInvariant'
  OBVIOUS
<1>1. CASE UNCHANGED vars
  BY <1>1 DEF vars, queueVars, taskVars, brokerVars, httpVars, HttpInvariant,
    Bookkeeping, BooksOf, Listed, InHand, At, Current, RunsHaveMessages, RunAt, Task,
    EnqueuesPrepared, IsForm, MessagesNeedPublishing
<1>2. CASE BehindTheQueue
  BY <1>2, BehindStep
<1>3. ASSUME NEW q \in Requests, RequestStep(q) \/ Browser(q)
      PROVE  HttpInvariant'
  BY <1>3, FrontStep
<1>4. QED BY <1>1, <1>2, <1>3 DEF HttpNext

LEMMA HttpInvariantHolds == HttpSpec => []HttpInvariant
<1>1. HttpInit => QueueTypeOK /\ AttachedIsBusy
  BY QueueTypeInit DEF HttpInit
<1>2. HttpTypeOK /\ (QueueTypeOK /\ AttachedIsBusy) /\ [HttpNext]_vars
        => (QueueTypeOK /\ AttachedIsBusy)'
  BY HttpStepRefines, QueueTypeStep
<1>3. HttpSpec => [](QueueTypeOK /\ AttachedIsBusy)
  BY <1>1, <1>2, HttpTypeCorrect, PTL DEF HttpSpec
<1>4. QED
  BY <1>3, HttpTypeCorrect, HttpInvariantInit, HttpInvariantStep, PTL DEF HttpSpec

-------------------------------------------------------------------------------
(* What the invariant is for.                                               *)

\* A finished request has listed its tasks exactly: the duplicate check of the
\* store and the skipped platforms of the loop keep the response and the store
\* in step, whatever fails (handlers.go:96-132).
THEOREM ResponseMatchesStore == HttpSpec => []AnswerIsExact
<1>1. HttpInvariant => AnswerIsExact
  BY DEF HttpInvariant, Bookkeeping, BooksOf, Listed, InHand, AnswerIsExact, TasksOf, At
<1>2. QED BY <1>1, HttpInvariantHolds, PTL

\* A refused or failed request leaves no task and no message behind, so that it
\* may be sent again (handlers.go:134).
THEOREM FailureLeavesNothing == HttpSpec => []FailedStartsNothing
<1>1. HttpInvariant => FailedStartsNothing
  <2> SUFFICES ASSUME HttpInvariant, NEW q \in Requests, NEW t \in Tasks, t[1] = q,
                      request[q].answer \in {"refused", "failed"}
               PROVE  stored[t] = "none" /\ msg[t] = "none"
    BY DEF FailedStartsNothing
  <2>1. BooksOf(q)
    BY DEF HttpInvariant, Bookkeeping
  <2>2. stored[t] = "none"
    BY <2>1 DEF BooksOf, Listed, InHand, At
  <2>3. QED BY <2>2 DEF HttpInvariant, MessagesNeedPublishing
<1>2. QED BY <1>1, HttpInvariantHolds, PTL

\* However early a worker takes a message, its task is stored and its content is
\* publishing: the order of the calls in handlers.go:79-121.
THEOREM MessagesArePrepared == HttpSpec => []MessagesNeedPublishing
BY HttpInvariantHolds, PTL DEF HttpInvariant

\* Behind the HTTP front, too, one run works on a task at a time, as long as a
\* key outlives its run and the guard answers (queue/handler.go:97).
THEOREM OneRunPerHttpTask ==
  ASSUME LeaseCovers, ~GuardFails PROVE HttpSpec => []OneRunWorks
BY HttpRefinesQueue, OneRunPerTask, PTL DEF ImplementsQueue

-------------------------------------------------------------------------------
(* The last page.                                                           *)

\* A final page belongs to a request that is over, so that its tasks change only
\* behind the queue.
FinalPages ==
  /\ FinalPageStaysTrue
  /\ \A q \in Requests : page[q] = "final" => At(q, "done")

LEMMA FinalPagesStep ==
  ASSUME HttpTypeOK, QueueTypeOK, AttachedIsBusy, HttpInvariant, Uninterrupted,
         FinalPages, [HttpNext]_vars
  PROVE  FinalPages'
<1>1. ASSUME NEW q \in Requests, page[q] = "final"
      PROVE  /\ At(q, "done")'
             /\ \A t \in TasksOf(q) : stored[t] = "none" => stored'[t] = "none"
  <2>1. At(q, "done")
    BY <1>1 DEF FinalPages
  <2>2. CASE UNCHANGED vars
    BY <2>1, <2>2 DEF vars, queueVars, taskVars, httpVars, At
  <2>3. CASE BehindTheQueue
    BY <2>1, <2>3, TasksStay DEF BehindTheQueue, httpVars, At, TasksOf, HttpInvariant
  <2>4. ASSUME NEW p \in Requests, p # q, RequestStep(p) \/ Browser(p)
        PROVE  /\ At(q, "done")'
               /\ \A t \in TasksOf(q) : stored[t] = "none" => stored'[t] = "none"
    BY <2>1, <2>4, OtherRequests DEF At, TasksOf
  <2>5. CASE RequestStep(q) \/ Browser(q)
    BY <2>1, <2>5 DEF RequestStep, Browser, CreateContent, ToReady, ToPublishing,
       CreateTask, Enqueue, Submit, Poll, At, queueVars, taskVars
  <2>6. QED BY <2>2, <2>3, <2>4, <2>5 DEF HttpNext
<1>2. ASSUME NEW q \in Requests, page[q] # "final", page'[q] = "final"
      PROVE  /\ At(q, "done")'
             /\ \A t \in TasksOf(q) : stored'[t] \notin ActiveTaskStatuses
  <2>1. Poll(q)
    BY <1>2 DEF HttpNext, RequestStep, Browser, CreateContent, ToReady, ToPublishing,
       UpdateOrFail, CreateTask, Enqueue, Submit, Poll, BehindTheQueue, httpVars, vars,
       HttpTypeOK
  <2>2. At(q, "done")
    BY <2>1 DEF Poll, HttpInvariant, Bookkeeping, BooksOf
  <2>3. \A t \in TasksOf(q) : stored[t] \notin ActiveTaskStatuses
    BY <1>2, <2>1 DEF Poll, HttpTypeOK
  <2>4. QED BY <2>1, <2>2, <2>3 DEF Poll, queueVars, taskVars, At
<1>3. ASSUME NEW q \in Requests, page[q] = "final", incidents' = 0,
             NEW t \in TasksOf(q)
      PROVE  stored'[t] \notin ActiveTaskStatuses
  <2>1. incidents = 0 /\ [QueueNext]_queueVars
    <3>1. [QueueNext]_queueVars
      BY HttpStepRefines
    <3>2. QED BY <1>3, <3>1, IncidentsGrow
  <2>2. t \in Tasks /\ stored[t] \notin ActiveTaskStatuses
    BY <1>3, <2>1 DEF FinalPages, FinalPageStaysTrue, TasksOf
  <2>3. CASE stored[t] = "none"
    BY <1>1, <1>3, <2>3 DEF ActiveTaskStatuses
  <2>4. CASE stored[t] # "none"
    BY <2>1, <2>2, <2>4, SettledStays DEF Uninterrupted, Settled
  <2>5. QED BY <2>3, <2>4
<1>4. QED
  BY <1>1, <1>2, <1>3 DEF FinalPages, FinalPageStaysTrue, TasksOf

\* The page that tells a browser to stop polling (web/handler.go:177) is right
\* for good as long as no run is interrupted: the guard's skipped duplicates,
\* failing stores and expired keys cannot bring a task of it back to life.
THEOREM FinalPagesStayTrue == HttpSpec => []FinalPageStaysTrue
<1>1. HttpInit => FinalPages /\ QueueInit
  BY DEF HttpInit, FinalPages, FinalPageStaysTrue
<1>2. HttpTypeOK /\ (QueueTypeOK /\ AttachedIsBusy /\ Uninterrupted) /\ [HttpNext]_vars
        => (QueueTypeOK /\ AttachedIsBusy /\ Uninterrupted)'
  BY HttpStepRefines, QueueTypeStep, UninterruptedStep
<1>3. HttpSpec => [](QueueTypeOK /\ AttachedIsBusy /\ Uninterrupted)
  <2>1. QueueInit => QueueTypeOK /\ AttachedIsBusy /\ Uninterrupted
    BY QueueTypeInit, UninterruptedInit
  <2>2. QED BY <1>1, <1>2, <2>1, HttpTypeCorrect, PTL DEF HttpSpec
<1>4. /\ HttpTypeOK /\ (QueueTypeOK /\ AttachedIsBusy /\ Uninterrupted)
      /\ HttpInvariant /\ FinalPages /\ [HttpNext]_vars
      => FinalPages'
  <2> SUFFICES ASSUME HttpTypeOK, QueueTypeOK, AttachedIsBusy, Uninterrupted,
                      HttpInvariant, FinalPages, [HttpNext]_vars
               PROVE  FinalPages'
    OBVIOUS
  <2>1. QED BY FinalPagesStep
<1>5. FinalPages => FinalPageStaysTrue
  BY DEF FinalPages
<1>6. QED
  BY <1>1, <1>3, <1>4, <1>5, HttpTypeCorrect, HttpInvariantHolds, PTL DEF HttpSpec

-------------------------------------------------------------------------------
(* Progress of requests.                                                    *)

\* Where a call leaves its request, and what of its list.
RequestGoesOn(q) ==
  LET c == request[q]
      d == request'[q]
  IN  \/ /\ <<c.pc, d.pc>> \in
              { <<"createContent", "toReady">>, <<"toReady", "toPublishing">>,
                <<"toPublishing", "createTask">>, <<"createTask", "enqueue">> }
         /\ d.todo = c.todo
      \/ /\ c.pc \in {"createTask", "enqueue"} /\ d.pc = "createTask"
         /\ d.todo = Tail(c.todo)
      \/ /\ c.pc \in {"createContent", "toReady", "toPublishing", "createTask",
                      "enqueue"}
         /\ d.pc = "done"

LEMMA RequestStepMoves ==
  ASSUME HttpTypeOK, NEW q \in Requests, RequestStep(q)
  PROVE  RequestGoesOn(q)
<1>0. request \in [Requests -> RequestState]
  BY DEF HttpTypeOK
<1>1. CASE CreateContent(q)
  BY <1>0, <1>1 DEF CreateContent, At, Goto, Answer, RequestGoesOn, RequestState
<1>2. CASE ToReady(q) \/ ToPublishing(q)
  BY <1>0, <1>2 DEF ToReady, ToPublishing, UpdateOrFail, At, Goto, Answer, RequestGoesOn,
     RequestState
<1>3. ASSUME NEW listed, NextPlatform(q, listed)
      PROVE  request'[q].pc \in {"done", "createTask"}
             /\ request'[q].todo = Tail(request[q].todo)
  BY <1>0, <1>3 DEF NextPlatform, RequestState
<1>4. CASE CreateTask(q)
  BY <1>0, <1>3, <1>4 DEF CreateTask, Created, At, Goto, RequestGoesOn, RequestState
<1>5. CASE Enqueue(q)
  BY <1>0, <1>3, <1>5 DEF Enqueue, At, RequestGoesOn
<1>6. QED
  BY <1>1, <1>2, <1>4, <1>5 DEF RequestStep

\* The two ends of the list count.
LEMMA TodoShrinks ==
  ASSUME HttpTypeOK, NEW q \in Requests,
         request[q].pc \in {"createContent", "toReady", "toPublishing", "createTask",
                            "enqueue"}
  PROVE  /\ Len(request[q].todo) \in Nat \ {0}
         /\ Len(Tail(request[q].todo)) = Len(request[q].todo) - 1
<1>1. request[q].todo \in Seq(Platforms) /\ request[q].todo # << >>
  BY DEF HttpTypeOK, RequestState
<1>2. QED BY <1>1

\* A request makes at most three calls and two for each platform of its list, then
\* it is answered: no refusal or failure of a store or of the enqueuer sends it
\* back (handlers.go:79-132).
THEOREM RequestsAdvance == HttpSpec => RequestsMoveOn
<1>1. HttpTypeOK /\ [HttpNext]_vars =>
        [\A q \in Requests :
           ~At(q, "idle") /\ request'[q] # request[q] =>
             RequestCallsLeft(q)' < RequestCallsLeft(q)]_vars
  <2> SUFFICES ASSUME HttpTypeOK, [HttpNext]_vars, NEW q \in Requests,
                      ~At(q, "idle"), request'[q] # request[q]
               PROVE  RequestCallsLeft(q)' < RequestCallsLeft(q)
    OBVIOUS
  <2>1. RequestStep(q)
    <3>1. ASSUME NEW p \in Requests, p # q, RequestStep(p) \/ Browser(p) PROVE FALSE
      <4>1. CASE Browser(p)
        BY <3>1, <4>1 DEF Browser, Submit, Poll, HttpTypeOK
      <4>2. CASE CreateContent(p) \/ ToReady(p) \/ ToPublishing(p)
        <5>1. Goto(p, "toReady") \/ Goto(p, "toPublishing") \/ Goto(p, "createTask")
                \/ Answer(p, "failed")
          BY <4>2, Zenon DEF CreateContent, ToReady, ToPublishing, UpdateOrFail
        <5>2. {"toReady", "toPublishing", "createTask"} \subseteq RequestLabels
          BY DEF RequestLabels
        <5>3. QED BY <3>1, <5>1, <5>2, GotoType, AnswerType DEF HttpTypeOK
      <4>3. CASE CreateTask(p) \/ Enqueue(p)
        BY <3>1, <4>3 DEF CreateTask, Created, Enqueue, Goto, NextPlatform, HttpTypeOK
      <4>4. QED BY <3>1, <4>1, <4>2, <4>3 DEF RequestStep
    <3>2. ~Browser(q)
      BY DEF Browser, Submit, Poll
    <3>3. ~BehindTheQueue /\ ~UNCHANGED vars
      BY DEF BehindTheQueue, httpVars, vars
    <3>4. QED BY <3>1, <3>2, <3>3 DEF HttpNext
  <2>2. RequestGoesOn(q)
    BY <2>1, RequestStepMoves
  <2> DEFINE n == Len(request[q].todo)
             m == Len(request'[q].todo)
             c == request[q].pc
             d == request'[q].pc
  <2>3. /\ n \in Nat \ {0}
        /\ m = n \/ m = n - 1 \/ d = "done"
        /\ \/ /\ <<c, d>> \in
                   { <<"createContent", "toReady">>, <<"toReady", "toPublishing">>,
                     <<"toPublishing", "createTask">>, <<"createTask", "enqueue">> }
              /\ m = n
           \/ /\ c \in {"createTask", "enqueue"} /\ d = "createTask" /\ m = n - 1
           \/ /\ c \in {"createContent", "toReady", "toPublishing", "createTask",
                         "enqueue"}
              /\ d = "done"
    BY <2>2, TodoShrinks DEF RequestGoesOn
  <2>4. /\ RequestCallsLeft(q) =
             [ createContent |-> 2 * n + 3, toReady |-> 2 * n + 2,
               toPublishing |-> 2 * n + 1, createTask |-> 2 * n,
               enqueue |-> 2 * n - 1, idle |-> 0, done |-> 0 ][c]
        /\ RequestCallsLeft(q)' =
             [ createContent |-> 2 * m + 3, toReady |-> 2 * m + 2,
               toPublishing |-> 2 * m + 1, createTask |-> 2 * m,
               enqueue |-> 2 * m - 1, idle |-> 0, done |-> 0 ][d]
    BY DEF RequestCallsLeft
  <2> HIDE DEF n, m, c, d
  <2>5. QED BY <2>3, <2>4
<1>2. QED
  BY <1>1, HttpTypeCorrect, PTL DEF HttpSpec, RequestsMoveOn

-------------------------------------------------------------------------------
(* What the queue promises, seen from the HTTP front.                       *)

\* Tasks created through the API and the form are worked on as PublishQueue says: a
\* success has its post and result, posts are paid for by deliveries, messages move
\* on, and with a validating store no platform shows a content twice.
THEOREM QueuePromisesHold ==
  ASSUME IsFiniteSet(Runs)
  PROVE  /\ HttpSpec => []SucceededHasResult
         /\ HttpSpec => []PostsArePaidFor
         /\ HttpSpec => MessagesMoveOn
         /\ ValidatingStore => (HttpSpec => []PostedAtMostOnce)
<1>1. HttpSpec => []SucceededHasResult
  BY HttpRefinesQueue, SuccessHasResult, PTL DEF ImplementsQueue
<1>2. HttpSpec => []PostsArePaidFor
  BY HttpRefinesQueue, DeliveriesPayForPosts, PTL DEF ImplementsQueue
<1>3. HttpSpec => MessagesMoveOn
  BY HttpRefinesQueue, MessagesAdvance, PTL DEF ImplementsQueue
<1>4. ASSUME ValidatingStore PROVE HttpSpec => []PostedAtMostOnce
  <2>1. QueueSpec => []PostedAtMostOnce
    BY <1>4, PostedOncePerTask
  <2>2. QED BY <2>1, HttpRefinesQueue, PTL DEF ImplementsQueue
<1>5. QED BY <1>1, <1>2, <1>3, <1>4

===============================================================================
