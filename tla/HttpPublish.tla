------------------------------ MODULE HttpPublish ------------------------------
(***************************************************************************)
(* The HTTP front of the queue: api.PublishHandler (POST /publish), the    *)
(* form of web.Handler and its status polling, over the shared in-memory   *)
(* stores of internal/storage, composed with PublishQueue.                 *)
(*                                                                         *)
(* Every request creates a content of its own, so a content is named by    *)
(* its request and a task by request and platform.  A store or enqueuer    *)
(* call is one atomic step; request[q].pc names the call made next:        *)
(*                                                                         *)
(*   idle -> createContent -> toReady -> toPublishing                      *)
(*        -> (createTask -> enqueue) per platform -> done                  *)
(***************************************************************************)
EXTENDS PublishQueue, Sequences

CONSTANTS
  Requests,     \* publish requests; each has a content of its own
  Platforms,    \* platform names a request may list
  Submissions,  \* what may be sent: [form |-> BOOLEAN, platforms |-> list]
  WriteFails,   \* may a writing store call of a request fail?
  EnqueueFails  \* may EnqueuePublish fail, or not reach a broker at all?

ASSUME HttpAssumption ==
  /\ Tasks = Requests \X Platforms
  /\ Submissions \subseteq [form : BOOLEAN, platforms : Seq(Platforms)]
  /\ \A s \in Submissions : s.form => Len(s.platforms) <= 1
  /\ WriteFails \in BOOLEAN
  /\ EnqueueFails \in BOOLEAN

VARIABLES
  content,  \* request -> status of its content, "none" before it exists
  version,  \* request -> version of its content record
  request,  \* what every request is doing and what it has answered
  page      \* request -> what its status page shows: none, poll, final

httpVars == << content, version, request, page >>
vars == << queueVars, httpVars >>

RequestLabels ==
  { "idle", "createContent", "toReady", "toPublishing", "createTask", "enqueue",
    "done" }

RequestState ==
  [ pc     : RequestLabels,
    form   : BOOLEAN,           \* web form, not the API
    todo   : Seq(Platforms),    \* platforms still to go through
    listed : Seq(Platforms),    \* tasks of the response
    answer : {"none", "accepted", "refused", "failed"} ]

HttpTypeOK ==
  /\ content \in [Requests -> ContentStatuses \union {"none"}]
  /\ version \in [Requests -> Nat]
  /\ request \in [Requests -> RequestState]
  /\ page \in [Requests -> {"none", "poll", "final"}]
  /\ \A q \in Requests :
       request[q].pc \in {"createContent", "toReady", "toPublishing", "createTask",
                          "enqueue"} => request[q].todo # << >>

HttpInit ==
  /\ QueueInit
  /\ content = [q \in Requests |-> "none"]
  /\ version = [q \in Requests |-> 0]
  /\ request = [q \in Requests |->
       [pc |-> "idle", form |-> FALSE, todo |-> << >>, listed |-> << >>,
        answer |-> "none"]]
  /\ page = [q \in Requests |-> "none"]

-------------------------------------------------------------------------------
(* Helpers.                                                                 *)

At(q, label) == request[q].pc = label

IsForm(q) == request[q].form

TasksOf(q) == { t \in Tasks : t[1] = q }

\* The task of the platform the request is at.
Current(q) == << q, Head(request[q].todo) >>

Goto(q, label) == request' = [request EXCEPT ![q].pc = label]

Answer(q, what) ==
  request' = [request EXCEPT ![q].pc = "done", ![q].answer = what]

\* Variant: the end of the list is not noticed.
NextPlatformKeepsLabel(q, listed) ==
  request' = [request EXCEPT
    ![q].todo = Tail(@), ![q].listed = listed, ![q].pc = "createTask"]

\* The current platform is done with; `listed` are the tasks of the response so
\* far.  After the last platform a response without tasks is an error.
NextPlatform(q, listed) ==
  LET rest == Tail(request[q].todo)
  IN  request' = [request EXCEPT
        ![q].todo = rest,
        ![q].listed = listed,
        ![q].pc = IF rest = << >> THEN "done" ELSE "createTask",
        ![q].answer = IF rest # << >> THEN "none"
                      ELSE IF listed = << >> THEN "failed" ELSE "accepted"]

WithCurrent(q) == Append(request[q].listed, Head(request[q].todo))

-------------------------------------------------------------------------------
(* HandlePublish of the API and of the form.                                *)

\* A request arrives and is validated; nothing is stored for a refused one.
Submit(q, s) ==
  /\ At(q, "idle")
  /\ request' = [request EXCEPT ![q] =
       [pc     |-> IF s.platforms = << >> THEN "done" ELSE "createContent",
        form   |-> s.form,
        todo   |-> s.platforms,
        listed |-> << >>,
        answer |-> IF s.platforms = << >> THEN "refused" ELSE "none"]]
  /\ UNCHANGED << queueVars, content, version, page >>

CreateContent(q) ==
  /\ At(q, "createContent")
  /\ \/ /\ content' = [content EXCEPT ![q] = "draft"]
        /\ version' = [version EXCEPT ![q] = 1]
        /\ Goto(q, "toReady")
     \/ /\ WriteFails
        /\ Answer(q, "failed")
        /\ UNCHANGED << content, version >>
  /\ UNCHANGED << queueVars, page >>

\* storage.MemoryContentStore.UpdateContent: the version must match, the status
\* edge is not checked.
UpdateContent(q, to, expected) ==
  /\ version[q] = expected
  /\ content' = [content EXCEPT ![q] = to]
  /\ version' = [version EXCEPT ![q] = @ + 1]

\* Variant: the API drops the error, as the form does.
UpdateIgnoresError(q, to, expected, next) ==
  /\ \/ UpdateContent(q, to, expected)
     \/ /\ WriteFails \/ version[q] # expected
        /\ UNCHANGED << content, version >>
  /\ Goto(q, next)
  /\ UNCHANGED << queueVars, page >>

\* One of the two status updates: an error ends an API request, a form goes on.
UpdateOrFail(q, to, expected, next) ==
  /\ \/ /\ UpdateContent(q, to, expected)
        /\ Goto(q, next)
     \/ /\ WriteFails \/ version[q] # expected
        /\ IF IsForm(q) THEN Goto(q, next) ELSE Answer(q, "failed")
        /\ UNCHANGED << content, version >>
  /\ UNCHANGED << queueVars, page >>

ToReady(q) ==
  At(q, "toReady") /\ UpdateOrFail(q, "ready", 1, "toPublishing")

ToPublishing(q) ==
  At(q, "toPublishing") /\ UpdateOrFail(q, "publishing", 2, "createTask")

\* What follows a created task: the API enqueues it, the form only lists it.
Created(q) ==
  IF IsForm(q) THEN NextPlatform(q, WithCurrent(q)) ELSE Goto(q, "enqueue")

\* Variant: the store does not look for a task of the same platform.
CreateTaskUnchecked(q) ==
  /\ At(q, "createTask")
  /\ \/ SetStored(Current(q), "pending") /\ Created(q)
     \/ /\ WriteFails
        /\ NextPlatform(q, request[q].listed)
        /\ UNCHANGED stored
  /\ UNCHANGED << brokerVars, run, guard, recorded, live, incidents, content,
                  version, page >>

\* Variant: an error of the store ends the request.
CreateTaskFailsRequest(q) ==
  /\ At(q, "createTask")
  /\ \/ CreateStoredTask(Current(q)) /\ Created(q)
     \/ /\ stored[Current(q)] # "none" \/ WriteFails
        /\ Answer(q, "failed")
        /\ UNCHANGED queueVars
  /\ UNCHANGED << content, version, page >>

\* Variant: the task is listed whether the store has created it or not.
CreateTaskListsFailed(q) ==
  /\ At(q, "createTask")
  /\ \/ CreateStoredTask(Current(q)) /\ Created(q)
     \/ /\ stored[Current(q)] # "none" \/ WriteFails
        /\ NextPlatform(q, WithCurrent(q))
        /\ UNCHANGED queueVars
  /\ UNCHANGED << content, version, page >>

\* Variant: a failed platform is tried again.
CreateTaskRetries(q) ==
  /\ At(q, "createTask")
  /\ \/ CreateStoredTask(Current(q)) /\ Created(q)
     \/ /\ stored[Current(q)] # "none" \/ WriteFails
        /\ UNCHANGED << queueVars, request >>
  /\ UNCHANGED << content, version, page >>

\* CreateTask refuses a platform that is listed twice; an error skips the
\* platform.
CreateTask(q) ==
  /\ At(q, "createTask")
  /\ \/ CreateStoredTask(Current(q)) /\ Created(q)
     \/ /\ stored[Current(q)] # "none" \/ WriteFails
        /\ NextPlatform(q, request[q].listed)
        /\ UNCHANGED queueVars
  /\ UNCHANGED << content, version, page >>

\* Enqueuer.EnqueuePublish: an error is only logged and the task is listed.
\* The enqueuer cmd/api wires in never reaches a broker and reports no error.
Enqueue(q) ==
  /\ At(q, "enqueue")
  /\ \/ EnqueuePublish(Current(q))
     \/ EnqueueFails /\ UNCHANGED queueVars
  /\ NextPlatform(q, WithCurrent(q))
  /\ UNCHANGED << content, version, page >>

-------------------------------------------------------------------------------
(* web.Handler.HandleStatusPoll.                                            *)

\* Only an accepted request has told anyone the ID of its content.  Polling goes
\* on while a task is active.
Poll(q) ==
  /\ request[q].answer = "accepted" /\ page[q] # "final"
  /\ page' = [page EXCEPT ![q] =
       IF \E t \in TasksOf(q) : stored[t] \in ActiveTaskStatuses THEN "poll" ELSE "final"]
  /\ UNCHANGED << queueVars, content, version, request >>

-------------------------------------------------------------------------------
RequestStep(q) ==
  \/ CreateContent(q) \/ ToReady(q) \/ ToPublishing(q)
  \/ CreateTask(q) \/ Enqueue(q)

Browser(q) ==
  \/ \E s \in Submissions : Submit(q, s)
  \/ Poll(q)

\* A step of the worker processes, the broker and the operators.
BehindTheQueue ==
  /\ Broker \/ Operator \/ \E r \in Runs : HandlerStep(r)
  /\ UNCHANGED httpVars

HttpNext ==
  \/ \E q \in Requests : RequestStep(q) \/ Browser(q)
  \/ BehindTheQueue

HttpSpec == HttpInit /\ [][HttpNext]_vars

\* The server runs its handlers, the queue behind it as in PublishQueue.  No
\* browser has to submit or to poll.
FairHttpSpec ==
  HttpSpec /\ (\A q \in Requests : WF_vars(RequestStep(q))) /\ QueueFairness

-------------------------------------------------------------------------------
(* Properties.                                                              *)

\* A response lists every task that exists for its content, each once: neither
\* a platform named twice nor a task that could not be created shows up, and no
\* task is left unmentioned (handlers.go:96-132).
AnswerIsExact ==
  \A q \in Requests :
    LET listed == request[q].listed
    IN  At(q, "done") =>
          /\ \A t \in TasksOf(q) :
               stored[t] # "none" <=> \E i \in DOMAIN listed : t = << q, listed[i] >>
          /\ \A i, j \in DOMAIN listed : listed[i] = listed[j] => i = j

\* A client that gets an error may send the request again: nothing of the failed
\* one is stored as a task or on its way to a platform.
FailedStartsNothing ==
  \A q \in Requests, t \in Tasks :
    t[1] = q /\ request[q].answer \in {"refused", "failed"} =>
      stored[t] = "none" /\ msg[t] = "none"

\* What the workers see has been prepared: a message in the broker is that of a
\* stored task of a content that is publishing, however early a worker runs.
MessagesNeedPublishing ==
  \A t \in Tasks :
    msg[t] # "none" => stored[t] # "none" /\ content[t[1]] = "publishing"

\* The last page a browser is shown, after which it never asks again, stays true
\* (web/handler.go:177): no worker makes a task of that content active any more,
\* unless a run was interrupted or a message run again by hand.
FinalPageStaysTrue ==
  \A q \in Requests :
    page[q] = "final" /\ incidents = 0 =>
      \A t \in TasksOf(q) : stored[t] \notin ActiveTaskStatuses

\* Seen from the broker and the workers, requests do what PublishQueue assumes
\* of a producer: a task is created once, then enqueued at most once.
ImplementsQueue == QueueSpec

\* Every valid request is answered, whatever its stores and the enqueuer return.
RequestsAnswered ==
  \A q \in Requests : At(q, "createContent") ~> At(q, "done")

\* How many store and enqueuer calls a request under way still makes: three for its
\* content and at most two for each platform.
RequestCallsLeft(q) ==
  LET perList == 2 * Len(request[q].todo)
      calls == [ createContent |-> perList + 3, toReady |-> perList + 2,
                 toPublishing |-> perList + 1, createTask |-> perList,
                 enqueue |-> perList - 1, idle |-> 0, done |-> 0 ]
  IN  calls[request[q].pc]

\* The count behind RequestsAnswered: whatever fails or is refused, a call brings its
\* request nearer to its answer, and an answered request makes no more.
RequestsMoveOn ==
  [][\A q \in Requests :
       ~At(q, "idle") /\ request'[q] # request[q] =>
         RequestCallsLeft(q)' < RequestCallsLeft(q)]_vars

-------------------------------------------------------------------------------
(* What the documentation says and this code does not do.                   *)

\* publish-state-machine.md:43: publishing means that at least one publish task
\* is in progress.  Nobody moves the content on when its last task ends.
PublishingHasActiveTask ==
  \A q \in Requests :
    content[q] = "publishing" /\ At(q, "done") =>
      \E t \in TasksOf(q) : stored[t] \in ActiveTaskStatuses

===============================================================================
