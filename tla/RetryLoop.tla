------------------------------- MODULE RetryLoop -------------------------------
(***************************************************************************)
(* The retry loop of service.go:258-360 as one adapter sees it: several    *)
(* tasks, each in its own goroutine, share the mock adapter of             *)
(* platform/mock, whose outage is counted over all of them, and ask the    *)
(* RetryPolicy for the delay before the next attempt.  What the loop       *)
(* writes to the stores is in PublishService.                              *)
(*                                                                         *)
(* A duration is a signed integer of fixed width.  A float64 is a natural  *)
(* number below Inf, Inf, or NaN; its rounding is left out and multipliers *)
(* are whole.                                                              *)
(***************************************************************************)
EXTENDS PublishContracts, Integers

CONSTANTS
  Tasks,        \* tasks published through the one adapter
  Policies,     \* retry policies a task may have been created with
  Outages,      \* values of AttemptsBeforeSuccess
  MaxDuration,  \* largest time.Duration, 2^63 - 1 in the code
  Inf           \* the float64 +Inf: what is as large as this is not finite

\* RetryPolicy.Validate; MaxDelay 0 is no cap.
Valid(p) ==
  /\ p.multiplier >= 1
  /\ p.maxDelay = 0 \/ p.initialDelay <= p.maxDelay

Durations == -MaxDuration - 1 .. MaxDuration

RetryPolicy ==
  [ maxRetries : Nat, initialDelay : 0 .. MaxDuration, maxDelay : 0 .. MaxDuration,
    multiplier : Nat, jitter : BOOLEAN ]

ASSUME RetryAssumption ==
  /\ MaxDuration \in Nat /\ Inf \in Nat /\ MaxDuration < Inf
  /\ Policies \subseteq RetryPolicy /\ \A p \in Policies : Valid(p)
  /\ Outages \subseteq Nat

\* mock.Behavior.  Its flag Retryable is read by nobody, the error carries its own.
Behavior ==
  [ validateErr : BOOLEAN, uploadErr : BOOLEAN,
    publishErr : FailureKinds \union {"none"},
    attemptsBeforeSuccess : Outages,
    publishResult : BOOLEAN ]      \* one fixed result instead of numbered ones

VARIABLES
  behavior,   \* how the adapter was configured
  saturates,  \* does the processor clamp a float64 that no integer holds?
  sent,       \* MockPlatform.attempt, also the number of recorded calls
  loop        \* task -> its pass through the loop

vars == << behavior, saturates, sent, loop >>

Active == {"prepare", "send", "judge"}

Ended == {"succeeded", "failed", "dead"}

Loop ==
  [ pc      : {"idle"} \union Active \union Ended,
    policy  : Policies,
    attempt : Nat,                                  \* counted from 0
    reply   : FailureKinds \union {"none"},         \* error of the last Publish
    delay   : Durations,                            \* backoff asked for last
    post    : Nat ]                                 \* number of mock-post-<n>, or 0

RetryTypeOK ==
  /\ behavior \in Behavior
  /\ saturates \in BOOLEAN
  /\ sent \in Nat
  /\ loop \in [Tasks -> Loop]

NewLoop(p) ==
  [pc |-> "idle", policy |-> p, attempt |-> 0, reply |-> "none", delay |-> 0, post |-> 0]

\* Every task is created with the same policy (publish/storage.go:155).
RetryInit ==
  /\ behavior \in Behavior
  /\ saturates \in BOOLEAN
  /\ sent = 0
  /\ \E p \in Policies : loop = [t \in Tasks |-> NewLoop(p)]

-------------------------------------------------------------------------------
(* The policy.                                                              *)

Power(m, n) ==
  LET power[i \in 0 .. n] == IF i = 0 THEN 1 ELSE m * power[i - 1]
  IN  power[n]

NaN == -1

Float(x) == IF x < Inf THEN x ELSE Inf

\* The product as float64: the power overflows on its own, and 0 * Inf is NaN.
Exponential(p, n) ==
  LET power == Float(Power(p.multiplier, n))
  IN  IF p.initialDelay = 0 /\ power = Inf THEN NaN ELSE Float(p.initialDelay * power)

\* Variant: the duration is as wide as the float.
ToDurationUnbounded(x) == x

\* time.Duration(x).  Go leaves the result of a value out of range to the
\* processor: amd64 answers with the smallest integer, arm64 clamps.
ToDuration(x) ==
  IF x \in 0 .. MaxDuration THEN x
  ELSE IF ~saturates THEN -MaxDuration - 1
  ELSE IF x = NaN THEN 0 ELSE MaxDuration

\* Up to 25 % more, the end excluded: rand.Float64() < 1.
Jittered(x) == {x} \union { Float(x + j) : j \in { i \in 0 .. x : 4 * i < x } }

\* Variant: the first retry already waits one multiplier longer.
CalculateBackoffFromOne(p, n) ==
  LET raw == Exponential(p, n + 1)
      capped == IF p.maxDelay > 0 /\ ToDuration(raw) > p.maxDelay THEN p.maxDelay ELSE raw
  IN  { ToDuration(x) : x \in IF p.jitter THEN Jittered(capped) ELSE {capped} }

\* The delays CalculateBackoff may return; the loop passes no negative attempt.
\* The cap compares durations, and comes before the jitter.
CalculateBackoff(p, n) ==
  LET raw == Exponential(p, n)
      capped == IF p.maxDelay > 0 /\ ToDuration(raw) > p.maxDelay THEN p.maxDelay ELSE raw
  IN  { ToDuration(x) : x \in IF p.jitter THEN Jittered(capped) ELSE {capped} }

-------------------------------------------------------------------------------
(* The loop.                                                                *)

Begin(t) ==
  /\ loop[t].pc = "idle"
  /\ loop' = [loop EXCEPT ![t].pc = "prepare"]
  /\ UNCHANGED << behavior, saturates, sent >>

\* Validate and UploadAssets.
Prepare(t) ==
  /\ loop[t].pc = "prepare"
  /\ loop' = [loop EXCEPT ![t].pc =
       IF behavior.validateErr \/ behavior.uploadErr THEN "failed" ELSE "send"]
  /\ UNCHANGED << behavior, saturates, sent >>

\* Is the call that comes now inside the outage?
Failing ==
  /\ behavior.publishErr # "none"
  /\ \/ behavior.attemptsBeforeSuccess = 0
     \/ sent + 1 <= behavior.attemptsBeforeSuccess

\* Variant: posts are numbered by the attempts of their task.
PublishNumbersByTask(t) ==
  /\ loop[t].pc = "send"
  /\ sent' = sent + 1
  /\ loop' = [loop EXCEPT ![t] =
       IF Failing
       THEN [@ EXCEPT !.pc = "judge", !.reply = behavior.publishErr]
       ELSE [@ EXCEPT !.pc = "succeeded", !.reply = "none",
                      !.post = IF behavior.publishResult THEN 0
                               ELSE loop[t].attempt + 1]]
  /\ UNCHANGED << behavior, saturates >>

\* MockPlatform.Publish, under its mutex.
Publish(t) ==
  /\ loop[t].pc = "send"
  /\ sent' = sent + 1
  /\ loop' = [loop EXCEPT ![t] =
       IF Failing
       THEN [@ EXCEPT !.pc = "judge", !.reply = behavior.publishErr]
       ELSE [@ EXCEPT !.pc = "succeeded", !.reply = "none",
                      !.post = IF behavior.publishResult THEN 0 ELSE sent + 1]]
  /\ UNCHANGED << behavior, saturates >>

\* Variant: the last retry is not made.
GiveUpEarly(t) ==
  /\ loop[t].pc = "judge"
  /\ loop[t].reply # "retryable" \/ loop[t].attempt + 1 >= loop[t].policy.maxRetries
  /\ loop' = [loop EXCEPT ![t].pc =
       IF loop[t].reply = "retryable" THEN "dead" ELSE "failed"]
  /\ UNCHANGED << behavior, saturates, sent >>

\* Only a PlatformError that says so is retried, and maxRetries times at most.
GiveUp(t) ==
  /\ loop[t].pc = "judge"
  /\ loop[t].reply # "retryable" \/ loop[t].attempt >= loop[t].policy.maxRetries
  /\ loop' = [loop EXCEPT ![t].pc =
       IF loop[t].reply = "retryable" THEN "dead" ELSE "failed"]
  /\ UNCHANGED << behavior, saturates, sent >>

\* Variant: a delay of nothing, or a negative one, is taken for not yet due.
RetryWaits(t) ==
  /\ loop[t].pc = "judge"
  /\ loop[t].reply = "retryable"
  /\ loop[t].attempt < loop[t].policy.maxRetries
  /\ \E delay \in CalculateBackoff(loop[t].policy, loop[t].attempt) :
       /\ delay > 0
       /\ loop' = [loop EXCEPT ![t].pc = "prepare", ![t].attempt = @ + 1,
                               ![t].delay = delay]
  /\ UNCHANGED << behavior, saturates, sent >>

\* The delay is only logged: the next attempt follows at once.
Retry(t) ==
  /\ loop[t].pc = "judge"
  /\ loop[t].reply = "retryable"
  /\ loop[t].attempt < loop[t].policy.maxRetries
  /\ \E delay \in CalculateBackoff(loop[t].policy, loop[t].attempt) :
       loop' = [loop EXCEPT ![t].pc = "prepare", ![t].attempt = @ + 1,
                            ![t].delay = delay]
  /\ UNCHANGED << behavior, saturates, sent >>

\* MockPlatform.Reset between two tests: the outage and the numbers start over.
Reset ==
  /\ \A t \in Tasks : loop[t].pc \in Ended
  /\ sent' = 0
  /\ loop' = [t \in Tasks |-> NewLoop(loop[t].policy)]
  /\ UNCHANGED << behavior, saturates >>

-------------------------------------------------------------------------------
Step(t) == Prepare(t) \/ Publish(t) \/ GiveUp(t) \/ Retry(t)

RetryNext == Reset \/ \E t \in Tasks : Begin(t) \/ Step(t)

RetrySpec == RetryInit /\ [][RetryNext]_vars

\* The goroutine of a task that has begun is scheduled again and again.
FairRetrySpec == RetrySpec /\ \A t \in Tasks : WF_vars(Step(t))

-------------------------------------------------------------------------------
(* Properties.                                                              *)

\* A task is given up as dead only if it met an outage longer than its retries,
\* and fails only over an error that no retry is meant for; however the tasks
\* share the outage, a shorter one is survived by all (service.go:325-346,
\* mock.go:155-162).
GivesUpOnlyOnLongOutage ==
  \A t \in Tasks :
    /\ loop[t].pc = "dead" =>
         /\ behavior.publishErr = "retryable"
         /\ \/ behavior.attemptsBeforeSuccess = 0
            \/ behavior.attemptsBeforeSuccess > loop[t].policy.maxRetries
    /\ loop[t].pc = "failed" =>
         \/ behavior.validateErr \/ behavior.uploadErr
         \/ behavior.publishErr \in {"permanent", "unclassified"}

\* Two tasks never get the same numbered post, whichever of their calls fail in
\* between (mock.go:143-175).
PostsDiffer ==
  \A s, t \in Tasks :
    s # t /\ loop[s].post > 0 => loop[s].post # loop[t].post

\* min(InitialDelay * Multiplier^n, MaxDelay), the formula of policy.go:17.
Formula(p, n) ==
  LET raw == p.initialDelay * Power(p.multiplier, n)
  IN  IF p.maxDelay > 0 /\ raw > p.maxDelay THEN p.maxDelay ELSE raw

\* Do the power, the product and the longest delay fit their types?
Fits(p, n) ==
  /\ Power(p.multiplier, n) \in 0 .. Inf - 1
  /\ p.initialDelay * Power(p.multiplier, n) \in 0 .. MaxDuration
  /\ 5 * Formula(p, n) <= 4 * MaxDuration

\* While the numbers fit, the delay before retry n + 1 is what the formula says
\* and at most a quarter more; no attempt, cap or jitter turns it negative or
\* shorter (policy.go:61-79).
BackoffMatchesFormula ==
  \A t \in Tasks :
    LET p == loop[t].policy
        n == loop[t].attempt - 1
    IN  n >= 0 /\ Fits(p, n) =>
          /\ loop[t].delay >= Formula(p, n)
          /\ 4 * loop[t].delay <= 5 * Formula(p, n)

\* A task that has begun comes to an end, also on an adapter that never recovers.
LoopsEnd == \A t \in Tasks : loop[t].pc \in Active ~> loop[t].pc \in Ended

\* How many steps a task that has begun can still make: three for each retry it
\* has left, and the rest of this attempt.
StepsLeft(t) ==
  IF loop[t].pc \in Active
  THEN 3 * (loop[t].policy.maxRetries - loop[t].attempt)
         + [prepare |-> 3, send |-> 2, judge |-> 1][loop[t].pc]
  ELSE 0

\* The count behind LoopsEnd: it is never negative, each step of the task lowers it
\* and nobody else's step does anything to it, so that a task calls the adapter
\* MaxRetries + 1 times at most, whatever the adapter answers (service.go:258-360).
StepsAreCounted ==
  \A t \in Tasks : StepsLeft(t) \in 0 .. 3 * loop[t].policy.maxRetries + 3

LoopsAdvance ==
  [][\A t \in Tasks :
       loop[t].pc \in Active /\ loop'[t] # loop[t] => StepsLeft(t)' < StepsLeft(t)]_vars

\* Backoff: without jitter no delay is shorter than the one before, as long as the
\* numbers fit (policy.go:17); beyond that the conversion may turn it negative.
DelaysGrow ==
  [][\A t \in Tasks :
       LET p == loop[t].policy
           n == loop[t].attempt
       IN  n > 0 /\ loop'[t].attempt = n + 1 /\ ~p.jitter /\ Fits(p, n) =>
             loop'[t].delay >= loop[t].delay]_vars

-------------------------------------------------------------------------------
(* What the documentation does not say.                                     *)

\* Where the processor does not clamp, a product that no duration holds comes back
\* as the smallest of them: the cap of policy.go:68 compares that and lets it pass,
\* and the delay is negative, though policy.go:17 has it at MaxDelay.
BackoffUnderflows ==
  \A t \in Tasks :
    LET p == loop[t].policy
        n == loop[t].attempt - 1
    IN  n >= 0 /\ ~saturates /\ p.initialDelay * Power(p.multiplier, n) > MaxDuration =>
          loop[t].delay = -MaxDuration - 1

===============================================================================
