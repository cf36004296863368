---------------------------- MODULE RetryLoopProofs ----------------------------
(***************************************************************************)
(* Theorems about RetryLoop for any tasks, policies, outages and widths.   *)
(***************************************************************************)
EXTENDS RetryLoop, WellFoundedInduction, TLAPS

-------------------------------------------------------------------------------
(* Powers.                                                                  *)

\* Induction over the natural numbers with a set in place of a formula: a smallest
\* number outside of the set has no predecessor.
LEMMA NaturalInduction ==
  ASSUME NEW S, 0 \in S, \A n \in Nat : n \in S => n + 1 \in S
  PROVE  Nat \subseteq S
<1> DEFINE missing == Nat \ S
           less == { p \in Nat \X Nat : p[1] < p[2] }
<1>1. SUFFICES ASSUME missing # {} PROVE FALSE
  OBVIOUS
<1>2. IsWellFoundedOn(less, Nat)
  <2>1. OpToRel(<, Nat) = less
    BY DEF OpToRel
  <2>2. QED BY <2>1, NatLessThanWellFounded
<1>3. PICK x \in missing : \A y \in missing : << y, x >> \notin less
  <2>1. missing \subseteq Nat OBVIOUS
  <2> HIDE DEF missing, less
  <2>2. QED BY <1>1, <1>2, <2>1, WFMin
<1>4. x # 0 /\ x - 1 \in Nat /\ << x - 1, x >> \in less
  OBVIOUS
<1>5. x - 1 \in S
  BY <1>3, <1>4
<1>6. QED BY <1>4, <1>5

\* g is the table of the powers of m up to n that Power looks up.
IsTable(g, m, n) == g = [i \in 0 .. n |-> IF i = 0 THEN 1 ELSE m * g[i - 1]]

LEMMA TableEntries ==
  ASSUME NEW m \in Nat, NEW n \in Nat, NEW g, IsTable(g, m, n)
  PROVE  /\ g[0] = 1
         /\ \A i \in 1 .. n : g[i] = m * g[i - 1]
<1>1. g = [i \in 0 .. n |-> IF i = 0 THEN 1 ELSE m * g[i - 1]]
  BY DEF IsTable
<1>2. \A i \in 0 .. n : g[i] = IF i = 0 THEN 1 ELSE m * g[i - 1]
  <2> DEFINE h == [i \in 0 .. n |-> IF i = 0 THEN 1 ELSE m * g[i - 1]]
  <2>1. \A i \in 0 .. n : h[i] = IF i = 0 THEN 1 ELSE m * g[i - 1]
    OBVIOUS
  <2>2. g = h BY <1>1
  <2> HIDE DEF h
  <2>3. QED BY <2>1, <2>2
<1>3. QED BY <1>2

\* There is one such table, and only one.
LEMMA TableUnique ==
  ASSUME NEW m \in Nat, NEW n \in Nat, NEW g, IsTable(g, m, n),
         NEW h, IsTable(h, m, n)
  PROVE  g = h
<1> DEFINE S == { i \in Nat : i <= n => g[i] = h[i] }
<1>1. 0 \in S
  BY TableEntries
<1>2. ASSUME NEW i \in Nat, i \in S PROVE i + 1 \in S
  <2>1. SUFFICES ASSUME i + 1 <= n PROVE g[i + 1] = h[i + 1]
    OBVIOUS
  <2>2. i + 1 \in 1 .. n /\ (i + 1) - 1 = i /\ g[i] = h[i]
    BY <1>2, <2>1
  <2>3. QED BY <2>2, TableEntries
<1>3. Nat \subseteq S
  <2> HIDE DEF S
  <2>1. QED BY <1>1, <1>2, NaturalInduction
<1>4. \A i \in 0 .. n : g[i] = h[i]
  BY <1>3
<1>5. g = [i \in 0 .. n |-> g[i]] /\ h = [i \in 0 .. n |-> h[i]]
  BY DEF IsTable
<1>6. QED BY <1>4, <1>5

LEMMA TableExists ==
  ASSUME NEW m \in Nat, NEW n \in Nat
  PROVE  \E g : IsTable(g, m, n)
<1> DEFINE S == { i \in Nat : \E g : IsTable(g, m, i) }
<1>1. 0 \in S
  <2>1. IsTable([i \in 0 .. 0 |-> 1], m, 0)
    BY DEF IsTable
  <2>2. QED BY <2>1
<1>2. ASSUME NEW i \in Nat, i \in S PROVE i + 1 \in S
  <2>1. PICK g : IsTable(g, m, i)
    BY <1>2
  <2> DEFINE h == [j \in 0 .. i + 1 |-> IF j = i + 1 THEN m * g[i] ELSE g[j]]
  <2>2. \A j \in 0 .. i + 1 : h[j] = IF j = 0 THEN 1 ELSE m * h[j - 1]
    <3>1. g[0] = 1 /\ \A j \in 1 .. i : g[j] = m * g[j - 1]
      BY <2>1, TableEntries
    <3>2. QED BY <3>1
  <2>3. h = [j \in 0 .. i + 1 |-> h[j]]
    OBVIOUS
  <2> HIDE DEF h
  <2>4. IsTable(h, m, i + 1)
    BY <2>2, <2>3 DEF IsTable
  <2>5. QED BY <2>4
<1>3. Nat \subseteq S
  <2> HIDE DEF S
  <2>1. QED BY <1>1, <1>2, NaturalInduction
<1>4. QED BY <1>3

LEMMA PowerOfTable ==
  ASSUME NEW m \in Nat, NEW n \in Nat, NEW g, IsTable(g, m, n)
  PROVE  Power(m, n) = g[n]
<1> DEFINE chosen == CHOOSE h : IsTable(h, m, n)
<1>1. IsTable(chosen, m, n)
  BY TableExists
<1>2. Power(m, n) = chosen[n]
  BY DEF Power, IsTable
<1> HIDE DEF chosen
<1>3. QED BY <1>1, <1>2, TableUnique

\* Power is what its name says.
LEMMA PowerSteps ==
  ASSUME NEW m \in Nat
  PROVE  /\ Power(m, 0) = 1
         /\ \A n \in Nat : Power(m, n + 1) = m * Power(m, n)
<1>1. Power(m, 0) = 1
  <2>1. PICK g : IsTable(g, m, 0)
    BY TableExists
  <2>2. QED BY <2>1, PowerOfTable, TableEntries
<1>2. ASSUME NEW n \in Nat PROVE Power(m, n + 1) = m * Power(m, n)
  <2>1. PICK g : IsTable(g, m, n + 1)
    BY TableExists
  <2> DEFINE h == [i \in 0 .. n |-> g[i]]
  <2>2. g[0] = 1 /\ \A i \in 1 .. n + 1 : g[i] = m * g[i - 1]
    BY <2>1, TableEntries
  <2>3. IsTable(h, m, n)
    BY <2>2 DEF IsTable
  <2>4. Power(m, n) = g[n]
    BY <2>3, PowerOfTable
  <2>5. Power(m, n + 1) = g[n + 1]
    BY <2>1, PowerOfTable
  <2>6. QED BY <2>2, <2>4, <2>5
<1>3. QED BY <1>1, <1>2

\* The powers of a valid multiplier are positive and do not fall; those of a
\* multiplier that grows the delay pass every bound.
LEMMA PowersGrow ==
  ASSUME NEW m \in Nat, m >= 1, NEW n \in Nat
  PROVE  /\ Power(m, n) \in Nat \ {0}
         /\ Power(m, n + 1) >= Power(m, n)
         /\ m >= 2 => Power(m, n) > n
<1> DEFINE S == { i \in Nat : Power(m, i) \in Nat \ {0} /\ (m >= 2 => Power(m, i) > i) }
<1>1. 0 \in S
  BY PowerSteps
<1>2. ASSUME NEW i \in Nat, i \in S PROVE i + 1 \in S
  <2>1. Power(m, i + 1) = m * Power(m, i) /\ Power(m, i) \in Nat \ {0}
    BY <1>2, PowerSteps
  <2>2. m * Power(m, i) \in Nat \ {0}
    BY <2>1
  <2>3. m >= 2 => m * Power(m, i) >= 2 * Power(m, i)
    BY <2>1
  <2>4. QED BY <1>2, <2>1, <2>2, <2>3
<1>3. Nat \subseteq S
  <2> HIDE DEF S
  <2>1. QED BY <1>1, <1>2, NaturalInduction
<1>4. Power(m, n) \in Nat \ {0} /\ (m >= 2 => Power(m, n) > n)
  BY <1>3
<1>5. Power(m, n + 1) = m * Power(m, n)
  BY PowerSteps
<1>6. m * Power(m, n) >= Power(m, n)
  BY <1>4
<1>7. QED BY <1>4, <1>5, <1>6

-------------------------------------------------------------------------------
(* Delays.                                                                  *)

LEMMA ConversionType ==
  ASSUME NEW x
  PROVE  ToDuration(x) \in Durations
<1>1. 0 \in Durations /\ MaxDuration \in Durations /\ -MaxDuration - 1 \in Durations
  BY RetryAssumption DEF Durations
<1>2. 0 .. MaxDuration \subseteq Durations
  BY RetryAssumption DEF Durations
<1>3. QED BY <1>1, <1>2 DEF ToDuration

LEMMA BackoffType ==
  ASSUME NEW p, NEW n
  PROVE  CalculateBackoff(p, n) \subseteq Durations
BY ConversionType DEF CalculateBackoff

\* The jitter of a delay that a float holds with room to spare.
LEMMA JitterBounds ==
  ASSUME NEW x \in Nat, 5 * x <= 4 * MaxDuration, NEW y \in Jittered(x)
  PROVE  y \in 0 .. MaxDuration /\ y >= x /\ 4 * y <= 5 * x
<1>1. CASE y = x
  BY <1>1, RetryAssumption
<1>2. CASE y # x
  <2>1. PICK j \in 0 .. x : 4 * j < x /\ y = Float(x + j)
    BY <1>2 DEF Jittered
  <2>2. x + j <= MaxDuration /\ 4 * (x + j) <= 5 * x
    BY <2>1, RetryAssumption
  <2>3. y = x + j
    BY <2>1, <2>2, RetryAssumption DEF Float
  <2>4. QED BY <2>1, <2>2, <2>3
<1>3. QED BY <1>1, <1>2

\* What policy.go:61-79 computes is what policy.go:17 says, while the numbers fit.
LEMMA BackoffFollowsFormula ==
  ASSUME NEW p \in Policies, NEW n \in Nat, Fits(p, n),
         NEW delay \in CalculateBackoff(p, n)
  PROVE  delay >= Formula(p, n) /\ 4 * delay <= 5 * Formula(p, n)
<1> DEFINE raw == p.initialDelay * Power(p.multiplier, n)
           base == Formula(p, n)
<1>1. p.initialDelay \in Nat /\ p.maxDelay \in 0 .. MaxDuration
  BY RetryAssumption DEF RetryPolicy
<1>2. /\ Power(p.multiplier, n) \in 0 .. Inf - 1
      /\ raw \in 0 .. MaxDuration /\ 5 * base <= 4 * MaxDuration
  BY DEF Fits
<1>3. Exponential(p, n) = raw
  <2>1. Float(Power(p.multiplier, n)) = Power(p.multiplier, n) /\ Power(p.multiplier, n) # Inf
    BY <1>2, RetryAssumption DEF Float
  <2>2. Float(raw) = raw
    BY <1>2, RetryAssumption DEF Float
  <2>3. QED BY <2>1, <2>2 DEF Exponential
<1>4. ToDuration(raw) = raw
  BY <1>2 DEF ToDuration
<1>5. base \in Nat /\ base = IF p.maxDelay > 0 /\ raw > p.maxDelay THEN p.maxDelay ELSE raw
  BY <1>1, <1>2 DEF Formula
<1>6. PICK x \in (IF p.jitter THEN Jittered(base) ELSE {base}) : delay = ToDuration(x)
  BY <1>3, <1>4, <1>5 DEF CalculateBackoff
<1>7. x \in Jittered(base)
  BY <1>6 DEF Jittered
<1>8. x \in 0 .. MaxDuration /\ x >= base /\ 4 * x <= 5 * base
  BY <1>2, <1>5, <1>7, JitterBounds
<1>9. delay = x
  BY <1>6, <1>8 DEF ToDuration
<1>10. QED BY <1>8, <1>9

\* Without jitter the two bounds meet.
LEMMA UnjitteredDelay ==
  ASSUME NEW p \in Policies, NEW n \in Nat, Fits(p, n), ~p.jitter,
         NEW delay \in CalculateBackoff(p, n)
  PROVE  delay = Formula(p, n)
<1> DEFINE raw == p.initialDelay * Power(p.multiplier, n)
           base == Formula(p, n)
<1>1. p.initialDelay \in Nat /\ p.maxDelay \in 0 .. MaxDuration /\ p.multiplier \in Nat
  BY RetryAssumption DEF RetryPolicy
<1>2. Power(p.multiplier, n) \in 0 .. Inf - 1 /\ raw \in 0 .. MaxDuration
  BY DEF Fits
<1>3. Exponential(p, n) = raw
  <2>1. Float(Power(p.multiplier, n)) = Power(p.multiplier, n) /\ Power(p.multiplier, n) # Inf
    BY <1>2, RetryAssumption DEF Float
  <2>2. Float(raw) = raw
    BY <1>2, RetryAssumption DEF Float
  <2>3. QED BY <2>1, <2>2 DEF Exponential
<1>4. ToDuration(raw) = raw
  BY <1>2 DEF ToDuration
<1>5. /\ base \in 0 .. MaxDuration
      /\ base = IF p.maxDelay > 0 /\ raw > p.maxDelay THEN p.maxDelay ELSE raw
  BY <1>1, <1>2 DEF Formula
<1>6. delay = ToDuration(base)
  BY <1>3, <1>4, <1>5 DEF CalculateBackoff
<1>7. QED BY <1>5, <1>6 DEF ToDuration

\* The formula does not fall from one retry to the next, and what fits at one
\* retry has fitted before.
LEMMA FormulaGrows ==
  ASSUME NEW p \in Policies, NEW n \in Nat, Fits(p, n + 1)
  PROVE  Fits(p, n) /\ Formula(p, n) <= Formula(p, n + 1)
<1> DEFINE low  == Power(p.multiplier, n)
           high == Power(p.multiplier, n + 1)
<1>1. /\ p.initialDelay \in Nat /\ p.maxDelay \in Nat
      /\ p.multiplier \in Nat /\ p.multiplier >= 1
  BY RetryAssumption DEF RetryPolicy, Valid
<1>2. low \in Nat /\ high \in Nat /\ low <= high
  <2>1. low \in Nat \ {0} /\ high >= low
    BY <1>1, PowersGrow
  <2>2. \A i \in Nat : Power(p.multiplier, i) \in Nat \ {0}
    BY <1>1, PowersGrow
  <2>3. QED BY <2>1, <2>2
<1>3. /\ p.initialDelay * low \in Nat /\ p.initialDelay * high \in Nat
      /\ p.initialDelay * low <= p.initialDelay * high
  <2> HIDE DEF low, high
  <2>1. QED BY <1>1, <1>2
<1>4. /\ high \in 0 .. Inf - 1 /\ p.initialDelay * high \in 0 .. MaxDuration
      /\ 5 * Formula(p, n + 1) <= 4 * MaxDuration
  BY DEF Fits
<1> HIDE DEF low, high
<1>5. low \in 0 .. Inf - 1 /\ p.initialDelay * low \in 0 .. MaxDuration
  BY <1>2, <1>3, <1>4, RetryAssumption
<1>6. /\ Formula(p, n) \in Nat /\ Formula(p, n + 1) \in Nat
      /\ Formula(p, n) <= Formula(p, n + 1)
  BY <1>1, <1>3 DEF Formula, low, high
<1>7. QED BY <1>4, <1>5, <1>6, RetryAssumption DEF Fits, low, high

\* A product too long for a duration stays too long through the jitter, and passes
\* the cap as the smallest duration.
LEMMA LongDelay ==
  ASSUME NEW p \in Policies, NEW n \in Nat, ~saturates,
         p.initialDelay * Power(p.multiplier, n) > MaxDuration,
         NEW delay \in CalculateBackoff(p, n)
  PROVE  delay = -MaxDuration - 1
<1> DEFINE power == Power(p.multiplier, n)
           raw == Exponential(p, n)
<1>1. /\ p.initialDelay \in Nat /\ p.maxDelay \in Nat
      /\ p.multiplier \in Nat /\ p.multiplier >= 1
      /\ MaxDuration \in Nat /\ Inf \in Nat /\ MaxDuration < Inf
  BY RetryAssumption DEF RetryPolicy, Valid
<1>2. power \in Nat
  BY <1>1, PowersGrow
<1> HIDE DEF power
<1>3. p.initialDelay >= 1
  <2>1. p.initialDelay = 0 => p.initialDelay * power = 0
    BY <1>2
  <2>2. QED BY <1>1, <2>1 DEF power
<1>4. raw \in Nat /\ raw > MaxDuration
  <2>1. CASE power < Inf
    <3>1. raw = Float(p.initialDelay * power)
      BY <1>1, <1>2, <1>3, <2>1 DEF Exponential, Float, power
    <3>2. p.initialDelay * power \in Nat /\ p.initialDelay * power > MaxDuration
      BY <1>1, <1>2 DEF power
    <3>3. QED BY <1>1, <3>1, <3>2 DEF Float
  <2>2. CASE ~(power < Inf)
    <3>1. raw = Float(p.initialDelay * Inf)
      BY <1>1, <1>2, <1>3, <2>2 DEF Exponential, Float, power
    <3>2. p.initialDelay * Inf \in Nat /\ p.initialDelay * Inf >= Inf
      BY <1>1, <1>3
    <3>3. QED BY <1>1, <3>1, <3>2 DEF Float
  <2>3. QED BY <2>1, <2>2
<1>5. ~(ToDuration(raw) > p.maxDelay)
  BY <1>1, <1>4 DEF ToDuration
<1>6. PICK x \in (IF p.jitter THEN Jittered(raw) ELSE {raw}) : delay = ToDuration(x)
  BY <1>5 DEF CalculateBackoff
<1> HIDE DEF raw
<1>7. x \in Jittered(raw)
  BY <1>6 DEF Jittered
<1>8. x \in Nat /\ x > MaxDuration
  BY <1>1, <1>4, <1>7 DEF Jittered, Float
<1>9. QED BY <1>1, <1>6, <1>8 DEF ToDuration

-------------------------------------------------------------------------------
(* The invariant.                                                           *)

\* A task that goes on has made all its calls inside the outage: call number
\* attempt, or attempt + 1 once answered, was one of the sent ones and failed.
Calls(t) == IF loop[t].pc = "judge" THEN loop[t].attempt + 1 ELSE loop[t].attempt

InOutage(t) ==
  /\ loop[t].pc \in Active =>
       /\ Calls(t) <= sent
       /\ behavior.attemptsBeforeSuccess = 0
          \/ Calls(t) <= behavior.attemptsBeforeSuccess
  /\ loop[t].pc = "judge" =>
       behavior.publishErr = loop[t].reply /\ loop[t].reply # "none"
  /\ loop[t].pc = "idle" => loop[t].attempt = 0

GivenUp(t) ==
  /\ loop[t].pc = "dead" =>
       /\ behavior.publishErr = "retryable"
       /\ \/ behavior.attemptsBeforeSuccess = 0
          \/ behavior.attemptsBeforeSuccess > loop[t].policy.maxRetries
  /\ loop[t].pc = "failed" =>
       \/ behavior.validateErr \/ behavior.uploadErr
       \/ behavior.publishErr \in {"permanent", "unclassified"}

Delayed(t) ==
  loop[t].attempt > 0 =>
    loop[t].delay \in CalculateBackoff(loop[t].policy, loop[t].attempt - 1)

Numbered(t) ==
  /\ loop[t].post <= sent
  /\ \A s \in Tasks : s # t /\ loop[t].post > 0 => loop[s].post # loop[t].post

RetryInvariant ==
  /\ RetryTypeOK
  /\ \A t \in Tasks : InOutage(t) /\ GivenUp(t) /\ Delayed(t) /\ Numbered(t)

\* A delay stays one of its attempt while the loop keeps all three.
LEMMA DelayKept ==
  ASSUME NEW t, Delayed(t), UNCHANGED saturates, loop'[t].attempt = loop[t].attempt,
         loop'[t].policy = loop[t].policy, loop'[t].delay = loop[t].delay
  PROVE  Delayed(t)'
BY DEF Delayed, CalculateBackoff, ToDuration

LEMMA RetryStart == RetryInit => RetryInvariant
<1> SUFFICES ASSUME RetryInit PROVE RetryInvariant
  OBVIOUS
<1>1. PICK p \in Policies : loop = [t \in Tasks |-> NewLoop(p)]
  BY DEF RetryInit
<1>2. NewLoop(p) \in Loop
  BY RetryAssumption DEF NewLoop, Loop, Durations
<1>3. QED
  BY <1>1, <1>2 DEF RetryInit, RetryInvariant, RetryTypeOK, NewLoop, InOutage,
     GivenUp, Delayed, Numbered, Active

\* One task moves; the others keep what they have, and sent does not shrink.
LEMMA OthersKeep ==
  ASSUME RetryInvariant, NEW t \in Tasks, NEW new \in Loop,
         loop' = [loop EXCEPT ![t] = new],
         UNCHANGED behavior, UNCHANGED saturates, sent' \in Nat, sent' >= sent,
         InOutage(t)', GivenUp(t)', Delayed(t)',
         \/ new.post = loop[t].post
         \/ new.post = 0
         \/ new.post = sent' /\ sent' > sent
  PROVE  RetryInvariant'
<1>1. /\ sent \in Nat /\ loop' \in [Tasks -> Loop] /\ loop'[t] = new
      /\ \A s \in Tasks \ {t} : loop'[s] = loop[s]
      /\ \A s \in Tasks : loop[s].post \in Nat /\ loop[s].post <= sent /\ loop'[s].post \in Nat
                          /\ loop[s].attempt \in Nat
  BY DEF RetryInvariant, RetryTypeOK, Loop, Numbered
<1>2. RetryTypeOK'
  BY <1>1 DEF RetryInvariant, RetryTypeOK
<1>3. ASSUME NEW s \in Tasks
      PROVE  InOutage(s)' /\ GivenUp(s)' /\ Delayed(s)'
  <2>1. CASE s = t
    BY <2>1
  <2>2. CASE s # t
    <3>1. loop'[s] = loop[s] /\ behavior' = behavior /\ saturates' = saturates
      BY <1>1, <2>2
    <3>2. InOutage(s) /\ GivenUp(s) /\ Delayed(s)
      BY DEF RetryInvariant
    <3>3. InOutage(s)'
      BY <1>1, <3>1, <3>2 DEF InOutage, Calls, Active
    <3>4. GivenUp(s)'
      BY <3>1, <3>2 DEF GivenUp
    <3>5. Delayed(s)'
      BY <3>1, <3>2, DelayKept
    <3>6. QED BY <3>3, <3>4, <3>5
  <2>3. QED BY <2>1, <2>2
<1>4. ASSUME NEW s \in Tasks
      PROVE  Numbered(s)'
  <2>1. \A u, v \in Tasks : u # v /\ loop[v].post > 0 => loop[u].post # loop[v].post
    BY DEF RetryInvariant, Numbered
  <2>2. loop'[s].post <= sent'
    BY <1>1
  <2>3. ASSUME NEW u \in Tasks, u # s, loop'[s].post > 0
        PROVE  loop'[u].post # loop'[s].post
    <3>1. CASE s = t
      BY <1>1, <2>1, <2>3, <3>1
    <3>2. CASE u = t
      BY <1>1, <2>1, <2>3, <3>2
    <3>3. CASE s # t /\ u # t
      BY <1>1, <2>1, <2>3, <3>3
    <3>4. QED BY <3>1, <3>2, <3>3
  <2>4. QED BY <2>2, <2>3 DEF Numbered
<1>5. QED BY <1>2, <1>3, <1>4 DEF RetryInvariant

LEMMA RetryStep ==
  ASSUME RetryInvariant, NEW t \in Tasks, Begin(t) \/ Step(t)
  PROVE  RetryInvariant'
<1> DEFINE old == loop[t]
<1>1. /\ old \in Loop /\ sent \in Nat /\ behavior \in Behavior
      /\ loop \in [Tasks -> Loop] /\ old.attempt \in Nat /\ old.post \in Nat
      /\ old.policy \in Policies /\ old.policy.maxRetries \in Nat
      /\ behavior.attemptsBeforeSuccess \in Nat
      /\ InOutage(t) /\ GivenUp(t) /\ Delayed(t)
  <2>1. /\ old \in Loop /\ sent \in Nat /\ behavior \in Behavior
        /\ loop \in [Tasks -> Loop] /\ InOutage(t) /\ GivenUp(t) /\ Delayed(t)
    BY DEF RetryInvariant, RetryTypeOK
  <2>2. old.attempt \in Nat /\ old.post \in Nat /\ old.policy \in Policies
    BY <2>1 DEF Loop
  <2>3. old.policy.maxRetries \in Nat
    BY <2>2, RetryAssumption DEF RetryPolicy
  <2>4. behavior.attemptsBeforeSuccess \in Nat
    BY <2>1, RetryAssumption DEF Behavior
  <2>5. QED BY <2>1, <2>2, <2>3, <2>4
<1>2. CASE Begin(t)
  <2> DEFINE new == [old EXCEPT !.pc = "prepare"]
  <2>1. new \in Loop /\ loop' = [loop EXCEPT ![t] = new] /\ loop'[t] = new
    BY <1>1, <1>2 DEF Begin, Loop, Active
  <2>2. /\ new.pc = "prepare" /\ new.attempt = old.attempt /\ new.post = old.post
        /\ new.policy = old.policy /\ new.delay = old.delay
    BY <1>1 DEF Loop
  <2>3. UNCHANGED << behavior, saturates, sent >> /\ old.attempt = 0
    BY <1>1, <1>2 DEF Begin, InOutage
  <2>4. InOutage(t)' /\ GivenUp(t)' /\ Delayed(t)'
    BY <1>1, <2>1, <2>2, <2>3 DEF InOutage, GivenUp, Delayed, Calls, Active
  <2>5. UNCHANGED behavior /\ UNCHANGED saturates /\ sent' \in Nat /\ sent' >= sent
    BY <1>1, <2>3
  <2> HIDE DEF new
  <2>6. QED BY <2>1, <2>2, <2>4, <2>5, OthersKeep
<1>3. CASE Prepare(t)
  <2> DEFINE bad == behavior.validateErr \/ behavior.uploadErr
             new == [old EXCEPT !.pc = IF bad THEN "failed" ELSE "send"]
  <2>1. new \in Loop /\ loop' = [loop EXCEPT ![t] = new] /\ loop'[t] = new
    BY <1>1, <1>3 DEF Prepare, Loop, Active, Ended
  <2>2. /\ new.pc = (IF bad THEN "failed" ELSE "send") /\ new.attempt = old.attempt
        /\ new.post = old.post /\ new.policy = old.policy /\ new.delay = old.delay
    BY <1>1 DEF Loop
  <2>3. UNCHANGED << behavior, saturates, sent >> /\ old.pc = "prepare"
    BY <1>3 DEF Prepare
  <2>4. InOutage(t)'
    BY <1>1, <2>1, <2>2, <2>3 DEF InOutage, Calls, Active
  <2>5. GivenUp(t)'
    BY <2>1, <2>2, <2>3 DEF GivenUp
  <2>6. Delayed(t)'
    BY <1>1, <2>1, <2>2, <2>3, DelayKept
  <2>7. UNCHANGED behavior /\ UNCHANGED saturates /\ sent' \in Nat /\ sent' >= sent
    BY <1>1, <2>3
  <2> HIDE DEF new
  <2>8. QED BY <2>1, <2>2, <2>4, <2>5, <2>6, <2>7, OthersKeep
<1>4. CASE Publish(t)
  <2> DEFINE number == IF behavior.publishResult THEN 0 ELSE sent + 1
             new == IF Failing
                    THEN [old EXCEPT !.pc = "judge", !.reply = behavior.publishErr]
                    ELSE [old EXCEPT !.pc = "succeeded", !.reply = "none", !.post = number]
  <2>1. number \in Nat /\ behavior.publishErr \in FailureKinds \union {"none"}
    BY <1>1 DEF Behavior
  <2>2. new \in Loop /\ loop' = [loop EXCEPT ![t] = new] /\ loop'[t] = new
    BY <1>1, <1>4, <2>1 DEF Publish, Loop, Active, Ended
  <2>3. /\ new.attempt = old.attempt /\ new.policy = old.policy /\ new.delay = old.delay
        /\ Failing => new.pc = "judge" /\ new.reply = behavior.publishErr
                      /\ new.post = old.post
        /\ ~Failing => new.pc = "succeeded" /\ new.post = number
    BY <1>1 DEF Loop
  <2>4. UNCHANGED << behavior, saturates >> /\ sent' = sent + 1 /\ old.pc = "send"
    BY <1>4 DEF Publish
  <2>5. old.attempt <= sent
    BY <1>1, <2>4 DEF InOutage, Calls, Active
  <2>6. InOutage(t)'
    BY <1>1, <2>2, <2>3, <2>4, <2>5 DEF InOutage, Calls, Active, Failing
  <2>7. GivenUp(t)'
    BY <2>2, <2>3 DEF GivenUp
  <2>8. Delayed(t)'
    BY <1>1, <2>2, <2>3, <2>4, DelayKept
  <2>9. new.post = old.post \/ new.post = 0 \/ (new.post = sent' /\ sent' > sent)
    BY <1>1, <2>3, <2>4
  <2>10. UNCHANGED behavior /\ UNCHANGED saturates /\ sent' \in Nat /\ sent' >= sent
    BY <1>1, <2>4
  <2> HIDE DEF new
  <2>11. QED BY <2>2, <2>6, <2>7, <2>8, <2>9, <2>10, OthersKeep
<1>5. CASE GiveUp(t)
  <2> DEFINE new == [old EXCEPT !.pc = IF old.reply = "retryable" THEN "dead" ELSE "failed"]
  <2>1. new \in Loop /\ loop' = [loop EXCEPT ![t] = new] /\ loop'[t] = new
    BY <1>1, <1>5 DEF GiveUp, Loop, Active, Ended
  <2>2. /\ new.pc = (IF old.reply = "retryable" THEN "dead" ELSE "failed")
        /\ new.attempt = old.attempt
        /\ new.post = old.post /\ new.policy = old.policy /\ new.delay = old.delay
    BY <1>1 DEF Loop
  <2>3. /\ UNCHANGED << behavior, saturates, sent >> /\ old.pc = "judge"
        /\ old.reply # "retryable" \/ old.attempt >= old.policy.maxRetries
    BY <1>5 DEF GiveUp
  <2>4. /\ behavior.publishErr = old.reply /\ old.reply # "none"
        /\ old.reply \in FailureKinds \union {"none"}
        /\ \/ behavior.attemptsBeforeSuccess = 0
           \/ old.attempt + 1 <= behavior.attemptsBeforeSuccess
    BY <1>1, <2>3 DEF InOutage, Calls, Active, Loop
  <2>5. InOutage(t)'
    <3>1. loop'[t].pc \in {"dead", "failed"}
      BY <2>1, <2>2
    <3>2. loop'[t].pc \notin Active /\ loop'[t].pc # "judge" /\ loop'[t].pc # "idle"
      BY <3>1 DEF Active
    <3>3. QED BY <3>2 DEF InOutage
  <2>6. GivenUp(t)'
    BY <1>1, <2>1, <2>2, <2>3, <2>4 DEF GivenUp, FailureKinds
  <2>7. Delayed(t)'
    BY <1>1, <2>1, <2>2, <2>3, DelayKept
  <2>8. UNCHANGED behavior /\ UNCHANGED saturates /\ sent' \in Nat /\ sent' >= sent
    BY <1>1, <2>3
  <2> HIDE DEF new
  <2>9. QED BY <2>1, <2>2, <2>5, <2>6, <2>7, <2>8, OthersKeep
<1>6. CASE Retry(t)
  <2>1. PICK delay \in CalculateBackoff(old.policy, old.attempt) :
          loop' = [loop EXCEPT ![t].pc = "prepare", ![t].attempt = @ + 1,
                               ![t].delay = delay]
    BY <1>6 DEF Retry
  <2> DEFINE new == [old EXCEPT !.pc = "prepare", !.attempt = @ + 1, !.delay = delay]
  <2>2. delay \in Durations
    BY <2>1, BackoffType
  <2>3. new \in Loop /\ loop' = [loop EXCEPT ![t] = new] /\ loop'[t] = new
    BY <1>1, <2>1, <2>2 DEF Loop, Active
  <2>4. /\ new.pc = "prepare" /\ new.attempt = old.attempt + 1 /\ new.post = old.post
        /\ new.policy = old.policy /\ new.delay = delay
    BY <1>1 DEF Loop
  <2>5. UNCHANGED << behavior, saturates, sent >> /\ old.pc = "judge"
    BY <1>6 DEF Retry
  <2>6. InOutage(t)'
    BY <1>1, <2>3, <2>4, <2>5 DEF InOutage, Calls, Active
  <2>7. GivenUp(t)'
    BY <2>3, <2>4 DEF GivenUp
  <2>8. Delayed(t)'
    <3>1. loop'[t].attempt - 1 = old.attempt
      BY <1>1, <2>3, <2>4
    <3>2. loop'[t].delay = delay /\ loop'[t].policy = old.policy
      BY <2>3, <2>4
    <3>3. delay \in CalculateBackoff(old.policy, loop'[t].attempt - 1)
      BY <2>1, <3>1
    <3>4. UNCHANGED saturates
      BY <2>5
    <3> HIDE DEF new
    <3>5. QED BY <3>2, <3>3, <3>4 DEF Delayed, CalculateBackoff, ToDuration
  <2>9. UNCHANGED behavior /\ UNCHANGED saturates /\ sent' \in Nat /\ sent' >= sent
    BY <1>1, <2>5
  <2> HIDE DEF new
  <2>10. QED BY <2>3, <2>4, <2>6, <2>7, <2>8, <2>9, OthersKeep
<1>7. QED BY <1>2, <1>3, <1>4, <1>5, <1>6 DEF Step

LEMMA RetryReset ==
  ASSUME RetryInvariant, Reset
  PROVE  RetryInvariant'
<1>1. ASSUME NEW t \in Tasks
      PROVE  NewLoop(loop[t].policy) \in Loop
  BY <1>1, RetryAssumption DEF RetryInvariant, RetryTypeOK, NewLoop, Loop, Durations
<1>2. RetryTypeOK'
  BY <1>1 DEF Reset, RetryInvariant, RetryTypeOK
<1>3. QED
  BY <1>2 DEF Reset, RetryInvariant, NewLoop, InOutage, GivenUp, Delayed, Numbered, Active

LEMMA RetryIsInductive == RetrySpec => []RetryInvariant
<1>1. RetryInvariant /\ UNCHANGED vars => RetryInvariant'
  BY DEF vars, RetryInvariant, RetryTypeOK, InOutage, GivenUp, Delayed, Numbered,
     Calls, CalculateBackoff, ToDuration
<1>2. RetryInvariant /\ [RetryNext]_vars => RetryInvariant'
  BY <1>1, RetryStep, RetryReset DEF RetryNext
<1>3. QED BY <1>2, RetryStart, PTL DEF RetrySpec

-------------------------------------------------------------------------------
(* Theorems.                                                                *)

\* Every variable keeps its type: whatever the policy computes is converted to a
\* duration.
THEOREM RetryTypeCorrect == RetrySpec => []RetryTypeOK
<1>1. RetryInvariant => RetryTypeOK
  BY DEF RetryInvariant
<1>2. QED BY <1>1, RetryIsInductive, PTL

\* However many tasks share an outage, none gives up over one that is shorter than
\* its own retries (service.go:258-360).
THEOREM ShortOutagesAreSurvived == RetrySpec => []GivesUpOnlyOnLongOutage
<1>1. RetryInvariant => GivesUpOnlyOnLongOutage
  BY DEF RetryInvariant, GivesUpOnlyOnLongOutage, GivenUp
<1>2. QED BY <1>1, RetryIsInductive, PTL

\* The numbered posts of any number of tasks differ (mock.go:143-175).
THEOREM PostsAreDistinct == RetrySpec => []PostsDiffer
<1>1. RetryInvariant => PostsDiffer
  BY DEF RetryInvariant, PostsDiffer, Numbered
<1>2. QED BY <1>1, RetryIsInductive, PTL

\* For every width and every valid policy, a delay whose numbers fit is the one
\* of the formula, with at most a quarter of jitter (policy.go:61-79).
THEOREM DelaysFollowTheFormula == RetrySpec => []BackoffMatchesFormula
<1>1. RetryInvariant => BackoffMatchesFormula
  <2> SUFFICES ASSUME RetryInvariant, NEW t \in Tasks, loop[t].attempt - 1 >= 0,
                      Fits(loop[t].policy, loop[t].attempt - 1)
               PROVE  /\ loop[t].delay >= Formula(loop[t].policy, loop[t].attempt - 1)
                      /\ 4 * loop[t].delay <= 5 * Formula(loop[t].policy, loop[t].attempt - 1)
    BY DEF BackoffMatchesFormula
  <2>1. loop[t].policy \in Policies /\ loop[t].attempt \in Nat
    BY DEF RetryInvariant, RetryTypeOK, Loop
  <2>2. loop[t].attempt - 1 \in Nat /\ loop[t].attempt > 0
    BY <2>1
  <2>3. loop[t].delay \in CalculateBackoff(loop[t].policy, loop[t].attempt - 1)
    BY <2>2 DEF RetryInvariant, Delayed
  <2>4. QED BY <2>1, <2>2, <2>3, BackoffFollowsFormula
<1>2. QED BY <1>1, RetryIsInductive, PTL

-------------------------------------------------------------------------------
(* Progress.                                                                *)

\* How a step of a task moves it through the loop.
Moves(t) ==
  \/ /\ loop'[t].attempt = loop[t].attempt
     /\ \/ loop[t].pc = "idle" /\ loop'[t].pc = "prepare"
        \/ loop[t].pc = "prepare" /\ loop'[t].pc \in {"failed", "send"}
        \/ loop[t].pc = "send" /\ loop'[t].pc \in {"judge", "succeeded"}
        \/ loop[t].pc = "judge" /\ loop'[t].pc \in {"dead", "failed"}
  \/ /\ loop[t].pc = "judge" /\ loop'[t].pc = "prepare"
     /\ loop[t].attempt < loop[t].policy.maxRetries
     /\ loop'[t].attempt = loop[t].attempt + 1
     /\ loop'[t].delay \in CalculateBackoff(loop[t].policy, loop[t].attempt)

LEMMA StepMoves ==
  ASSUME RetryTypeOK, NEW t \in Tasks, Begin(t) \/ Step(t)
  PROVE  /\ \A s \in Tasks \ {t} : loop'[s] = loop[s]
         /\ loop'[t].policy = loop[t].policy
         /\ Moves(t)
<1>1. loop \in [Tasks -> Loop] /\ loop[t] \in Loop
  BY DEF RetryTypeOK
<1>2. CASE Begin(t)
  BY <1>1, <1>2 DEF Begin, Loop, Moves
<1>3. CASE Prepare(t)
  BY <1>1, <1>3 DEF Prepare, Loop, Moves
<1>4. CASE Publish(t)
  BY <1>1, <1>4 DEF Publish, Loop, Moves
<1>5. CASE GiveUp(t)
  BY <1>1, <1>5 DEF GiveUp, Loop, Moves
<1>6. CASE Retry(t)
  <2>1. PICK delay \in CalculateBackoff(loop[t].policy, loop[t].attempt) :
          loop' = [loop EXCEPT ![t].pc = "prepare", ![t].attempt = @ + 1,
                               ![t].delay = delay]
    BY <1>6 DEF Retry
  <2>2. /\ \A s \in Tasks \ {t} : loop'[s] = loop[s]
        /\ loop'[t].policy = loop[t].policy /\ loop'[t].pc = "prepare"
        /\ loop'[t].attempt = loop[t].attempt + 1 /\ loop'[t].delay = delay
    BY <1>1, <2>1 DEF Loop
  <2>3. QED BY <1>6, <2>1, <2>2 DEF Retry, Moves
<1>7. QED BY <1>2, <1>3, <1>4, <1>5, <1>6 DEF Step

\* No task makes more retries than its policy allows.
AttemptsCounted == \A t \in Tasks : loop[t].attempt <= loop[t].policy.maxRetries

LEMMA AttemptsAreCounted == RetrySpec => []AttemptsCounted
<1>1. RetryInit => AttemptsCounted
  BY RetryAssumption DEF RetryInit, NewLoop, AttemptsCounted, RetryPolicy
<1>2. RetryTypeOK /\ AttemptsCounted /\ [RetryNext]_vars => AttemptsCounted'
  <2> SUFFICES ASSUME RetryTypeOK, AttemptsCounted, [RetryNext]_vars
               PROVE  AttemptsCounted'
    OBVIOUS
  <2>1. \A t \in Tasks : /\ loop[t].policy \in Policies /\ loop[t].attempt \in Nat
                         /\ loop[t].policy.maxRetries \in Nat
    BY RetryAssumption DEF RetryTypeOK, Loop, RetryPolicy
  <2>2. CASE Reset
    BY <2>1, <2>2 DEF Reset, NewLoop, AttemptsCounted
  <2>3. ASSUME NEW t \in Tasks, Begin(t) \/ Step(t) PROVE AttemptsCounted'
    <3>1. /\ \A s \in Tasks \ {t} : loop'[s] = loop[s]
          /\ loop'[t].policy = loop[t].policy
          /\ \/ loop'[t].attempt = loop[t].attempt
             \/ /\ loop[t].attempt < loop[t].policy.maxRetries
                /\ loop'[t].attempt = loop[t].attempt + 1
      BY <2>3, StepMoves DEF Moves
    <3>2. QED BY <2>1, <3>1 DEF AttemptsCounted
  <2>4. CASE UNCHANGED vars
    BY <2>4 DEF vars, AttemptsCounted
  <2>5. QED BY <2>2, <2>3, <2>4 DEF RetryNext
<1>3. QED BY <1>1, <1>2, RetryTypeCorrect, PTL DEF RetrySpec

\* For any policies and however long the outage, the steps a running task has left
\* are a number that each of its steps lowers and no other step changes: the part of
\* LoopsEnd that does not depend on fairness (service.go:258-360).
THEOREM LoopsAreFinite == RetrySpec => []StepsAreCounted /\ LoopsAdvance
<1>1. RetryTypeOK /\ AttemptsCounted => StepsAreCounted
  <2> SUFFICES ASSUME RetryTypeOK, AttemptsCounted, NEW t \in Tasks
               PROVE  StepsLeft(t) \in 0 .. 3 * loop[t].policy.maxRetries + 3
    BY DEF StepsAreCounted
  <2>1. /\ loop[t].attempt \in Nat /\ loop[t].policy.maxRetries \in Nat
        /\ loop[t].attempt <= loop[t].policy.maxRetries
    BY RetryAssumption DEF RetryTypeOK, Loop, RetryPolicy, AttemptsCounted
  <2>2. QED BY <2>1 DEF StepsLeft, Active
<1>2. RetryTypeOK /\ AttemptsCounted /\ [RetryNext]_vars =>
        \A t \in Tasks :
          loop[t].pc \in Active /\ loop'[t] # loop[t] => StepsLeft(t)' < StepsLeft(t)
  <2> SUFFICES ASSUME RetryTypeOK, AttemptsCounted, [RetryNext]_vars, NEW t \in Tasks,
                      loop[t].pc \in Active, loop'[t] # loop[t]
               PROVE  StepsLeft(t)' < StepsLeft(t)
    OBVIOUS
  <2>1. /\ loop[t].attempt \in Nat /\ loop[t].policy.maxRetries \in Nat
        /\ loop[t].attempt <= loop[t].policy.maxRetries
    BY RetryAssumption DEF RetryTypeOK, Loop, RetryPolicy, AttemptsCounted
  <2>2. ~Reset
    BY DEF Reset, Active, Ended
  <2>3. ~UNCHANGED vars
    BY DEF vars
  <2>4. PICK s \in Tasks : Begin(s) \/ Step(s)
    BY <2>2, <2>3 DEF RetryNext
  <2>5. s = t
    BY <2>4, StepMoves
  <2>6. loop'[t].policy = loop[t].policy /\ Moves(t)
    BY <2>4, <2>5, StepMoves
  <2>7. QED BY <2>1, <2>6 DEF Moves, StepsLeft, Active
<1>3. QED
  BY <1>1, <1>2, RetryTypeCorrect, AttemptsAreCounted, PTL DEF RetrySpec, LoopsAdvance

\* Exponential backoff for any valid policy: whatever is capped, the delays of a
\* task without jitter never get shorter while the numbers fit (policy.go:17, :61-79).
THEOREM BackoffGrows == RetrySpec => DelaysGrow
<1>1. RetryInvariant /\ [RetryNext]_vars =>
        \A t \in Tasks :
          LET p == loop[t].policy
              n == loop[t].attempt
          IN  n > 0 /\ loop'[t].attempt = n + 1 /\ ~p.jitter /\ Fits(p, n) =>
                loop'[t].delay >= loop[t].delay
  <2> SUFFICES ASSUME RetryInvariant, [RetryNext]_vars, NEW t \in Tasks,
                      loop[t].attempt > 0, loop'[t].attempt = loop[t].attempt + 1,
                      ~loop[t].policy.jitter, Fits(loop[t].policy, loop[t].attempt)
               PROVE  loop'[t].delay >= loop[t].delay
    OBVIOUS
  <2> DEFINE p == loop[t].policy
             n == loop[t].attempt
  <2>1. p \in Policies /\ n \in Nat /\ n - 1 \in Nat /\ (n - 1) + 1 = n
    BY DEF RetryInvariant, RetryTypeOK, Loop
  <2>2. ~Reset /\ ~UNCHANGED vars
    <3>1. loop'[t].attempt # 0 /\ loop'[t].attempt # loop[t].attempt
      BY <2>1
    <3>2. QED BY <3>1 DEF Reset, NewLoop, vars
  <2>3. PICK s \in Tasks : Begin(s) \/ Step(s)
    BY <2>2 DEF RetryNext
  <2>4. RetryTypeOK
    BY DEF RetryInvariant
  <2>5. s = t
    BY <2>1, <2>3, <2>4, StepMoves
  <2>6. Moves(t)
    BY <2>3, <2>4, <2>5, StepMoves
  <2>7. loop'[t].delay \in CalculateBackoff(p, n)
    BY <2>1, <2>6 DEF Moves
  <2>8. loop[t].delay \in CalculateBackoff(p, n - 1)
    BY DEF RetryInvariant, Delayed
  <2>9. Fits(p, n - 1) /\ Formula(p, n - 1) <= Formula(p, n)
    BY <2>1, FormulaGrows
  <2> HIDE DEF p, n
  <2>10. loop'[t].delay = Formula(p, n) /\ loop[t].delay = Formula(p, n - 1)
    BY <2>1, <2>7, <2>8, <2>9, UnjitteredDelay DEF p, n
  <2>11. QED BY <2>9, <2>10
<1>2. QED BY <1>1, RetryIsInductive, PTL DEF RetrySpec, DelaysGrow

\* Where an overflow is not clamped, every delay whose product passes the widest
\* duration is the smallest duration there is, through cap and jitter (policy.go:66-79);
\* and a policy that doubles gets there, at whatever width.
THEOREM LongBackoffsUnderflow ==
  /\ RetrySpec => []BackoffUnderflows
  /\ \A p \in Policies, n \in Nat :
       p.multiplier >= 2 /\ p.initialDelay >= 1 /\ n >= MaxDuration =>
         p.initialDelay * Power(p.multiplier, n) > MaxDuration
<1>1. RetryInvariant => BackoffUnderflows
  <2> SUFFICES ASSUME RetryInvariant, NEW t \in Tasks, loop[t].attempt - 1 >= 0,
                      ~saturates,
                      loop[t].policy.initialDelay
                        * Power(loop[t].policy.multiplier, loop[t].attempt - 1)
                        > MaxDuration
               PROVE  loop[t].delay = -MaxDuration - 1
    BY DEF BackoffUnderflows
  <2>1. /\ loop[t].policy \in Policies /\ loop[t].attempt - 1 \in Nat
        /\ loop[t].attempt > 0
    BY DEF RetryInvariant, RetryTypeOK, Loop
  <2>2. loop[t].delay \in CalculateBackoff(loop[t].policy, loop[t].attempt - 1)
    BY <2>1 DEF RetryInvariant, Delayed
  <2>3. QED BY <2>1, <2>2, LongDelay
<1>2. RetrySpec => []BackoffUnderflows
  BY <1>1, RetryIsInductive, PTL
<1>3. ASSUME NEW p \in Policies, NEW n \in Nat, p.multiplier >= 2,
             p.initialDelay >= 1, n >= MaxDuration
      PROVE  p.initialDelay * Power(p.multiplier, n) > MaxDuration
  <2> DEFINE power == Power(p.multiplier, n)
  <2>1. /\ p.initialDelay \in Nat /\ p.multiplier \in Nat /\ p.multiplier >= 1
        /\ MaxDuration \in Nat
    BY RetryAssumption DEF RetryPolicy, Valid
  <2>2. power \in Nat /\ power > n
    BY <1>3, <2>1, PowersGrow
  <2> HIDE DEF power
  <2>3. p.initialDelay * power >= power
    BY <1>3, <2>1, <2>2
  <2>4. p.initialDelay * power \in Nat
    BY <2>1, <2>2
  <2>5. QED BY <1>3, <2>1, <2>2, <2>3, <2>4 DEF power
<1>4. QED BY <1>2, <1>3

===============================================================================
