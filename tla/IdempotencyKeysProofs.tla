------------------------- MODULE IdempotencyKeysProofs -------------------------
(***************************************************************************)
(* Theorems about IdempotencyKeys for any clients, keys and lifetimes.     *)
(***************************************************************************)
EXTENDS IdempotencyKeys, TLAPS

LEMMA SumIsNat == \A m, n \in Nat : m + n \in Nat
OBVIOUS

-------------------------------------------------------------------------------
(* Type correctness.                                                        *)

LEMMA GrantType ==
  ASSUME KeyTypeOK, NEW c \in Clients, NEW k \in Keys, NEW ttl \in Lifetimes,
         Grant(c, k, ttl)
  PROVE  KeyTypeOK' /\ now <= now'
<1>1. now \in Nat /\ ttl \in Nat /\ now' \in {now, now + 1}
  BY KeyAssumption DEF Grant, KeyTypeOK
<1>2. now' \in Nat /\ now <= now'
  BY <1>1
<1>3. now' + ttl \in Nat
  BY <1>1, <1>2, SumIsNat
<1>4. QED BY <1>2, <1>3 DEF Grant, KeyTypeOK

LEMMA KeyTypeStep ==
  ASSUME KeyTypeOK, [KeyNext]_vars
  PROVE  KeyTypeOK'
<1>1. CASE UNCHANGED vars \/ Tick \/ Cleanup
  BY <1>1 DEF vars, Tick, Cleanup, KeyTypeOK
<1>2. ASSUME NEW c \in Clients, Client(c)
      PROVE  KeyTypeOK'
  <2>1. PICK k \in Keys : \/ \E ttl \in Lifetimes : Claim(c, k, ttl) \/ Acquire(c, k, ttl)
                          \/ Release(c, k)
    BY <1>2 DEF Client
  <2>2. CASE Release(c, k)
    BY <2>2 DEF Release, KeyTypeOK
  <2>3. ASSUME NEW ttl \in Lifetimes, Claim(c, k, ttl) \/ Acquire(c, k, ttl)
        PROVE  KeyTypeOK'
    BY <2>3, GrantType DEF Claim, Acquire
  <2>4. QED BY <2>1, <2>2, <2>3
<1>3. QED BY <1>1, <1>2 DEF KeyNext

\* Every variable keeps its type: expiries and the clock stay naturals and a record
\* names one of the clients.
THEOREM KeyTypeCorrect == KeySpec => []KeyTypeOK
<1>1. KeyInit => KeyTypeOK
  BY DEF KeyInit, KeyTypeOK
<1>2. QED BY <1>1, KeyTypeStep, PTL DEF KeySpec

-------------------------------------------------------------------------------
(* Leases.                                                                  *)

\* The record of a key that a client believes to hold is the grant it was given.
LeaseIsRecord ==
  \A c \in Clients, k \in Keys :
    now < lease[c][k] => entity[k] = c /\ expires[k] = lease[c][k]

LEMMA GrantKeepsLeases ==
  ASSUME KeyTypeOK, LeaseIsRecord, NEW b \in Clients, NEW j \in Keys,
         NEW ttl \in Lifetimes, Grant(b, j, ttl)
  PROVE  LeaseIsRecord'
<1> SUFFICES ASSUME NEW c \in Clients, NEW k \in Keys, now' < lease'[c][k]
             PROVE  entity'[k] = c /\ expires'[k] = lease'[c][k]
  BY DEF LeaseIsRecord
<1>1. /\ c # "none" /\ lease[c][k] \in Nat /\ expires[k] \in Nat /\ now \in Nat
      /\ now' \in Nat /\ now <= now'
  BY KeyAssumption, GrantType DEF KeyTypeOK
<1>2. CASE b = c /\ j = k
  BY <1>2 DEF Grant, KeyTypeOK
<1>3. CASE b # c \/ j # k
  <2>1. lease'[c][k] = lease[c][k]
    BY <1>3 DEF Grant, KeyTypeOK
  <2>2. entity[k] = c /\ expires[k] = lease[c][k] /\ now < expires[k]
    BY <1>1, <2>1 DEF LeaseIsRecord
  <2>3. j # k
    BY <1>1, <2>2 DEF Grant, Held
  <2>4. QED BY <2>1, <2>2, <2>3 DEF Grant, KeyTypeOK
<1>4. QED BY <1>2, <1>3

LEMMA LeaseStep ==
  ASSUME KeyTypeOK, LeaseIsRecord, [KeyNext]_vars
  PROVE  LeaseIsRecord'
<1>1. CASE UNCHANGED vars
  BY <1>1 DEF vars, LeaseIsRecord
<1>2. CASE Tick
  <2>1. ASSUME NEW c \in Clients, NEW k \in Keys
        PROVE  now \in Nat /\ lease[c][k] \in Nat /\ now' = now + 1
    BY <1>2 DEF KeyTypeOK, Tick
  <2>2. QED BY <1>2, <2>1 DEF Tick, LeaseIsRecord
<1>3. CASE Cleanup
  <2>1. ASSUME NEW c \in Clients, NEW k \in Keys, now < lease[c][k]
        PROVE  entity'[k] = c
    <3>1. /\ c # "none" /\ now \in Nat /\ expires[k] \in Nat
          /\ entity[k] = c /\ now < expires[k]
      BY <2>1, KeyAssumption DEF KeyTypeOK, LeaseIsRecord
    <3>2. Found(k)
      BY <3>1 DEF Found
    <3>3. QED BY <1>3, <3>1, <3>2 DEF Cleanup
  <2>2. QED BY <1>3, <2>1 DEF Cleanup, LeaseIsRecord
<1>4. ASSUME NEW b \in Clients, NEW j \in Keys, Release(b, j)
      PROVE  LeaseIsRecord'
  <2> SUFFICES ASSUME NEW c \in Clients, NEW k \in Keys, now' < lease'[c][k]
               PROVE  entity'[k] = c /\ expires'[k] = lease'[c][k]
    BY DEF LeaseIsRecord
  <2>1. now \in Nat /\ now' = now /\ now < lease[b][j]
    BY <1>4 DEF Release, KeyTypeOK
  <2>2. entity[j] = b /\ ~(c = b /\ k = j)
    BY <1>4, <2>1 DEF LeaseIsRecord, Release, KeyTypeOK
  <2>3. lease'[c][k] = lease[c][k]
    BY <1>4, <2>2 DEF Release, KeyTypeOK
  <2>4. entity[k] = c /\ expires[k] = lease[c][k]
    BY <2>1, <2>3 DEF LeaseIsRecord
  <2>5. k # j
    BY <2>2, <2>4
  <2>6. QED BY <1>4, <2>3, <2>4, <2>5 DEF Release, KeyTypeOK
<1>5. QED
  BY <1>1, <1>2, <1>3, <1>4, GrantKeepsLeases DEF KeyNext, Client, Claim, Acquire

\* A grant excludes every other client until its time is up or it is given back,
\* for any clients, keys and lifetimes (memory.go:413-463, idempotency.go:78-97).
THEOREM LeaseIsExclusive == KeySpec => []LeaseIsHeld
<1>1. KeyInit => LeaseIsRecord
  BY DEF KeyInit, LeaseIsRecord
<1>2. KeyTypeOK /\ LeaseIsRecord => LeaseIsHeld
  BY KeyAssumption DEF LeaseIsRecord, LeaseIsHeld, Held
<1>3. QED BY <1>1, <1>2, LeaseStep, KeyTypeCorrect, PTL DEF KeySpec

-------------------------------------------------------------------------------
(* The promise.                                                             *)

\* What a record holds changes in two ways only: its lease ends, or a free key is
\* granted.
LEMMA LeasesEnd ==
  ASSUME \A k \in Keys : Holder'[k] \in {Holder[k], "none"}
  PROVE  Promise!Next
<1> DEFINE K == { k \in Keys : Holder'[k] = "none" }
<1>1. Holder' = [k \in Keys |-> IF k \in K THEN "none" ELSE Holder[k]]
  BY DEF Holder
<1>2. K \in SUBSET Keys
  OBVIOUS
<1>3. QED BY <1>1, <1>2 DEF Promise!Next, Promise!End, Promise!Without

LEMMA GrantIsPromised ==
  ASSUME KeyTypeOK, NEW c \in Clients, NEW j \in Keys, NEW ttl \in Lifetimes,
         Grant(c, j, ttl)
  PROVE  Promise!Next
<1>1. now \in Nat /\ now' \in Nat /\ now <= now'
  BY GrantType DEF KeyTypeOK
<1>2. ASSUME NEW k \in Keys, k # j
      PROVE  Holder'[k] \in {Holder[k], "none"}
  <2>1. entity'[k] = entity[k] /\ expires'[k] = expires[k] /\ expires[k] \in Nat
    BY <1>2 DEF Grant, KeyTypeOK
  <2>2. QED BY <1>1, <2>1 DEF Holder, Held
<1>3. Holder[j] = "none" /\ Holder'[j] \in {c, "none"}
  BY DEF Grant, Holder, Held, KeyTypeOK
<1>4. CASE Holder'[j] = "none"
  BY <1>2, <1>4, LeasesEnd
<1>5. CASE Holder'[j] = c
  <2> DEFINE K == { k \in Keys : Holder'[k] = "none" }
  <2>1. Holder' = [[k \in Keys |-> IF k \in K THEN "none" ELSE Holder[k]] EXCEPT ![j] = c]
    BY <1>2, <1>5 DEF Holder
  <2>2. Promise!Grant(c, j)
    BY <1>3, <2>1 DEF Promise!Grant, Promise!Without
  <2>3. QED BY <2>2 DEF Promise!Next
<1>6. QED BY <1>3, <1>4, <1>5

LEMMA StepIsPromised ==
  ASSUME KeyTypeOK, [KeyNext]_vars
  PROVE  [Promise!Next]_Holder
<1>1. CASE UNCHANGED vars
  BY <1>1 DEF vars, Holder, Held
<1>2. CASE Tick \/ Cleanup \/ \E c \in Clients, k \in Keys : Release(c, k)
  <2>1. ASSUME NEW k \in Keys
        PROVE  Holder'[k] \in {Holder[k], "none"}
    <3>1. now \in Nat /\ expires[k] \in Nat /\ expires'[k] = expires[k]
      BY <1>2 DEF Tick, Cleanup, Release, KeyTypeOK
    <3>2. now' \in Nat /\ now <= now'
      BY <1>2, <3>1 DEF Tick, Cleanup, Release
    <3>3. entity'[k] \in {entity[k], "none"}
      BY <1>2 DEF Tick, Cleanup, Release, KeyTypeOK
    <3>4. QED BY <3>1, <3>2, <3>3 DEF Holder, Held
  <2>2. QED BY <2>1, LeasesEnd
<1>3. ASSUME NEW c \in Clients, NEW k \in Keys, NEW ttl \in Lifetimes,
             Claim(c, k, ttl) \/ Acquire(c, k, ttl)
      PROVE  Promise!Next
  BY <1>3, GrantIsPromised DEF Claim, Acquire
<1>4. QED BY <1>1, <1>2, <1>3 DEF KeyNext, Client

\* Both kinds of table implement the lease, for any clients, keys and lifetimes: a
\* key is free between two holders, although records expire silently and are
\* replaced or removed late.
THEOREM KeysAreLeased == KeySpec => ImplementsLease
<1>1. KeyInit => Promise!Init
  BY DEF KeyInit, Promise!Init, Holder, Held
<1>2. QED
  BY <1>1, StepIsPromised, KeyTypeCorrect, PTL
  DEF KeySpec, ImplementsLease, Promise!Spec

===============================================================================
