---------------------------- MODULE IdempotencyKeys ----------------------------
(***************************************************************************)
(* The places where PostHub keeps an idempotency key: the tables behind    *)
(* storage.IdempotencyStore, which remember for whom a key was claimed and *)
(* are cleaned up, and the map of queue.InMemoryIdempotencyGuard, which    *)
(* does neither but can release a key.                                     *)
(*                                                                         *)
(* Every method holds the mutex of its table and is one step.  What a      *)
(* client does until it comes back rests on what it was granted: lease is  *)
(* that knowledge, while the others and the clock move on.  A call that is *)
(* refused changes nothing and is no step.                                 *)
(***************************************************************************)
EXTENDS Naturals

CONSTANTS
  Clients,     \* callers; also the entities of the keys they claim
  StoreKeys,   \* keys with their scope, in the table of a store
  GuardKeys,   \* keys in the map of a guard
  Lifetimes,   \* TTLs a caller may ask for
  MaxTime      \* bound: instants of the clock

ASSUME KeyAssumption ==
  /\ Lifetimes \subseteq Nat
  /\ MaxTime \in Nat
  /\ "none" \notin Clients
  /\ StoreKeys \intersect GuardKeys = {}

VARIABLES
  entity,   \* key -> who it was granted to, "none" without a record
  expires,  \* key -> instant its record expires
  lease,    \* client -> key -> instant up to which it believes to hold it
  now       \* the clock

vars == << entity, expires, lease, now >>

Keys == StoreKeys \union GuardKeys

KeyTypeOK ==
  /\ entity \in [Keys -> Clients \union {"none"}]
  /\ expires \in [Keys -> Nat]
  /\ lease \in [Clients -> [Keys -> Nat]]
  /\ now \in Nat

KeyInit ==
  /\ entity = [k \in Keys |-> "none"]
  /\ expires = [k \in Keys |-> 0]
  /\ lease = [c \in Clients |-> [k \in Keys |-> 0]]
  /\ now = 0

\* The check of Claim and of Acquire: the record is there and not expired.
Held(k) == entity[k] # "none" /\ now < expires[k]

\* Get finds the key for one instant longer than Claim refuses it.
Found(k) == entity[k] # "none" /\ now <= expires[k]

-------------------------------------------------------------------------------
\* Variant: the lifetime is taken off instead of added.
GrantInThePast(c, k, ttl) ==
  /\ ~Held(k)
  /\ UNCHANGED now
  /\ entity' = [entity EXCEPT ![k] = c]
  /\ expires' = [expires EXCEPT ![k] = now - ttl]
  /\ lease' = [lease EXCEPT ![c][k] = now - ttl]

\* Variant: a record counts as expired one instant early.
GrantEarly(c, k, ttl) ==
  /\ entity[k] = "none" \/ now + 1 >= expires[k]
  /\ UNCHANGED now
  /\ entity' = [entity EXCEPT ![k] = c]
  /\ expires' = [expires EXCEPT ![k] = now + ttl]
  /\ lease' = [lease EXCEPT ![c][k] = now + ttl]

\* The clock is read once for the check and again for the expiry.
Grant(c, k, ttl) ==
  /\ ~Held(k)
  /\ now' \in { now, now + 1 } \intersect 0 .. MaxTime
  /\ entity' = [entity EXCEPT ![k] = c]
  /\ expires' = [expires EXCEPT ![k] = now' + ttl]
  /\ lease' = [lease EXCEPT ![c][k] = now' + ttl]

Claim(c, k, ttl) == k \in StoreKeys /\ Grant(c, k, ttl)

Acquire(c, k, ttl) == k \in GuardKeys /\ Grant(c, k, ttl)

\* A cleanup removes what Get no longer finds.
Cleanup ==
  /\ \E k \in StoreKeys : entity[k] # "none" /\ ~Found(k)
  /\ entity' = [k \in Keys |->
       IF k \in StoreKeys /\ ~Found(k) THEN "none" ELSE entity[k]]
  /\ UNCHANGED << expires, lease, now >>

\* Variant: a client that took too long releases what is no longer its own.
ReleaseLate(c, k) ==
  /\ k \in GuardKeys
  /\ lease[c][k] > 0
  /\ entity' = [entity EXCEPT ![k] = "none"]
  /\ lease' = [lease EXCEPT ![c][k] = 0]
  /\ UNCHANGED << expires, now >>

\* The record is deleted whoever asks: only the caller can know that the key is
\* still its own.  Nothing in the program calls Release yet; a caller that keeps
\* to its lease is what the guard needs.
Release(c, k) ==
  /\ k \in GuardKeys
  /\ now < lease[c][k]
  /\ entity' = [entity EXCEPT ![k] = "none"]
  /\ lease' = [lease EXCEPT ![c][k] = 0]
  /\ UNCHANGED << expires, now >>

Tick ==
  /\ now < MaxTime
  /\ now' = now + 1
  /\ UNCHANGED << entity, expires, lease >>

-------------------------------------------------------------------------------
Client(c) ==
  \E k \in Keys :
    \/ \E ttl \in Lifetimes : Claim(c, k, ttl) \/ Acquire(c, k, ttl)
    \/ Release(c, k)

KeyNext == Tick \/ Cleanup \/ \E c \in Clients : Client(c)

KeySpec == KeyInit /\ [][KeyNext]_vars

-------------------------------------------------------------------------------
(* Properties.                                                              *)

\* Until its time is up or it gives the key back, a client that was granted a key
\* is the one a Get names and everybody else is refused, through expiries,
\* cleanups, releases, grants of no lifetime and a clock that moves inside the
\* call (memory.go:413-463, idempotency.go:78-97).
LeaseIsHeld ==
  \A c \in Clients, k \in Keys :
    now < lease[c][k] => Held(k) /\ entity[k] = c

\* Who holds a key, for KeyLease: a record that has expired holds nothing.
Holder == [k \in Keys |-> IF Held(k) THEN entity[k] ELSE "none"]

Promise == INSTANCE KeyLease WITH Holders <- Clients, holder <- Holder

\* Records that expire silently and are replaced or cleaned up late still give
\* each key one holder at a time, with a free key in between (memory.go:420-431,
\* idempotency.go:82-86).
ImplementsLease == Promise!Spec

===============================================================================
