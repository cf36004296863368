-------------------------------- MODULE KeyLease --------------------------------
(***************************************************************************)
(* What an idempotency key promises, without records, expiries or a clock: *)
(* one holder at a time, and no handing over: between two holders the key  *)
(* is free.  Any number of leases may end at one instant.                  *)
(***************************************************************************)
CONSTANTS Keys, Holders

VARIABLE holder   \* key -> who holds it, "none" while it is free

Init == holder = [k \in Keys |-> "none"]

\* The leases of the keys K are over.
Without(K) == [k \in Keys |-> IF k \in K THEN "none" ELSE holder[k]]

End == \E K \in SUBSET Keys : holder' = Without(K)

Grant(h, k) ==
  /\ holder[k] = "none"
  /\ \E K \in SUBSET Keys : holder' = [Without(K) EXCEPT ![k] = h]

Next == End \/ \E h \in Holders, k \in Keys : Grant(h, k)

Spec == Init /\ [][Next]_holder

===============================================================================
