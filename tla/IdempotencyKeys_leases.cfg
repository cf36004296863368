SPECIFICATION KeySpec
CONSTANTS
  Clients = {c1, c2, c3}
  StoreKeys = {k1}
  GuardKeys = {g1}
  Lifetimes = {0, 1, 2}
  MaxTime = 4
INVARIANTS
  KeyTypeOK
  
PROPERTIES
  ImplementsLease
CHECK_DEADLOCK FALSE
