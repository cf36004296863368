SPECIFICATION StoreSpec
CONSTANTS
  Writers = {c1, c2}
  Readers = {r1}
  Contents = {1, 2, 3}
  Targets = {"draft", "ready"}
  Limits = {0, 1, 3}
  DefaultLimit = 1
  MaxLimit = 2
  MaxVersion = 2
INVARIANTS
  StoreTypeOK
  KnownVersionIsCurrent
  WalkMissesNothing
  WalkRepeatsNothing
SYMMETRY WriterSymmetry
CHECK_DEADLOCK FALSE
