SPECIFICATION Spec
CONSTANTS
  Requests = {r1, r2, r3}
  PoolSize = 2
  MaxChanges = 1
INVARIANTS TypeOK VerdictIsSound BlobsAreTemporary
PROPERTY EveryCallEnds
CHECK_DEADLOCK FALSE
