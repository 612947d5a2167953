\* Two runs, two processes with a worker_id each, two attempts, one retry.
SPECIFICATION Spec
CONSTANTS
  w1 = w1
  w2 = w2
  Workers = {w1, w2}
  Runs = {r1, r2}
  IdOf <- MCDistinctIds
  MaxAttempts = 2
  RetryKeys = {k1}
  NoOwner = NoOwner
  NoClaim = NoClaim
INVARIANTS
  TypeOK
  RunMatchesJob
  AttentionIsEarned
  LeaseFencing
  BoundedWork
\* The queue drains: every run settled, every retry key used.
CHECK_DEADLOCK FALSE
