\* Both processes keep the default worker_id: is a lost lease noticed?
SPECIFICATION Spec
CONSTANTS
  w1 = w1
  w2 = w2
  Workers = {w1, w2}
  Runs = {r1}
  IdOf <- MCDefaultId
  MaxAttempts = 2
  RetryKeys = {}
  NoOwner = NoOwner
  NoClaim = NoClaim
INVARIANTS
  LeaseFencing
\* The queue drains: every run settled, every retry key used.
CHECK_DEADLOCK FALSE
