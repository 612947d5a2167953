\* One run through its whole life: three attempts a round, two retry keys,
\* with the default worker_id in both processes.
SPECIFICATION FairSpec
CONSTANTS
  w1 = w1
  w2 = w2
  Workers = {w1, w2}
  Runs = {r1}
  IdOf <- MCDefaultId
  MaxAttempts = 3
  RetryKeys = {k1, k2}
  NoOwner = NoOwner
  NoClaim = NoClaim
PROPERTIES
  ImplementsContract
  EveryRunSettles
\* The queue drains: every run settled, every retry key used.
CHECK_DEADLOCK FALSE
