\* One document of two chunks, two processes, two attempts and one retry.
SPECIFICATION FairExtraction
CONSTANTS
  Workers = {w1, w2}
  Runs = {r1}
  IdOf <- MCDistinctIds
  MaxAttempts = 2
  RetryKeys = {k1}
  NoOwner = NoOwner
  NoClaim = NoClaim
  ChunkCount = 2
  Responses = {p1}
  NoResponse = NoResponse
  NoResult = NoResult
  NoTask = NoTask
INVARIANTS
  ExtractionTypeOK
  TraceStands
PROPERTIES
  ResultIsFinal
  ImplementsQueue
\* The queue drains: the run settled, its retry key used.
CHECK_DEADLOCK FALSE
