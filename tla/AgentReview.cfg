\* Two runs and two processes review three claims in batches of two.
SPECIFICATION FairSpec
CONSTANTS
  Candidates <- MCCandidates
  FactOf <- MCFactOf
  Opinions <- MCOpinions
  BatchSize = 2
  PackLimit = 1
  Runs = {k1, k2}
  Workers = {w1, w2}
  NoReview = NoReview
  NoTask = NoTask
INVARIANTS
  TypeOK
  EachClaimOnce
  ApprovalsAreSound
  PackKeepsTheBest
  SuccessHasReview
PROPERTIES
  FirstReviewStands
  ExecutionsEnd
\* Every run may be settled.
CHECK_DEADLOCK FALSE
