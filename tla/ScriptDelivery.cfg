SPECIFICATION Spec
CONSTANTS
  t1 = t1
  x1 = x1
  x2 = x2
  s1 = s1
  m1 = m1
  m2 = m2
  r1 = r1
  Tasks <- MCTasks
  Signals <- MCSignals
  Snapshots = {s1}
  FactsOf <- MCFactsOf
  Members <- MCMembers
  NoSnapshot = NoSnapshot
  MaxReviews = 3
  Runs = {r1}
  Deliverable <- MCTasks
  LongTitles = {}
  Drafts <- MCDrafts
  Budgets = {1}
  Thresholds = {100}
  NoRun = NoRun
  MaxVersions = 5
  MaxChecks = 2
  MaxDecisions = 2
  MaxExports = 1
INVARIANTS TypeOK OneApprovedTopic RevisionsAnswerEdits ExportsAreGrounded VersionRetriesAnswered
SYMMETRY Symmetry
