\* Three decisions about two topics, and no script run beyond its creation.
SPECIFICATION Spec
CONSTANTS
  t1 = t1
  x1 = x1
  x2 = x2
  s1 = s1
  m1 = m1
  m2 = m2
  r1 = r1
  Tasks <- MCTasks
  Signals <- MCSignals
  Snapshots = {s1}
  FactsOf <- MCFactsOf
  Members <- MCMembers
  NoSnapshot = NoSnapshot
  MaxReviews = 3
  Runs = {r1}
  Deliverable <- MCTasks
  LongTitles = {}
  Drafts <- MCDrafts
  Budgets = {1}
  Thresholds = {100}
  NoRun = NoRun
  MaxVersions = 0
  MaxChecks = 0
  MaxDecisions = 0
  MaxExports = 0
INVARIANTS SelectionChangesByRejection
SYMMETRY Symmetry
