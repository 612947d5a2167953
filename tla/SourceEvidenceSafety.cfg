SPECIFICATION Spec
SYMMETRY Symmetry
CONSTANTS
  overview = overview
  news = news
  c1 = c1
  Pages = {overview, news}
  Contents = {a, b}
  ImageOutcomes = {all}
  Candidates = {c1}
  PageOf <- NewsOnly
  Runs = {k1, k2}
  Workers = {w1, w2}
  NoCandidate = NoCandidate
  NoRequest = NoRequest
  NoEvidence = NoEvidence
  NoTask = NoTask
INVARIANTS
  TypeOK
  LineageIsChain
  BytesBeforeRows
  CandidateHasOneRun
  ImportedHasEvidence
  AnswerHoldsTheCapture
PROPERTIES
  EvidenceIsImmutable
