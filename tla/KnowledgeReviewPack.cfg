\* A pack confirmed, aborted and repeated while a human reviews and edits, and
\* the entity is corrected and archived.
SPECIFICATION Spec
CONSTANTS
  c1 = c1  c2 = c2  c3 = c3
  s1 = s1  e1 = e1  x1 = x1  x2 = x2
  va = va  vb = vb
  Claims = {c1, c2}
  Scopes = {s1}
  Subjects = {e1}
  Extractions = {x1}
  Values = {va, vb}
  ScopeOf <- MCScopeOf
  SubjectOf <- MCSubjectOf
  ValueOf <- MCSame
  ExtractionOf <- MCOneRun
  TargetOf <- MCTargetOf
  Exclusive = {s1}
  ReviewKeys = {r1, r2}
  PackKeys = {k1}
  PublishKeys = {p1, p2}
  NoValue = NoValue
  NoClaim = NoClaim
  NoPack = NoPack
  MaxRevision = 2
SYMMETRY KeySymmetry
INVARIANTS AmbiguousLeftToHumans
PROPERTIES ContractSpec LaterSnapshotsAnswer
