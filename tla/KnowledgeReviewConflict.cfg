\* Three claims, the third extracted when the group of the others may be closed.
SPECIFICATION Spec
CONSTANTS
  c1 = c1  c2 = c2  c3 = c3
  s1 = s1  e1 = e1  x1 = x1  x2 = x2
  va = va  vb = vb
  Claims = {c1, c2, c3}
  Scopes = {s1}
  Subjects = {e1}
  Extractions = {x1, x2}
  Values = {va, vb}
  ScopeOf <- MCScopeOf
  SubjectOf <- MCSubjectOf
  ValueOf <- MCDiffering
  ExtractionOf <- MCLateRun
  TargetOf <- MCTargetOf
  Exclusive = {s1}
  ReviewKeys = {r1, r2, r3}
  PackKeys = {}
  PublishKeys = {p1}
  NoValue = NoValue
  NoClaim = NoClaim
  NoPack = NoPack
  MaxRevision = 1
SYMMETRY KeySymmetry
INVARIANTS TypeOK PublishedOneValue
