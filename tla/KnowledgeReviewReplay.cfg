\* A confirmation repeated with its key, after a human decided otherwise.
SPECIFICATION Spec
CONSTANTS
  c1 = c1  c2 = c2  c3 = c3
  s1 = s1  e1 = e1  x1 = x1  x2 = x2
  va = va  vb = vb
  Claims = {c1, c2}
  Scopes = {s1}
  Subjects = {e1}
  Extractions = {x1}
  Values = {va, vb}
  ScopeOf <- MCScopeOf
  SubjectOf <- MCSubjectOf
  ValueOf <- MCSame
  ExtractionOf <- MCOneRun
  TargetOf <- MCTargetOf
  Exclusive = {s1}
  ReviewKeys = {r1, r2}
  PackKeys = {k1}
  PublishKeys = {}
  NoValue = NoValue
  NoClaim = NoClaim
  NoPack = NoPack
  MaxRevision = 1
SYMMETRY KeySymmetry
PROPERTIES ReplayWritesNothing
