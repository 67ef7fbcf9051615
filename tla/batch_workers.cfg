CONSTANTS
  m1 = m1
  m2 = m2
  m3 = m3
  m4 = m4
  s1 = s1
  s2 = s2
  Msgs = {m1, m3}
  Copies = {c1, c2}
  Workers = {w1, w2}
  BatchMax = 2
  Subjects = {s1, s2}
  SubjectOf <- MCSubjectOf
  Undecodable = {}
  Malformed = {}
  Poison = {}
  MaxDeliver = 0
  ExpiryCap = 2
  HostCancels = TRUE
  MaxRestarts = 1
  Healthy = {}
SPECIFICATION Spec
INVARIANTS
  TypeOK
  DuplicatesNeedExpiry
  ConnectionOutlivesWork
SYMMETRY Symmetry
CHECK_DEADLOCK FALSE
