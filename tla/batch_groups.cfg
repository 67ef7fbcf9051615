CONSTANTS
  m1 = m1
  m2 = m2
  m3 = m3
  m4 = m4
  s1 = s1
  s2 = s2
  Msgs = {m1, m2, m3, m4}
  Copies = {c1}
  Workers = {w1}
  BatchMax = 3
  Subjects = {s1, s2}
  SubjectOf <- MCSubjectOf
  Undecodable = {}
  Malformed = {m4}
  Poison = {m2}
  MaxDeliver = 0
  ExpiryCap = 0
  HostCancels = FALSE
  MaxRestarts = 0
  Healthy = {}
SPECIFICATION Spec
INVARIANTS
  OneSubjectPerCall
  RefusalStaysInSubject
PROPERTIES
  AtLeastOnceDelivery
  StrandedOnlyAfterFailure
CHECK_DEADLOCK FALSE
