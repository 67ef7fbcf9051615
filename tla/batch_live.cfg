CONSTANTS
  m1 = m1
  m2 = m2
  m3 = m3
  m4 = m4
  s1 = s1
  s2 = s2
  Msgs = {m1, m3, m4}
  Copies = {c1}
  Workers = {w1}
  BatchMax = 2
  Subjects = {s1, s2}
  SubjectOf <- MCSubjectOf
  Undecodable = {m4}
  Malformed = {}
  Poison = {}
  MaxDeliver = 0
  ExpiryCap = 0
  HostCancels = FALSE
  MaxRestarts = 0
  Healthy = {m1, m3}
SPECIFICATION LiveSpec
PROPERTIES
  HealthyMessagesSettled
  ShutdownTerminates
CHECK_DEADLOCK FALSE
