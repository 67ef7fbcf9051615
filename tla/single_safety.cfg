CONSTANTS
  Msgs = {m1, m2}
  Copies = {c1, c2}
  Workers = {w1, w2}
  Callback = cb
  Undecodable = {}
  Malformed = {}
  Poison = {m2}
  MaxDeliver = 2
  ExpiryCap = 2
  HostCancels = TRUE
  MaxRestarts = 1
  Healthy = {}
SPECIFICATION Spec
INVARIANTS
  TypeOK
  DuplicatesNeedExpiry
  NoSendOnClosedJobs
  ConnectionOutlivesWork
  AttemptsBurnOnlyByExpiry
PROPERTY AtLeastOnceDelivery
SYMMETRY Symmetry
CHECK_DEADLOCK FALSE
