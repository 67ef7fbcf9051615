CONSTANTS
  Msgs = {m1}
  Copies = {c1}
  Workers = {w1}
  Callback = cb
  Undecodable = {}
  Malformed = {}
  Poison = {}
  MaxDeliver = 0
  ExpiryCap = 1
  HostCancels = FALSE
  MaxRestarts = 0
  Healthy = {}
SPECIFICATION FairSpec
PROPERTY StartReturns
CHECK_DEADLOCK FALSE
