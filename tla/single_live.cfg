CONSTANTS
  Msgs = {m1, m2, m3}
  Copies = {c1}
  Workers = {w1}
  Callback = cb
  Undecodable = {m3}
  Malformed = {}
  Poison = {m2}
  MaxDeliver = 0
  ExpiryCap = 0
  HostCancels = FALSE
  MaxRestarts = 0
  Healthy = {m1}
SPECIFICATION LiveSpec
PROPERTIES
  HealthyMessagesSettled
  ShutdownTerminates
CHECK_DEADLOCK FALSE
