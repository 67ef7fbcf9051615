CONSTANTS
  m1 = m1
  m2 = m2
  Calls = {c1, c2}
  Subject <- NoSubject
  SubjectPattern <- HeaderPattern
  MaxStarts = 2
  MaxSends = 3
  Msgs = {m1, m2}
  Content <- TwoMessages
  Values <- MCValues
  Selector <- RoundRobin
  Width = 4
  MaxTries = 2
SPECIFICATION MCSpec
INVARIANTS
  RecordsOnOwnSubject
  PermanentNeverStored
  ConnectionsAccounted
  DuplicatesExplained
PROPERTY EndToEndDelivery
SYMMETRY Symmetry
CHECK_DEADLOCK FALSE
