CONSTANTS
  Calls = {c1, c2}
  Payloads <- Batches
  Templates <- AllTemplates
  Extensions <- AllExtensions
  Headers <- TwoValues
  Values <- Texts
  Times <- Hours
  UUIDs <- TwoUUIDs
  MaxTime = 1
  MaxStarts = 2
  MaxSends = 2
SPECIFICATION MCSpec
INVARIANTS
  KeptWithUUID
  RetriesReplaceOwnObject
SYMMETRY Symmetry
CHECK_DEADLOCK FALSE
