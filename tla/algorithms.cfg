\* Patterns of seven characters, payloads of three records, ten deliveries,
\* a counter that wraps at five, which is no multiple of three values.
CONSTANTS
  Chars = {"a", "r", "$", "{", ":", "}"}
  MaxLength = 7
  Sources <- MCSources
  PartValues <- MCPartValues
  Retries <- MCRetries
  SpecLists <- MCSpecLists
  Labelled <- MCLabelled
  Received <- MCReceived
  Selectors <- MCSelectors
  MaxRecords = 3
  MaxAttempts = 10
  MaxTaken = 5
  MaxDuration = 2000
  One = 8
  Floats <- MCFloats
  Even <- MCEven
  Width = 5
SPECIFICATION AlgorithmsSpec
INVARIANTS
  ParseReadsPattern
  PartsPartitionPayload
  OneCombinationPerPart
  DelaysGrowToMaximum
  NoRecordMislabelled
  TakenEvenly
CHECK_DEADLOCK FALSE
