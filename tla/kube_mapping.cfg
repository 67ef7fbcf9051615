CONSTANTS
  Resources = {"link", "tenant"}
  Calls = {c1, c2}
  Mappings <- Chain
  Lists <- AllLists
  Metadata <- Clients
  Keys <- ChainKeys
  Malformed <- Unparsable
  TTLs = {0, 2}
  Capacity = 1
  LookupTime = 1
  MaxTime = 3
  MaxChanges = 1
SPECIFICATION ChainSpec
INVARIANTS
  StaleAtMostTTL
  RefusedOnFreshLookup
  ForwardedHeadersConsistent
  ManagerAccounted
SYMMETRY Symmetry
CHECK_DEADLOCK FALSE
