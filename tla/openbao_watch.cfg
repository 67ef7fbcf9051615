CONSTANTS
  endpoint = endpoint
  authorization = authorization
  tenant = tenant
  backend = backend
  Refs = {endpoint, authorization, tenant}
  Secrets = {backend}
  SecretOf <- MCSecretOf
  Slots = {1, 2, 3}
  MaxVersion = 2
SPECIFICATION Spec
INVARIANTS
  WatchesOfPresentValues
PROPERTIES
  EveryChangeReloads
  CloseEnds
CHECK_DEADLOCK FALSE
