CONSTANTS
  GC_DEPTH = 30
  MAX_SUSPENDED = 1000
  MAX_NEXT_EPOCH_BUFFER = 2
  GenesisEpoch = 1
  LastEpoch = 2
  MayOvertake <- MCOrders
  ValidatorSet <- MCValidatorSet
  Universes <- MCUniverses

SPECIFICATION Spec

INVARIANTS
  CommitsAreCausal
  ClockHasParents
  OrderInsensitive
  CommitsWholeDag

CHECK_DEADLOCK FALSE
