CONSTANTS
  GC_DEPTH = 30
  MAX_SUSPENDED = 1000
  MAX_NEXT_EPOCH_BUFFER = 200
  GenesisEpoch = 1
  LastEpoch = 1
  MayOvertake <- MCLateCertificate
  ValidatorSet <- MCFourValidators
  Universes <- MCSplit
SPECIFICATION Spec
INVARIANT OrderInsensitive
CHECK_DEADLOCK FALSE
