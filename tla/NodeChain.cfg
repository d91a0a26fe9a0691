SPECIFICATION FairSpec

CONSTANTS
  Peers = {p1}
  DEFAULT_MAX_RANGE = 2
  MaxPeerHeight = 4
  MaxCommits = 3
  MaxFailures = 1
  MaxLosses = 1
  MaxRestarts = 1
  MaxBacklog = 2

CHECK_DEADLOCK FALSE

INVARIANTS
  ChainSound
  RequestsValid

PROPERTIES
  TipNeverRegresses
  CatchesUp
