SPECIFICATION Spec

CONSTANTS
  Peers = {}
  DEFAULT_MAX_RANGE = 2
  MaxPeerHeight = 0
  MaxCommits = 2
  MaxFailures = 0
  MaxLosses = 0
  MaxRestarts = 1
  MaxBacklog = 2

CHECK_DEADLOCK FALSE

INVARIANT
  ChainLinked
