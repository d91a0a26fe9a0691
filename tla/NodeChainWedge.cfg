SPECIFICATION FairSpec

CONSTANTS
  Peers = {p1, p2}
  DEFAULT_MAX_RANGE = 2
  MaxPeerHeight = 3
  MaxCommits = 0
  MaxFailures = 0
  MaxLosses = 0
  MaxRestarts = 0
  MaxBacklog = 2

CHECK_DEADLOCK FALSE


PROPERTY
  CatchesUp
