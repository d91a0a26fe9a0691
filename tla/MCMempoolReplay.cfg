SPECIFICATION Spec
CONSTANTS
    s1 = s1  s2 = s2  s3 = s3  c1 = c1  None = None
    Txs <- ReplayTxs
    Senders <- MCSenders
    Contracts <- MCContracts
    Balance <- MCBalance
    Context <- MCContext
    Capacity = 2
    Handlers = {h1}
    MaxTxsPerBlock = 1
    MaxSeq = 4  MaxTime = 2  MaxBlocks = 2  MaxPending = 2
    BUCKET_CAPACITY = 4  REFILL = 1  TOKEN = 2
    DECAY_NUM = 1  DECAY_DEN = 2
    HIGH_DEMAND_THRESHOLD = 0  SCALE_FACTOR = 1  MAX_SURCHARGE_MULTIPLIER = 3
    MAX_NONCE_GAP = 1
    BUSY_THRESHOLD_PCT = 70  CRITICAL_THRESHOLD_PCT = 90  EMERGENCY_THRESHOLD_PCT = 100
    STAKE_UNIT = 10  MAX_STAKE_BONUS = 5
    BPS = 10  MIN_REPLACE_BUMP_BPS = 1
PROPERTY NoReplay
CHECK_DEADLOCK FALSE
