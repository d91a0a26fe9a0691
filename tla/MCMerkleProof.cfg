SPECIFICATION TrieSpec
CONSTANTS
    None = None
    \* the DAG store
    GC_DEPTH = 1  MAX_SUSPENDED = 3  MAX_NEXT_EPOCH_BUFFER = 1
    GenesisEpoch = 1  LastEpoch = 2
    ValidatorSet <- MCValidatorSet  DagBlock <- MCDagBlock
    \* epochs, slashing and rewards
    GenesisValidators <- MCGenesis
    EPOCH_DURATION_SECONDS = 2  UnbondAmount = 3
    MaxHeight = 3  MaxEpoch = 2  MaxEvents = 2
    MAX_FRACTION_BPS = 10
    DOUBLE_SIGN_SLASH_BPS = 5  DOWNTIME_SLASH_BPS = 1  SHARE_WITHHOLDING_SLASH_BPS = 3
    EVIDENCE_MAX_AGE_SECONDS = 2
    DOWNTIME_JAIL_DURATION_SECONDS = 2  SHARE_WITHHOLDING_JAIL_DURATION_SECONDS = 2
    SIGNED_BLOCKS_WINDOW = 2  MAX_MISSED_BLOCKS = 1
    EPOCHS_PER_YEAR = 1  INFLATION_SCHEDULE_BPS <- MCSchedule
    DROPS_PER_DRIP = 2  MinStake = 3
    \* certificates, light client, fees, reputation
    Vset <- MCVset  Self = 1  Outsider = 9  MaxCommits = 3
    TrueSets <- MCTrueSets  Byzantine = {4}  Proofs <- MCProofs
    MIN_BASE_FEE_DROP = 4  GasLimits = {1, 5, 8}  InitialFees = {0, 4, 9, 24}  MaxFee = 40
    Committees <- MCCommittees  Authors = {1, 2, 3, 4, 5}  LEADER_OFFSET = 0  MaxScore = 2
    \* execution
    NoValue = NoValue
    EMA_DIVISOR = 2  MAX_SEEN_TARGETS = 1  ANOMALY_NOVEL_TARGET_HIGH_VALUE_PCT = 50
    Agents <- MCAgents  Accounts <- MCAccounts  Workloads <- MCWorkloads
    Keys = {"x", "y"}  Values = {0, 2}  Targets = {"user", "bank", "shop"}
    Schedule <- MCGasSchedule  FORWARD_DIVISOR = 4  MAX_CALL_DEPTH = 2
    MAX_CONTRACT_WASM_SIZE = 2  MAX_SUPPORTED_HOST_ABI = 1
    GenesisWorld <- MCWorld  AddressFromDeployer <- MCAddress  Registry = "registry"
    MaxCallEpoch = 2
    \* storage
    Nibbles = {0, 1}  TrieKeys <- MCKeys  TrieValues = {1, 2}  MaxInserts = 3
    Heights = {1, 2, 3}  max_snapshots = 2  MaxCrashes = 2
    Empty = Empty  MaxBlocks = 2  MaxAborts = 1
    GenesisAccounts <- MCGenesisAccounts  BlockWrites <- MCBlockWrites  ForeignRoots <- MCForeignRoots
INVARIANT ProofsSound
CHECK_DEADLOCK FALSE
