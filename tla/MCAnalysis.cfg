CONSTANTS
  None = None
  PROTOCOL_MAX_FEE_BPS = 2500
  U16_MAX = 65535
  MaxRounds = 2
  MaxDepth = 3
  MaxSize = 3
  Skeletons <- MCSkeletons
  Pool <- MCPool
  Wraps <- MCWraps
  Bits32 = 3
  Bits64 = 4
  Fuel = 6
  Selector <- MCSelector
  Units <- MCUnits
  Phrases <- MCPhrases
  Slots <- MCSlots
  Values <- MCValues
  MaxStatements <- MCMaxStatements
SPECIFICATION Spec
INVARIANTS RunsWellFormed  HoldersProtected DelegationBounded  TypesSound CompiledFaithful
CHECK_DEADLOCK FALSE
