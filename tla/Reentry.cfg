CONSTANTS
  k1 = k1
  k2 = k2
  k3 = k3
  pay = pay
  memo = memo
  RECENT_BLOCKHASHES = RECENT_BLOCKHASHES
  RENT = RENT
  ForeignAmounts = {}
  PROGRAM_ID = PROGRAM_ID
  SYSTEM_PROGRAM = SYSTEM_PROGRAM
  Owners <- TwoOwners
  Address <- ReentryAddress
  KeyLess <- NestedKeyLess
  DataLen <- ReentryDataLen
  Decode <- ReentryDecode
  Messages <- ReentryMessages
  MemberLists <- NestedMemberLists
  VaultIndexes = {0}
  SignerSets <- NestedSignerSets
  Prefundable = {}
  InitialLamports <- ReentryLamports
  MAX_MEMBERS = 3
  MAX_TX_ACCOUNT_KEYS = 9
  MAX_TX_INSTRUCTIONS = 2
  MAX_INSTRUCTION_ACCOUNTS = 9
  MAX_INSTRUCTION_DATA_LEN = 9
  MAX_COMBINED_ACCOUNTS = 9
  MAX_PROPOSAL_ACCOUNT_BYTES = 10240
  U64_MAX = 2
  MaxIxs = 1
  MaxDepth = 4
SPECIFICATION Spec
INVARIANTS
  RunsOnceInOrder
  CacheIsFresh
PROPERTIES
  ForwardUnlessRolledBack
