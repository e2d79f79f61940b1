CONSTANTS
  k1 = k1
  k2 = k2
  k3 = k3
  pay = pay
  memo = memo
  RECENT_BLOCKHASHES = RECENT_BLOCKHASHES
  RENT = RENT
  ForeignAmounts = {1}
  PROGRAM_ID = PROGRAM_ID
  SYSTEM_PROGRAM = SYSTEM_PROGRAM
  Owners <- TwoOwners
  Address <- CustodyAddress
  KeyLess <- CustodyKeyLess
  DataLen <- CustodyDataLen
  Decode <- CustodyDecode
  Messages <- CustodyMessages
  MemberLists <- CustodyMemberLists
  VaultIndexes = {0}
  SignerSets <- SequenceSignerSets
  Prefundable <- CustodyPrefundable
  InitialLamports <- CustodyLamports
  MAX_MEMBERS = 3
  MAX_TX_ACCOUNT_KEYS = 4
  MAX_TX_INSTRUCTIONS = 2
  MAX_INSTRUCTION_ACCOUNTS = 2
  MAX_INSTRUCTION_DATA_LEN = 12
  MAX_COMBINED_ACCOUNTS = 4
  MAX_PROPOSAL_ACCOUNT_BYTES = 10240
  U64_MAX = 2
  MaxIxs = 2
  MaxDepth = 1
SPECIFICATION Spec
INVARIANTS
  ThresholdConsent
  RunsOnceInOrder
  NoRecycledProposal
PROPERTIES
  ImplementsContract
  ForwardUnlessRolledBack
  StakesAreKept
