CONSTANTS
  m1 = m1
  m2 = m2
  a = a
  b = b
  x1 = x1
  x2 = x2
  x3 = x3
  Caller = {c1, c2}
  None = None
  Payer = Payer
  Members <- BothMembers
  Threshold = 1
  MemberLists <- MemberListsGiven
  TableLists <- TableListsGiven
  Creators = {m1}
  Requests <- RequestsMade
  Foreign <- ForeignMessage
  Indexes = {1}
  RecentSlots = {1}
  ALT_PROGRAM_ID = ALT_PROGRAM_ID
  IX_BUFFER_SIZE = 2000
  MAX_TABLE_ADDRESSES = 6
  MaxIndex = 2
  MaxInFlight = 2
  Address <- ClientAddress
  KeyLess <- ClientOrder
  DataLen <- ClientDataLen
  PROGRAM_ID = PROGRAM_ID
  SYSTEM_PROGRAM = SYSTEM_PROGRAM
  TOKEN_PROGRAM_ID = TOKEN_PROGRAM_ID
  TOKEN_2022_PROGRAM_ID = TOKEN_2022_PROGRAM_ID
  ATA_PROGRAM_ID = ATA_PROGRAM_ID
  COMPUTE_BUDGET_PROGRAM_ID = COMPUTE_BUDGET_PROGRAM_ID
  MEMO_PROGRAM_ID = MEMO_PROGRAM_ID
  RECENT_BLOCKHASHES = RECENT_BLOCKHASHES
  RENT = RENT
  BYTE = 6
  PACKET_DATA_SIZE = 1232
  MAX_MEMBERS = 10
  MAX_TX_ACCOUNT_KEYS = 5
  MAX_TX_INSTRUCTIONS = 16
  MAX_INSTRUCTION_ACCOUNTS = 64
  MAX_INSTRUCTION_DATA_LEN = 1024
  MAX_COMBINED_ACCOUNTS = 256
  MAX_PROPOSAL_ACCOUNT_BYTES = 10240
SPECIFICATION Spec
PROPERTY CreatesNext
