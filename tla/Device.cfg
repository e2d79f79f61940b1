CONSTANTS
  w = w
  k = k
  r1 = r1
  r2 = r2
  pay = pay
  coin = coin
  Device = {w, k}
  Sends <- TwoSends
  TokenSends <- OneTokenSend
  Threshold = 2
  MaxIndex = 2
  MaxSignatures = 2
  Decimals <- MintDecimals
  Deposits = {7}
  MaxLamports = 7
  Unset = Unset
  Truncated = Truncated
  Address <- DeviceAddress
  KeyLess <- DeviceKeyLess
  DataLen <- DeviceDataLen
  PROGRAM_ID = PROGRAM_ID
  SYSTEM_PROGRAM = SYSTEM_PROGRAM
  TOKEN_PROGRAM_ID = TOKEN_PROGRAM_ID
  TOKEN_2022_PROGRAM_ID = TOKEN_2022_PROGRAM_ID
  ATA_PROGRAM_ID = ATA_PROGRAM_ID
  COMPUTE_BUDGET_PROGRAM_ID = COMPUTE_BUDGET_PROGRAM_ID
  MEMO_PROGRAM_ID = MEMO_PROGRAM_ID
  RECENT_BLOCKHASHES = RECENT_BLOCKHASHES
  RENT = RENT
  BYTE = 256
  PACKET_DATA_SIZE = 1232
  MAX_MEMBERS = 10
  MAX_TX_ACCOUNT_KEYS = 64
  MAX_TX_INSTRUCTIONS = 16
  MAX_INSTRUCTION_ACCOUNTS = 64
  MAX_INSTRUCTION_DATA_LEN = 1024
  MAX_COMBINED_ACCOUNTS = 256
  MAX_PROPOSAL_ACCOUNT_BYTES = 10240
SPECIFICATION Spec
INVARIANTS
  TypeOK
  PaidAsShown
  SplitVerifies
  HonestBundlesPass
CHECK_DEADLOCK FALSE
