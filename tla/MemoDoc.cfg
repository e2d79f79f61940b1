CONSTANTS
  w1 = w1
  w2 = w2
  w3 = w3
  w4 = w4
  w5 = w5
  k1 = k1
  k2 = k2
  k3 = k3
  k4 = k4
  k5 = k5
  Wallets <- FiveWallets
  Keys <- FiveKeys
  Recipient = recipient
  Paymaster = paymaster
  Address <- ExampleAddress
  KeyLess <- ExampleOrder
  DataLen <- ExampleDataLen
  PROGRAM_ID = PROGRAM_ID
  SYSTEM_PROGRAM = SYSTEM_PROGRAM
  TOKEN_PROGRAM_ID = TOKEN_PROGRAM_ID
  TOKEN_2022_PROGRAM_ID = TOKEN_2022_PROGRAM_ID
  ATA_PROGRAM_ID = ATA_PROGRAM_ID
  COMPUTE_BUDGET_PROGRAM_ID = COMPUTE_BUDGET_PROGRAM_ID
  MEMO_PROGRAM_ID = MEMO_PROGRAM_ID
  RECENT_BLOCKHASHES = RECENT_BLOCKHASHES
  RENT = RENT
  BYTE = 256
  PACKET_DATA_SIZE = 1232
  MAX_MEMBERS = 10
  MAX_TX_ACCOUNT_KEYS = 64
  MAX_TX_INSTRUCTIONS = 16
  MAX_INSTRUCTION_ACCOUNTS = 64
  MAX_INSTRUCTION_DATA_LEN = 1024
  MAX_COMBINED_ACCOUNTS = 256
  MAX_PROPOSAL_ACCOUNT_BYTES = 10240
SPECIFICATION Spec
INVARIANT RemainingComplete
CHECK_DEADLOCK FALSE
