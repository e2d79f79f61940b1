CONSTANTS
  Send = {s1, s2}
  Paymaster = paymaster
  Stranger = stranger
  WINDOW = 2
  MaxSetups = 2
  MaxMeddling = 2
SPECIFICATION Spec
INVARIANTS
  TypeOK
  NonceSpentOnce
  PaidByIndex
  SetupIsOurs
PROPERTIES
  KeepsPromise
CHECK_DEADLOCK FALSE
