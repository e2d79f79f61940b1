CONSTANTS
  Send = {s1}
  Paymaster = paymaster
  Stranger = stranger
  WINDOW = 2
  MaxSetups = 1
  MaxMeddling = 2
SPECIFICATION Spec
INVARIANT
  ReturnedNonceIsOurs
CHECK_DEADLOCK FALSE
