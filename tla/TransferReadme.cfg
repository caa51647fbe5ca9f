CONSTANTS
  t1 = t1
  t2 = t2
  a1 = a1
  a2 = a2
  b1 = b1
  b2 = b2
  None = None
  Transfers = {t1}
  Ops = {a1}
  TransferOf <- MCTransferOf
  Timeout <- MCTimeout
  UintModulus = 8
  Client = "sequential"
SPECIFICATION Spec
INVARIANTS
  NoUndefinedBehaviour
