CONSTANTS
  t1 = t1
  t2 = t2
  a = a
  b = b
  c = c
  d1 = d1
  d2 = d2
  None = None
  Transfers = {t1, t2}
  Ops = {a, b, c}
  TransferOf <- MCTransferOf
  DeviceOf <- EachItsDevice
  Timeout <- MCTimeout
  UintModulus = 8
  Devices = {d1, d2}
SPECIFICATION Spec
INVARIANTS
  CallbackFindsContext
  InFlightIsServed
  ShutdownIsLast
PROPERTIES
  TimedOpsServed
