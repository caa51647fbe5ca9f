CONSTANTS
  t1 = t1
  t2 = t2
  a1 = a1
  a2 = a2
  b1 = b1
  b2 = b2
  None = None
  Transfers = {t1, t2}
  Ops = {a1, a2, b1, b2}
  TransferOf <- MCTransferOf
  Timeout <- MCTimeout
  UintModulus = 8
  Client = "quiescent"
SPECIFICATION Spec
INVARIANTS
  HandlerNotShared
  NoUndefinedBehaviour
  NoHandlerLost
  OwnResults
  RunsWhileOutstanding
PROPERTIES
  ImplementsAsyncOperation
  TimedOpsComplete
  CancelledOpsComplete
  WorkReleased
