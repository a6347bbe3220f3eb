SPECIFICATION Spec
CONSTANTS
  l1 = l1  l2 = l2  u1 = u1  u2 = u2  none = none
  Labels = {l1, l2}  Codes = {u1, u2}  BadCodes = {}
  TraySize = 2  HoldCapacity = 2  WriterCapacity = 2  WaitingLimit = 1
  MaxHolds = 2  HoldFaultKinds = {"write", "crash", "server"}  MaxHoldFaults = 2
SYMMETRY Symmetric
INVARIANT ScansKept
PROPERTY WorkKept
CHECK_DEADLOCK FALSE
