SPECIFICATION Spec
CONSTANTS
  MaxVersions = 2  MaxKeys = 3  MaxPairFaults = 3
  PairFaultKinds = {"cancel", "verify", "redeem", "refused", "audit", "crash", "touch"}
  Reviews = {r1}  Markers = {m1}  Days = 2  MaxBoxFaults = 1
  BoxFaultKinds = {"crash", "append", "unsure", "sqlite", "hold"}
  MaxTasks = 3  MaxGens = 1  MaxJoins = 2  MaxCloses = 2  MaxWinFaults = 2
  WinFaultKinds = {"callback", "session", "slow"}
INVARIANTS PairKept OutboxSound
PROPERTIES EvidenceKept LogKept ClosedDrained
CHECK_DEADLOCK FALSE
