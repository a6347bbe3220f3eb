SPECIFICATION Spec
CONSTANTS
  Leases = {l1, l2}
  Sites = {s1}
  Kids = {k1, k2, k3}
  Materials = {m1, m2}
  MaxKeys = 2
  Life = 1
  Skew = 1
  MaxTime = 2
  MaxReplies = 2
  FaultKinds = {"crash", "damage", "server"}
  MaxFaults = 1
  None = None
SYMMETRY KeyringSymmetry
INVARIANTS AcceptedStaysPinned CompletedVerifies
CHECK_DEADLOCK FALSE
