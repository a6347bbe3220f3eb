SPECIFICATION PushSpec
CONSTANTS
  u1 = u1  u2 = u2
  Runners = {u1, u2}  MaxLen = 3  MaxGen = 2  MaxFaults = 3
  ShortLen = 2  GrowsFaults = 1  ReplacedFaults = 2
  FaultKinds = {"torn", "blocked", "refused", "spool", "crash", "operator"}
SYMMETRY Symmetric
INVARIANTS CursorIsAcked EachLineOnce
PROPERTY RelaySound
CHECK_DEADLOCK FALSE
