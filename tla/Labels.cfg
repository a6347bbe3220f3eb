SPECIFICATION LabelsSpec
CONSTANTS
  u1 = u1  u2 = u2  i1 = i1  i2 = i2
  x1 = x1  x2 = x2  x3 = x3  ua = ua  ub = ub  uc = uc  ud = ud  none = none
  Stations = {u1, u2}  Units = {1, 2, 3, 4}  Groups = {1, 2, 3}  Source <- TwoByTwo
  GroupLabels <- FourLabels  GroupBounds <- OneOfEach
  Contexts = {u1, u2}  N = 2  MaxAttempts = 4  MaxFaults = 3
  FaultKinds = {"net", "lost", "crash", "printer", "disk", "hold", "elsewhere", "artifact"}
SYMMETRY Symmetric
INVARIANTS ReconSound GroupSound
PROPERTIES ExchangeAgrees PhsSound
CHECK_DEADLOCK FALSE
