SPECIFICATION Spec
CONSTANTS
  u1 = u1  u2 = u2  i1 = i1  i2 = i2  p1 = p1  x1 = x1  ua = ua  ub = ub  ud = ud  none = none
PROPERTIES ConfirmedSettles CommittedSettles LabelsSettle
CHECK_DEADLOCK FALSE
