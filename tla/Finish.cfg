SPECIFICATION Spec
CONSTANTS
  l1 = l1  p1 = p1  p2 = p2  r1 = r1  u1 = u1  none = none
PROPERTIES HeldSettles FactsReported RowsSettle CloseEnds EnrollmentEnds
CHECK_DEADLOCK FALSE
