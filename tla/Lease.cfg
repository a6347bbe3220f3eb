CONSTANTS
  l1 = l1
  l2 = l2
  l3 = l3
  labelA = labelA
  i1 = i1
  i2 = i2
  NoLease = NoLease
  NoIntent = NoIntent
  Leases <- MCLeases
  Labels <- MCLabels
  LabelOf <- MCLabelOf
  Intents <- MCIntents
  Exchanged <- MCExchanged
SYMMETRY MCSymmetry
SPECIFICATION LeaseSpec
INVARIANTS OneLiveCentralLease SettledWithServer
CHECK_DEADLOCK FALSE
