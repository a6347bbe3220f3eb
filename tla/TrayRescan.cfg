CONSTANTS
  l1 = l1
  labelA = labelA
  i1 = i1
  i2 = i2
  p1 = p1
  NoLease = NoLease
  NoIntent = NoIntent
  NoPayload = NoPayload
  MaxFaults = 0
  MaxAudits = 0
  Leases <- OneLease
  Labels <- OneLabel
  LabelOf <- OneLabelOf
  Intents <- OneIntent
  LeaseOf <- SingleLeaseOf
  Payloads <- OnePayload
  Exchanged <- NoExchange
SPECIFICATION TraySpec
INVARIANTS ExactReceiptRecorded
