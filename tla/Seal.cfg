CONSTANTS
  l1 = l1
  labelA = labelA
  i1 = i1
  i2 = i2
  p1 = p1
  p2 = p2
  NoLease = NoLease
  NoIntent = NoIntent
  NoPayload = NoPayload
  MaxFaults = 1
  MaxAudits = 1
  Leases <- OneLease
  Labels <- OneLabel
  LabelOf <- OneLabelOf
  Intents <- TwoIntents
  LeaseOf <- MixedLeaseOf
  Payloads <- TwoPayloads
  Exchanged <- NoExchange
SPECIFICATION SealSpec
INVARIANTS OnePayloadPerKey
PROPERTIES NeverOvertakes
