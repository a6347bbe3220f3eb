CONSTANTS
  l1 = l1
  labelA = labelA
  i1 = i1
  i2 = i2
  p1 = p1
  NoLease = NoLease
  NoIntent = NoIntent
  NoPayload = NoPayload
  MaxFaults = 2
  MaxAudits = 1
  Leases <- OneLease
  Labels <- OneLabel
  LabelOf <- OneLabelOf
  Intents <- TwoIntents
  LeaseOf <- SharedLeaseOf
  Payloads <- OnePayload
  Exchanged <- NoExchange
SPECIFICATION TraySpec
INVARIANTS CommandAfterEvidence AckedIsProved ResendIsAudited CommandKeepsTray TrayCompleteOnce
PROPERTIES ImplementsContract
