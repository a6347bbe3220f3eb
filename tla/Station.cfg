SPECIFICATION Spec
CONSTANTS
  u1 = u1  u2 = u2  k1 = k1  k2 = k2  ca1 = ca1  ca2 = ca2  None = None
  FreshPc = TRUE  MaxAuths = 3  MaxFails = 3  MaxEnds = 2
  Values = {u1, u2}  CAs = {ca1, ca2}  ProfTokens = {k1, k2}  MaxProfFaults = 3
  ProfFaultKinds = {"bundle", "ca", "write", "readback", "unlink", "crash"}
  Relays = {u1, u2}  MaxLifeFaults = 2
  LifeFaultKinds = {"slow", "integrity", "register", "ledger", "registry", "launch",
                    "receipt", "report", "crash"}
  MaxVersion = 3  MaxToken = 2  OtherUrl = TRUE  MaxCatFaults = 3
  CatFaultKinds = {"get", "write", "crash", "damage", "profile"}
  Codes = {u1, u2}  Names = {k1, k2}  MaxLoginFaults = 3
  LoginFaultKinds = {"reader", "write", "readback", "unlink", "crash", "junk", "share"}
  AppVersions = {1, 2}  Installed = 1  Shas = {u1, u2}  Percentages = {0, 50}
  Buckets = {49, 50}  Providers = {"off", "private", "github"}  MaxPublished = 3
SYMMETRY Symmetric
INVARIANTS LifeSound CatalogSound SupervisorProved NoticeVouched
PROPERTIES EnrollSound ProfileSound
CHECK_DEADLOCK FALSE
