SPECIFICATION MCSpec
CONSTANTS
  Ids = {i1, i2}
  Tools = {t1}
  Admin = Admin
  Groups = {g1}
  Ports = {https}
  Forms = {"dashed", "dotted"}
  Handlers = {r1, r2}
  NoHandler = NoHandler
  Kinds <- AllKinds
  Overlap = TRUE
  AdminRequests = {r1, r2}
  WorkerProcesses = {w1, w2}
  MaxTokens = 4
  MaxPasswords = 3
  MaxRestarts = 1
  TunnelRequests = {r1, r2}
  Configurations = {k1, k2}
  NoRequester = NoRequester
  MaxStarts = 2
  Sources = {s1}
  Flows = {f1, f2}
  Users = {u1, u2}
  Purposes = {"discover", "health"}
  MaxIssued = 4
  MaxUses = 6
  MaxLosses = 1
  Nobody = Nobody
  Buckets = {b1}
  Limits <- MCLimits
  Minute = 2
  Hour = 4
  Inactive = 5
  FirstTokens = 1
  MaxTime = 9
  MaxUpdates = 1
  Servers = {s1, s2}
  SecretKeys = {k1, k2}
  Hosts = {h1}
  Admins = {r1, r2}
  ToolCalls = {c1}
  Workers = 1
  MaxValue = 2
  MaxAdmin = 3
  MaxFailures = 1
  NoOne = NoOne
SYMMETRY BackendSymmetry
CHECK_DEADLOCK FALSE
INVARIANTS
  BackendTypeOK
  CacheOnlyApproved
  LoggedOutStaysOut
  ChangeCutsOff
  NoOrphan
  OneActive
  GrantKept
  WindowsHold
  SecretsInSync
  ApprovedReachable
PROPERTY
  MutationsSync
