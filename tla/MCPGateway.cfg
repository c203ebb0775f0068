SPECIFICATION FairGatewaySpec
CONSTANTS
  Clients = {c1, c2}
  Tools = {t1}
  Jobs = {j1}
  Kinds = {"approve", "revoke", "start", "stop"}
  MaxStreams = 1
  QueueSize = 1
  MaxChanges = 2
  MaxFaults = 1
CHECK_DEADLOCK FALSE
INVARIANTS GatewayTypeOK StreamsCounted NoMissedChange ChangesAreTold
PROPERTY ListenersCatchUp
