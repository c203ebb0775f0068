SPECIFICATION AdminSpec
CONSTANTS
  AdminRequests = {r1, r2}
  WorkerProcesses = {w1}
  MaxTokens = 4
  MaxPasswords = 2
  MaxRestarts = 0
CHECK_DEADLOCK FALSE
INVARIANT
  OldTokensRefused
