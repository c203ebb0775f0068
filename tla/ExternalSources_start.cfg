SPECIFICATION SourcesSpec
CONSTANTS
  Sources = {s1}
  Flows = {f1, f2}
  Users = {u1}
  Purposes = {"start"}
  MaxIssued = 4
  MaxUses = 6
  MaxLosses = 0
  Nobody = Nobody
INVARIANTS GrantKept
CHECK_DEADLOCK FALSE
