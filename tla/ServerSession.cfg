SPECIFICATION Spec
CONSTANTS
  c1 = c1
  c2 = c2
  Clients = {c1, c2}
  Servers = {1, 2}
  Workers = {w1}
  Nobody = Nobody
  rSize = 2
  MaxQueries <- MCMaxQueries
  Leavers = {c1}
  MaxSigkill = 1
  Interrupted = {1}
INVARIANTS SessionInv OneServer RefusedForAReason EndsForAReason
PROPERTY NobodyHangs
CHECK_DEADLOCK FALSE
