CONSTANTS
  t1 = t1  t2 = t2
  h1 = h1  h2 = h2
  w1 = w1  w2 = w2
  v1 = v1  v2 = v2  v3 = v3
  Teams = {t1}
  Requests = {1}
  TeamOf <- SameTeam
  Handlers = {h1}
  Workers = {w1, w2}
  VMs = {v1, v2, v3}
  PlanCaps = {1}
  MaxHosts = 2
  BatchLimit = 2
  MaxAttempts = 2
  CreateTimeout = 110
  ReclaimAfter = 180
  MaxAborts = 0
  NoTask = NoTask
  NoVm = NoVm
SPECIFICATION Spec
INVARIANTS StartedOnce VmsAreExclusive
SYMMETRY Symmetry
