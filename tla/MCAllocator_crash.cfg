CONSTANTS
  t1 = t1  t2 = t2
  h1 = h1  h2 = h2
  w1 = w1  w2 = w2
  v1 = v1  v2 = v2  v3 = v3
  Teams = {t1}
  Requests = {1}
  TeamOf <- SameTeam
  Handlers = {h1}
  Workers = {w1}
  VMs = {v1, v2}
  PlanCaps = {0, 1}
  MaxHosts = 2
  BatchLimit = 1
  MaxAttempts = 2
  CreateTimeout = 110
  ReclaimAfter = 180
  MaxAborts = 1
  NoTask = NoTask
  NoVm = NoVm
SPECIFICATION FairSpec
INVARIANTS NoLeakedClaim NoForgottenVm
PROPERTY ClaimsResolve
