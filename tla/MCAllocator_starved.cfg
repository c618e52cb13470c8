CONSTANTS
  t1 = t1  t2 = t2
  h1 = h1  h2 = h2
  w1 = w1  w2 = w2
  v1 = v1  v2 = v2  v3 = v3
  Teams = {t1, t2}
  Requests = {1, 2}
  TeamOf <- FirstApart
  Handlers = {h1}
  Workers = {w1}
  VMs = {v1, v2}
  PlanCaps = {0, 1}
  MaxHosts = 1
  BatchLimit = 1
  MaxAttempts = 1
  CreateTimeout = 110
  ReclaimAfter = 180
  MaxAborts = 0
  NoTask = NoTask
  NoVm = NoVm
SPECIFICATION HospitableSpec
PROPERTY PaidRunsAreServed
