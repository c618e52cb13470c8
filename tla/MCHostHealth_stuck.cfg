CONSTANTS
  p1 = p1  e1 = e1
  Pollers = {p1}
  Envs = {e1}
  Timeout = 2
SPECIFICATION FairSpec
PROPERTY DeadHostGoesOffline
