CONSTANTS
  Subs = {s1}  MaxEvents = 1  Handlers = {w1}  Pushers = {p1, p2}
  Included = 1  MaxMembers = 3
  EvSubs = {s1, s2}  EvMax = 3  EvHandlers = {w1, w2}
  Sweep1 = w1  MaxAttempts = 2  DisableAfter = 2
SPECIFICATION MCSpec
INVARIANTS TypesOK  
PROPERTIES   DisableIsEarned 
CHECK_DEADLOCK FALSE
