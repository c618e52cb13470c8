CONSTANTS
  Subs = {s1}
  MaxEvents = 1
  Handlers = {w1}
  Pushers = {p1, p2}
  Included = 1  MaxMembers = 3
SPECIFICATION FairSpec
PROPERTY ReconcilerHeals
CHECK_DEADLOCK FALSE
