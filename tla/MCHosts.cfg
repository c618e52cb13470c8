CONSTANTS
  Pollers = {p1}
  Envs = {e1}
  Overlapping = {p1, p2}
  Timeout = 2
SPECIFICATION MCSpec
INVARIANTS TypesOK 
PROPERTIES DeadHostIsAlerted LiveHostComesOnline DriftHeals
