CONSTANTS
  Users = {u1, u2, u3}
  Teams = {t1, t2}
  Invites = {i1, i2, i3}
  Handlers = {h1, h2}
  FreeCap = 2  PaidCap = 3  MaxOwned = 2  MaxRequests = 3
SPECIFICATION Spec
INVARIANT OneOwner
SYMMETRY Symmetry
CHECK_DEADLOCK FALSE
