CONSTANTS
  Users = {u1, u2, u3}
  Teams = {t1, t2}
  Invites = {i1, i2, i3}
  Handlers = {h1, h2}
  FreeCap = 2  PaidCap = 3  MaxOwned = 2  MaxRequests = 3
  MaxTime = 2  MaxSessions = 3
  Codes = 1  MaxStep = 2  MaxSecrets = 2
  Tokens = {k1, k2}  Mailboxes = {a, b, c}  Home = a
  Types = {"verify_email", "password_reset", "email_change"}
  ApiTokens = {k1, k2}
  Clients = {c1, c2, c3}  MaxTunnels = 2  MaxPending = 1  MaxMessages = 2
  Components = {compute, cache}  Compute = compute  Hosts = {n1, n2}
  Impacts = {2, 4}  ByHand = {3}  Subjects = {{cache}, {compute, cache}}
  DayLength = 2  Days = 1  Units = 3  MaxPosts = 1  MaxChanges = 2
  Fingerprints = {f1, f2}  Client = {f2}  RealertAfter = 1  ClientMin = 2
  MaxAlerts = 1  KeepFor = 1  Hours = 2  MaxCount = 2  MaxResolves = 1
  Trial = 4  Cooldown = 1  BackupStale = 1  LastDay = 4  MaxMails = 2
  Names = {1, 2, 3}  CpuTotal = 3  Sizes = {1, 2}  Loads = {4, 36}  UsageStale = 1
SPECIFICATION MCSpec
INVARIANTS TypesOK SecondOwnerNeedsTwoTransfers OwnerKept TrialOnce SeatOvershootBounded
INVARIANTS CutOffHolds  SecretIsConfirmed
INVARIANTS   OneTokenPerCode
INVARIANTS RelayIsFaithful HistoryIsTrue AlertsAreSpaced NoticesAreCounted 
PROPERTY TunnelIsAChannel
SYMMETRY Symmetry
CHECK_DEADLOCK FALSE
