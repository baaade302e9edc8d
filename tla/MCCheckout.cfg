SPECIFICATION CloudSpec
CONSTANTS
  Accounts = {a1, a2}
  Emails = {e1, e2, e3}
  Uids = {u1, u2}
  Passwords = {p1, p2}
  Requests = {1, 2, 3, 4, 5}
  Mixes <- MCNoMix
  MaxAttempts = 2
  MaxClock = 3
  LeaseTicks = 1
  CodeTicks = 2
  ChangeTicks = 3
  None = None
  Subscriptions = {s1, s2}
  Jobs = {1, 2, 3}
  Asked <- MCCheckouts
  MaxChanges = 2
  MaxTime = 2
  SessionTime = 2
  e1 = e1
  e2 = e2
  e3 = e3
  p1 = p1
  p2 = p2
  s1 = s1
  s2 = s2
INVARIANTS
  OneSubscription
CHECK_DEADLOCK FALSE
