SPECIFICATION Spec
CONSTANTS
  a = a
  b = b
  c = c
  d = d
  w1 = w1
  w2 = w2
  NoTask = NoTask
  Task = {a, b, c, d}
  Worker = {w1, w2}
  Limits <- MCLimits
  Burst = 1
  Fetcher <- MCFetcher
  WaitTime <- MCWaitTime
  Proxies <- MCProxies
  Malformed = {}
  Modulus = 4
  Sizes = {1023, 2999}
  MaxFetches = 3
  MaxTrips = 2
  MaxIdle = 1
INVARIANTS TypeOK Throttled AcceptedDecoded RotationEven ProxiesStick NoTokenLost
\* The calls of Fetch are bounded.
CHECK_DEADLOCK FALSE
