SPECIFICATION Spec
CONSTANTS
  t = t
  s = s
  x = x
  y = y
  a = a
  b = b
  c = c
  d = d
  w1 = w1
  w2 = w2
  p1 = p1
  p2 = p2
  p3 = p3
  p4 = p4
  NoReq = NoReq
  Task = {t, s, x, y}
  URL = {a, b, c, d}
  MaxDepth <- MCMaxDepth
  Worker = {w1, w2}
  Pusher = {p1, p2, p3, p4}
  Seeds <- MCSeeds
  Registered = {t, s, y}
  RootFails = {y}
  Roots <- MCRoots
  Links <- MCLinks
  Unparsable = {d}
  Panicking = {}
  HasItem = {b}
  Reload = {}
  Stored = {t, s}
INVARIANT FetchedOnce
\* The crawl is finite: the engine comes to rest.
CHECK_DEADLOCK FALSE
