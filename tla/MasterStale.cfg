SPECIFICATION FairSpec
CONSTANTS
  m1 = m1
  m2 = m2
  n1 = n1
  n2 = n2
  r1 = r1
  r2 = r2
  None = None
  Master = {m1, m2}
  Node = {n1}
  Resource = {r1}
  Seeds <- MCSeeds
  Extending <- MCExtending
  Churn = 0
  Expire = 1
  Crashes = 0
  Errors = 0
  Bound <- MCBound
  MaxCalls = 0
PROPERTY StaleLeaderStepsDown
\* The bounds of the outside events are reached: the masters wait.
CHECK_DEADLOCK FALSE
