SPECIFICATION FairSpec
CONSTANTS
  w1 = w1
  w2 = w2
  w3 = w3
  m1 = m1
  m2 = m2
  None = None
  Proc = {w1, w2, w3, m1, m2}
  Masters = {m1, m2}
  Host <- MCHost
  Args <- MCArgs
  RegisterTTL = 4
  RegisterInterval = 1
  MaxLaunches = 2
  Deployments = {{w1, w2}, {w1, w3}, {m1, m2}}
  MaxErrors = 4
INVARIANTS TypeOK Visible NoGhosts
PROPERTIES AddressesClash ComesBack
