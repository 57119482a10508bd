SPECIFICATION FairSpec
CONSTANTS
  t = t
  p1 = p1
  p2 = p2
  p3 = p3
  w1 = w1
  w2 = w2
  NoReq = NoReq
  Task = {t}
  URL = {1, 2, 3, 4, 5, 6, 7}
  MaxDepth <- MCMaxDepth
  Pusher = {p1, p2, p3}
  Puller = {w1, w2}
  Program <- MCProgram
INVARIANTS TypeOK OvertakenIsNext
PROPERTIES TwoLanesSpec PushReturns Drains
\* Every request delivered and every push returned: the clients have stopped.
CHECK_DEADLOCK FALSE
