CONSTANTS
  d1 = d1
  d2 = d2
  k1 = k1
  k2 = k2
  Daemons = {d1, d2}
  Clients = {k1, k2}
  Sizes = {5}
  Missing = Missing
  MaxClients = 1
  MaxStarts = 1
  NoOne = NoOne
SPECIFICATION DaemonFairSpec
INVARIANTS ReachedByPath AnswerIsRecent
PROPERTIES StopsForAReason SignalStops QueuedAnswered
CHECK_DEADLOCK FALSE
