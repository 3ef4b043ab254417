CONSTANTS
  c1 = c1
  c2 = c2
  Clients = {c1, c2}
  Patient = {c1}
  Requests <- MCRequests
  BufSize = 2
  SndBuf = 1
  BodyLen = 2
  MaxFaults = 1
  Listener = Listener
  NoOne = NoOne
SPECIFICATION WebFairSpec
INVARIANTS ClientsIntact NoLostEdge AnswersRight
PROPERTY PatientServed
CHECK_DEADLOCK FALSE
