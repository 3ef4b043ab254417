CONSTANTS
  r1 = r1
  r2 = r2
  w1 = w1
  x1 = x1
  NoOne = NoOne
  Garbage = Garbage
  Procs = {r1, r2, w1}
  Calls <- ManyCalls
  DefaultSize = 2
  Sizes = {2}
  Lens = {1, 2}
  Bytes = {0, 1}
SPECIFICATION FairSpec
INVARIANT NoLostWakeup
PROPERTIES ImplementsFifo CallsReturn
