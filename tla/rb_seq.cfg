CONSTANTS
  r1 = r1
  r2 = r2
  w1 = w1
  x1 = x1
  NoOne = NoOne
  Garbage = Garbage
  Procs = {x1}
  Calls <- OneDoesAll
  DefaultSize = 2
  Sizes <- OneSizes
  Lens <- OneLens
  Bytes = {0, 1}
SPECIFICATION Spec
INVARIANT IndexesAgree
PROPERTY ImplementsFifo
