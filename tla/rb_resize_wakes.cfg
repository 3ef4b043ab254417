CONSTANTS
  r1 = r1
  r2 = r2
  w1 = w1
  x1 = x1
  NoOne = NoOne
  Garbage = Garbage
  Procs = {r1, x1}
  Calls <- ReadResize
  DefaultSize = 2
  Sizes = {2}
  Lens = {1}
  Bytes = {0}
SPECIFICATION Spec
PROPERTY ResizeWakesAll
