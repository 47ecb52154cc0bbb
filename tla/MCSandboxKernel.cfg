CONSTANTS
  Branch = {b1, b2}
  Snapshot = {s}
  Caller = {v}
  Value = {x, y}
  Spare = {o1, o2}
  Nil = Nil
  b1 = b1
  b2 = b2
  s = s
  x = x
  y = y
  v = v
  o1 = o1
  o2 = o2
  MaxEvents = 4
SPECIFICATION Spec
SYMMETRY Alike
INVARIANT TracesReadBack
PROPERTY BranchesIsolated
