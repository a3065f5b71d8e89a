CONSTANTS
  t1 = t1
  c1 = c1
  c2 = c2
  x1 = x1
  d1 = d1
  d2 = d2
  None = None
  Tasks = {t1}
  Cards = {c1, c2}
  Calls = {x1}
  Devices = {d1, d2}
  OwnerOf <- OwnedByOne
SPECIFICATION Spec
INVARIANT NobodyLeftRunning
