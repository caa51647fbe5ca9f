CONSTANTS
  i1 = i1
  i2 = i2
  i3 = i3
  n1 = n1
  n2 = n2
  None = None
  Handles = {h1, h2}
  h1 = h1
  h2 = h2
  Wild = Wild
  Interfaces = {i1}
  Numbers = {n1}
  Memory = {None, Wild}
  MaxQueued = 1
SPECIFICATION Spec
INVARIANTS
  NoBadHandle
