CONSTANTS
  d1 = d1
  d2 = d2
  d3 = d3
  Devices = {d1, d2}
  MaxLost = 0
SPECIFICATION Spec
PROPERTIES
  DestructionReturns
