CONSTANTS
  o1 = o1
  o2 = o2
  o3 = o3
  o4 = o4
  Ops = {o1, o2}
SPECIFICATION Spec
PROPERTIES
  OperationsComplete
