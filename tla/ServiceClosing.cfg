CONSTANTS
  d1 = d1
  d2 = d2
  d3 = d3
  Devices = {d1, d2, d3}
  MaxLost = 2
SPECIFICATION Spec
INVARIANTS
  TypeOK
  CounterMatchesDevices
  WakeupPending
PROPERTIES
  ServedWhileOpen
  ParksWhenIdle
  StopsUnlessLost
