CONSTANTS
  hub = hub
  leaf = leaf
  s1 = s1
  s2 = s2
  s3 = s3
  th1 = th1
  th2 = th2
  None = None
  Devs = {hub, leaf}
  ParentOf <- MCParentOf
  Slots = {s1, s2}
  Threads = {th1, th2}
  max_depth = 1
SPECIFICATION Spec
INVARIANTS
  RefsBalance
  HandedIsAlive
PROPERTIES
  FreedWhenAbandoned
  PortNumbersReturn
