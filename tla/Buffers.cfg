CONSTANTS
  b1 = b1
  b2 = b2
  Blocks = {b1, b2}
  Addresses <- MCAddresses
  Alignments = {1, 16}
  SizeModulus = 64
SPECIFICATION Spec
CHECK_DEADLOCK FALSE
INVARIANTS
  AllocatorsAgree
  NothingLeaks
  PayloadSuffices
