SPECIFICATION Spec
CONSTANTS
  AddressSpace = 64
  MallocAlign = 4
  Size1 = {4}
  Size2 = {1}
  Alignment = {0}
  MaxLive = 1
INVARIANT
  FitsInAllocation
