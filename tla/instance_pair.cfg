SPECIFICATION Spec
CONSTANTS
  AddressSpace = 64
  MallocAlign = 4
  Size1 = {4}
  Size2 = {1, 6}
  Alignment = {1, 2, 8, 16}
  MaxLive = 2
INVARIANTS
  Aligned
  FitsInAllocation
  PlacedFirst
  NoOverlap
