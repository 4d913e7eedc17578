SPECIFICATION Spec
CONSTANTS
  b1 = b1
  b2 = b2
  r1 = r1
  r2 = r2
  w1 = w1
  w2 = w2
  NULL = NULL
  Block = {b1,b2}
  SharedRoot = {r1,r2}
  WeakRoot = {w1,w2}
  StrongMemberOf = {}
  WeakMemberOf = {}
  SharedVar <- MCSharedVar
  WeakVar <- MCWeakVar
  Owner <- MCOwner
  TrackingVar = {r1}
  TrackingBlock = {b1}
  MaxCount = 3
  Liberties = {}
SYMMETRY WeakSymmetry
INVARIANTS
  MemorySafe
  CountsExact
  PointerMatchesBlock
  ZeroIsFinal
PROPERTIES
  OnlyTwoBlind
  OnlyCopiesForget
