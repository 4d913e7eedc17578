SPECIFICATION Spec
CONSTANTS
  b1 = b1
  b2 = b2
  r1 = r1
  r2 = r2
  r3 = r3
  w1 = w1
  w2 = w2
  NULL = NULL
  Block = {b1,b2}
  SharedRoot = {r1,r2,r3}
  WeakRoot = {w1,w2}
  StrongMemberOf = {}
  WeakMemberOf = {}
  SharedVar <- MCSharedVar
  WeakVar <- MCWeakVar
  Owner <- MCOwner
  TrackingVar = {}
  TrackingBlock = {}
  MaxCount = 3
  Liberties = {}
SYMMETRY RootSymmetry
INVARIANTS
  TypeOK
  MemorySafe
  CountsExact
  OwnedIsLive
  ObservedIsHeld
  NothingLeaks
  PointerMatchesBlock
  ZeroIsFinal
  AccessorsTellOwners
PROPERTIES
  LifeGoesForward
  ImplementsOwnership
