SPECIFICATION Spec
CONSTANTS
  b1 = b1
  b2 = b2
  r1 = r1
  r2 = r2
  NULL = NULL
  Block = {b1,b2}
  SharedRoot = {r1,r2}
  WeakRoot = {}
  StrongMemberOf = {b1,b2}
  WeakMemberOf = {b1,b2}
  SharedVar <- MCSharedVar
  WeakVar <- MCWeakVar
  Owner <- MCOwner
  TrackingVar = {}
  TrackingBlock = {}
  MaxCount = 4
  Liberties = {}
SYMMETRY MemberSymmetry
INVARIANTS
  IInv
  MemorySafe
  CountsExact
  ZeroIsFinal
  OneCallPerDestruction
PROPERTIES
  LifeGoesForward
  WorkOnlyShrinks
  AbandonedOnlyWaits
  ImplementsOwnership
