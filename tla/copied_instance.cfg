SPECIFICATION Spec
CONSTANTS
  b1 = b1
  b2 = b2
  r1 = r1
  r2 = r2
  NULL = NULL
  Block = {b1,b2}
  SharedRoot = {r1,r2}
  WeakRoot = {}
  StrongMemberOf = {}
  WeakMemberOf = {}
  SharedVar <- MCSharedVar
  WeakVar <- MCWeakVar
  Owner <- MCOwner
  TrackingVar = {r1,r2}
  TrackingBlock = {b1,b2}
  MaxCount = 3
  Liberties = {}
INVARIANTS
  TrackedKnowsBlock
