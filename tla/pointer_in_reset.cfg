SPECIFICATION Spec
CONSTANTS
  b1 = b1
  r1 = r1
  NULL = NULL
  Block = {b1}
  SharedRoot = {r1}
  WeakRoot = {}
  StrongMemberOf = {}
  WeakMemberOf = {}
  SharedVar <- MCSharedVar
  WeakVar <- MCWeakVar
  Owner <- MCOwner
  TrackingVar = {}
  TrackingBlock = {}
  MaxCount = 3
  Liberties = {}
INVARIANTS
  StrongPointerIsLive
