SPECIFICATION Spec
CONSTANTS
  b1 = b1
  r1 = r1
  r2 = r2
  NULL = NULL
  Block = {b1}
  SharedRoot = {r1,r2}
  WeakRoot = {}
  StrongMemberOf = {}
  WeakMemberOf = {}
  SharedVar <- MCSharedVar
  WeakVar <- MCWeakVar
  Owner <- MCOwner
  TrackingVar = {r1,r2}
  TrackingBlock = {b1}
  MaxCount = 3
  Liberties = {"shared_from_dying"}
INVARIANTS
  ZeroIsFinal
CHECK_DEADLOCK FALSE
