SPECIFICATION FairSpec
CONSTANTS
  b1 = b1
  b2 = b2
  b3 = b3
  r1 = r1
  w1 = w1
  NULL = NULL
  Block = {b1,b2,b3}
  SharedRoot = {r1}
  WeakRoot = {w1}
  StrongMemberOf = {b1,b2}
  WeakMemberOf = {}
  SharedVar <- MCSharedVar
  WeakVar <- MCWeakVar
  Owner <- MCOwner
  TrackingVar = {}
  TrackingBlock = {}
  MaxCount = 4
  Liberties = {}
PROPERTIES
  CallReturns
  AbandonedIsFreed
  ImplementsLiveOwnership
