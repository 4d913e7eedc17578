SPECIFICATION ProgramSpec
CONSTANTS
  NULL = NULL
  Block = {"t1", "t2", "s1", "d", "e"}
  SharedVar = {"foo", "bar", "baz", "temp", "ptr", "foo4", "foo2"}
  WeakVar = {"wfoo", "wbar", "wbaz", "wtemp", "mWeakSelf"}
  Owner <- TestOwner
  TrackingVar = {"foo4", "foo2"}
  TrackingBlock = {"e"}
  MaxCount = 8
  Liberties = {}
  MaxThreads = 3
INVARIANTS
  RequirementsHold
  InitialStateRestored
  RowsComplete
  TimedTogether
  SomeoneGoesOn
PROPERTIES
  ProgramAdvances
  ProgramEnds
