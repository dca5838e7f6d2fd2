SPECIFICATION Spec
CONSTANTS
  Tasks = {t1, t2}
  KThreads = {}
  MaxTrans = 3
  Ops = {"START", "JOIN"}
  Logging = TRUE
  Faults = TRUE
  None = None
SYMMETRY Symmetry
INVARIANT LogFollowsSuper
INVARIANT OrderedIsCharged
PROPERTY CommitsInOrder
