SPECIFICATION Spec
SYMMETRY Symmetry
CONSTANTS
  Tasks = {t1, t2}
  Parts = 2
  MaxMounts = 4
  MaxFaults = 2
  None = None
INVARIANT MountTypeOK
INVARIANT InfoOutlivesSuper
INVARIANT ListIsMounted
INVARIANT NothingLeft
CHECK_DEADLOCK FALSE
