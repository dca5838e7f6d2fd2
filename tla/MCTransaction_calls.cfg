SPECIFICATION Spec
CONSTANTS
  Tasks = {t1, t2}
  KThreads = {kt}
  MaxTrans = 2
  Ops = {"START", "JOIN", "ATTACH", "BARRIER", "JOIN_NOSTART", "WAIT"}
  Logging = FALSE
  Faults = FALSE
  None = None
SYMMETRY Symmetry
INVARIANT TypeOK
INVARIANT WritersAreHandles
INVARIANT CommitIsAlone
INVARIANT BarrierMeansOnDisk
