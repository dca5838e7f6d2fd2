SPECIFICATION Spec
CONSTANTS
  Tasks = {t1, t2}
  KThreads = {kt}
  MaxTrans = 3
  Ops = {"START"}
  Logging = FALSE
  Faults = TRUE
  None = None
SYMMETRY Symmetry
INVARIANT BlocksBeforeSuper
INVARIANT RefcountExact
INVARIANT CommitReturnIsDurable
INVARIANT CommitterKeepsList
