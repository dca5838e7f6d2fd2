SPECIFICATION FairSnapSpec
CONSTANTS
  Snapshotters = {s1, s2}
  Tasks = {t1, t2}
  Files = {f1}
  Operations = {"nocow", "expand", "swap"}
  Deletable = TRUE
INVARIANT SnapTypeOK
INVARIANT CowIsReserved
INVARIANT SwapNotShared
PROPERTY SnapshotHasEarlierWrites
PROPERTY SnapshotHasTruncatedWrites
PROPERTY SnapshotReturns
