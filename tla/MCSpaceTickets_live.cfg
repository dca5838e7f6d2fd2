SPECIFICATION FairSpec
CONSTANTS
  Tasks = {t1, t2}
  Kinds = {"metadata", "data"}
  Sizes = {4}
  Total = 2
  MaxTotal = 6
  Chunk = 4
  GlobalSize = 1
  MaxRequests = 2
  Killable = FALSE
  Abortable = TRUE
CHECK_DEADLOCK FALSE
PROPERTY ReserveReturns
