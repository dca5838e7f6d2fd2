SPECIFICATION Spec
SYMMETRY Symmetry
CONSTANTS
  Tasks = {t1, t2}
  Kinds = {"metadata", "data"}
  Sizes = {1, 4}
  Total = 2
  MaxTotal = 6
  Chunk = 4
  GlobalSize = 1
  MaxRequests = 3
  Killable = TRUE
  Abortable = FALSE
INVARIANT SpaceTypeOK
INVARIANT MayUseExact
INVARIANT TicketsAttended
INVARIANT HeadDoesNotFit
CHECK_DEADLOCK FALSE
