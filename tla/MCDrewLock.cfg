SPECIFICATION FairLockSpec
CONSTANTS
  Readers = {r1, r2}
  Writers = {w1, w2, w3}
  Blocking = {w1, w2}
INVARIANT LockTypeOK
PROPERTY IsGroupLock
PROPERTY WaitersGetLock
