SPECIFICATION Spec
CONSTANTS
  d1 = d1
  d2 = d2
  a = a
  Tasks = {t1, t2}
  Dirs = {d1, d2}
  Names = {a}
  Files <- TwoFiles
  Cwd <- SharedCwd
  Parts = 2
  Width = 16
  MaxCreates = 3
  MaxEvents = 3
CHECK_DEADLOCK FALSE
INVARIANT ListedIsLinked
