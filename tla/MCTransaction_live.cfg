SPECIFICATION FairSpec
CONSTANTS
  Tasks = {t1}
  KThreads = {kt}
  MaxTrans = 2
  Ops = {"START", "JOIN", "BARRIER", "ATTACH", "WAIT"}
  Logging = TRUE
  Faults = TRUE
  None = None
PROPERTY CallsReturn
PROPERTY RunningIsCommitted
