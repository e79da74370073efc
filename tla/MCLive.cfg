SPECIFICATION FairSpec
CONSTANTS
  tnum_task = 3
  tnum_exttask = 1
  TPRI_MAXTASK = 2
  tinib_inipri <- IniPri3
  tinib_exepri <- ExePri3
  tinib_maxact <- MaxAct3
  tinib_autoact = {1}
  ResourceId = {0}
  resinib_ceilpri <- CeilPri3
  EventId = {0, 1}
  Unmasked = {"post"}
  IsrTask = {0, 1, 2}
  WindowTask = {}
  MaxNest = 1
PROPERTIES
  SchedtskGetsCpu
  UrgentTaskRuns
  EventsStaySet
