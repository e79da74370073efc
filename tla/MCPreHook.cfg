SPECIFICATION Spec
CONSTANTS
  tnum_task = 4
  tnum_exttask = 2
  TPRI_MAXTASK = 2
  tinib_inipri <- IniPri
  tinib_exepri <- ExePri
  tinib_maxact <- MaxAct
  tinib_autoact = {0, 1}
  ResourceId = {0, 1}
  resinib_ceilpri <- CeilPri
  EventId = {0}
  Unmasked = {"pre"}
  IsrTask = {0, 2, 3}
  WindowTask = {0, 2, 3}
  MaxNest = 1
INVARIANT SchedtskRuns
CHECK_DEADLOCK TRUE
