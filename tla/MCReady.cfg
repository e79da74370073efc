SPECIFICATION Spec
CONSTANTS
  tnum_task = 3
  tnum_exttask = 0
  TPRI_MAXTASK = 15
  PriorityInUse = {7, 8, 15}
  tinib_inipri <- Inipri
  tinib_exepri <- Inipri
PROPERTY ImplementsReadyQueue
