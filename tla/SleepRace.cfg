SPECIFICATION Spec
CONSTANTS
  Bits = 2
  MaxBytes = 2
  NTask = 2
  I2cTask = 0
  SleepTask = {1, 2}
  N_TASKS = 2
  MaxMs = 2
INVARIANT SleeperKnown
