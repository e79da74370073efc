SPECIFICATION FairSpec
CONSTANTS
  Bits = 2
  MaxBytes = 2
  NTask = 2
  I2cTask = 1
  SleepTask = {2}
  N_TASKS = 2
  MaxMs = 2
INVARIANTS
  TypeOK
  DeviceSleeperKnown
  TransferDone
PROPERTIES
  BusConditions
  CallReturns
