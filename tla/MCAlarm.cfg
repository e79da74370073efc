SPECIFICATION Spec
CONSTANTS
  tnum_alarm = 3
  cntinib_maxval = 2
  cntinib_tickbase = 1
  cntinib_mincyc = 2
  TickMod = 7
  alminib_autosta = {0, 1}
  alminib_almval <- Almval3
  alminib_cycle <- Cycle3
INVARIANTS
  TypeOK
  QueueIsChain
  ExpiresInTime
  PeriodicStays
PROPERTIES
  SameTickInOrder
  ImplementsTimers
