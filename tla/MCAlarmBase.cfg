SPECIFICATION Spec
CONSTANTS
  tnum_alarm = 2
  cntinib_maxval = 2
  cntinib_tickbase = 2
  cntinib_mincyc = 2
  TickMod = 7
  alminib_autosta = {0, 1}
  alminib_almval <- Almval2
  alminib_cycle <- Cycle2
INVARIANT ExpiresInTime
