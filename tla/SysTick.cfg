SPECIFICATION FairSpec
CONSTANTS
  Ntask = 4
INVARIANTS
  TypeOK
  EndsExact
  TickNotReentered
  MsCounted
PROPERTY TicksGoOn

