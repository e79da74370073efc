SPECIFICATION Spec
CONSTANTS
  Ntask = 2
  MaxDepth = 3
  MaxOpen = 2
  UINT8_INVALID = 255
  Msg = {m1, m2}
INVARIANTS
  TypeOK
  SectionExclusive
  LevelRestored
  WholeMessages
