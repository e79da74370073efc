SPECIFICATION FairSpec
CONSTANTS
  InitBytes = 4
  SendBytes = 2
  ReadBytes = 3
  Command = {c1, c2}
INVARIANTS
  TypeOK
  ShownWhole
PROPERTY LinkRecovers
