SPECIFICATION FairSpec
CONSTANT N = 3
INVARIANTS
  TypeOK
  BuffersIntact
PROPERTY BytesRead
