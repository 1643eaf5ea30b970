SPECIFICATION Spec
CONSTANTS
  Thread = {t1, t2, t3}
  NoThread = NoThread
  Empty = Empty
  a = a
  b = b
  c = c
  d = d
  Name <- MCName
  HalfRange = 2
SYMMETRY Same
INVARIANTS
  TypeOK
  OneSymbol
  Resolves
  LiteralsDistinct
  NeverStuck
PROPERTIES
  Implements
