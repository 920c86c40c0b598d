SPECIFICATION Spec
CONSTANTS
  Callers = {p1, p2, p3}
  Clusters = {c1, c2, c3}
  Known = {c1, c2}
  MaxBuilds = 2
  NoOne = NoOne
INVARIANTS
  TypeOK
  MutexHeldInside
  BuiltOnce
  ClientIsShared
PROPERTIES
  EveryCallReturns
