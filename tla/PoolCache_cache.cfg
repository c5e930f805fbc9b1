CONSTANTS
  Caller = {c1, c2}
  Param <- MCParam
  Pool = {p1, p2, p3, p4}
  Setting = {0, 3}
  NoParam = NoParam
  NoPool = NoPool
  DefaultPoolMaxSize = 1
  MaxPoolMaxSize = 2
SPECIFICATION Spec
SYMMETRY Symmetry
INVARIANTS TypeOK RightTarget NoPoisoned OneShotsDie
PROPERTY BusyKept
CHECK_DEADLOCK FALSE
