CONSTANTS
  Request = {r1, r2}
  Backend = {b1, b2}
  OneShot = {o1, o2, o3}
  NoBackend = NoBackend
SPECIFICATION Spec
SYMMETRY Symmetry
INVARIANTS TypeOK HandleTruthful Cancellable
PROPERTY StrikesRight
CHECK_DEADLOCK FALSE
