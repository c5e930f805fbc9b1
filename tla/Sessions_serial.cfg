CONSTANTS
  Session = {s1, s2}
  Worker = {w1, w2, w3}
  Slot = {x1, x2}
  Conn = {c1, c2}
  NoSession = NoSession
  NoSlot = NoSlot
  NoConn = NoConn
  NoWorker = NoWorker
  SessionlessEffects <- NoOpening
  EndersRejected = FALSE
  HostShutsDown = FALSE
SPECIFICATION Spec
SYMMETRY Symmetry
INVARIANTS Tracked OneRunPerSession RunHasTheTransaction
PROPERTIES KeptForItsSession NeverClosesOpen ImplementsTabs
