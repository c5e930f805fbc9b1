CONSTANTS
  Session = {s1}
  Worker = {w1, w2}
  Slot = {x1, x2, x3}
  Conn = {c1, c2}
  NoSession = NoSession
  NoSlot = NoSlot
  NoConn = NoConn
  NoWorker = NoWorker
  SessionlessEffects <- AllEffects
  EndersRejected = FALSE
  HostShutsDown = FALSE
SPECIFICATION Spec
SYMMETRY Symmetry
INVARIANT PoolClean
