CONSTANTS
  Session = {s1, s2}
  Worker = {w1, w2}
  Slot = {x1, x2, x3, x4}
  Conn = {c1, c2}
  NoSession = NoSession
  NoSlot = NoSlot
  NoConn = NoConn
  NoWorker = NoWorker
  SessionlessEffects <- NoOpening
  EndersRejected = FALSE
  HostShutsDown = TRUE
SPECIFICATION Spec
SYMMETRY Symmetry
INVARIANTS Structure PoolClean PinnedOpen FlagTruthful
