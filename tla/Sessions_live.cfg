CONSTANTS
  Session = {s1, s2}
  Worker = {w1, w2}
  Slot = {x1, x2}
  Conn = {c1}
  NoSession = NoSession
  NoSlot = NoSlot
  NoConn = NoConn
  NoWorker = NoWorker
  SessionlessEffects <- NoOpening
  EndersRejected = FALSE
  HostShutsDown = FALSE
SPECIFICATION FairSpec
PROPERTIES OverdueReleased Drains
