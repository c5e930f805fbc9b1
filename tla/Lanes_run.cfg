CONSTANTS
  q1 = q1
  q2 = q2
  q3 = q3
  p1 = p1
  p2 = p2
  Request <- MCRequest
  Method <- MCMethod
  Nature <- MCNature
  Impatient = {q1}
  WorkerPoolSize = 1
  LifecycleWorkers = 2
  QueueCapacity = 1
  Burst = 2
SPECIFICATION FairSpec
INVARIANTS TypeOK CleanExitAnswersAll
PROPERTIES ExitsAfterHost CancelServed LifecycleServed
CHECK_DEADLOCK FALSE
