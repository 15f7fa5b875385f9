SPECIFICATION ThreadSpec
CONSTANTS
  qa = qa
  qb = qb
  th = th
  Queues = {qa, qb, th}
  Threads = {th}
  Dynamic = {th}
  Main = Main
  InitRunners <- Runners
  SendPairs <- LeafPairs
  ThreadSends <- LeafSends
  NumTasks = 3
  Delays = {3}
  ThreadDelays = {0, 1}
  Millis = 2
  StartTime = 1
  StopTime = 4
  MaxTime = 1
  PlusInfinity = 9
INVARIANTS
  ThreadNextRunTime
  SendTaskReturns
  YieldedOnce
