SPECIFICATION FairSpec
CONSTANTS
  qa = qa
  qb = qb
  qc = qc
  Queues = {qa, qb}
  Dynamic = {qb}
  Main = Main
  InitRunners <- TwoRunners
  SendPairs <- TwoQueuePairs
  NumTasks = 3
  Delays = {0, 2}
  StartTime = 1
  StopTime = 2
  MaxTime = 1
  PlusInfinity = 9
INVARIANTS
  TypeOK
  NextRunTimeProvided
  OneTaskAtATime
  ReadyRunnersExist
  NothingDueIsLeft
PROPERTIES
  TimerCoversWork
  TasksRunInSequence
  EventsReturn
  TasksRunWhileTimerAlive
