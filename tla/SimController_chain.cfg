SPECIFICATION Spec
CONSTANTS
  qa = qa
  qb = qb
  qc = qc
  Queues = {qa, qb, qc}
  Dynamic = {}
  Main = Main
  InitRunners <- ThreeRunners
  SendPairs <- ChainPairs
  NumTasks = 4
  Delays = {}
  StartTime = 0
  StopTime = 2
  MaxTime = 0
  PlusInfinity = 9
INVARIANTS
  SendTaskReturns
