SPECIFICATION FairSpec
CONSTANTS
  pacer = pacer
  worker = worker
  module_process = module_process
  RtpThreads = {pacer}
  RtcpThreads = {worker, module_process}
  Sender = TRUE
  TraceInterval = 1
  MaxTime = 1
  MaxPackets = 3
INVARIANTS
  TypeOK
  MutualExclusion
  PacketsCovered
PROPERTIES
  PacketsInOrder
  PacketsSent
