--------------------------- MODULE WebrtcTransport ---------------------------
(***************************************************************************)
(* The sending side of the ns-3 applications WebrtcSender and              *)
(* WebrtcReceiver (model/webrtc-sender.cc, model/webrtc-receiver.cc) with  *)
(* their spin locks (model/atomic-lock.h).  SendRtp and SendRtcp put a     *)
(* packet in a queue and schedule DeliveryPacket, which the ns-3 thread    *)
(* runs; it empties both queues and gives the packets to the socket.       *)
(* Under the emulation controller the calls come from the threads of the   *)
(* WebRTC stack, concurrently with the ns-3 thread.  (Under the simulation *)
(* controller one thread does it all: the behaviours in which a call runs  *)
(* to its end.)  A zero-length packet, which SendRtp of the sender accepts *)
(* and ignores, changes nothing and is left out.                           *)
(***************************************************************************)
EXTENDS SequencesExt, Integers

CONSTANTS
  RtpThreads,    \* threads that call SendRtp
  RtcpThreads,   \* threads that call SendRtcp
  Sender,        \* TRUE: WebrtcSender; FALSE: WebrtcReceiver
  TraceInterval, \* kTraceInterval
  MaxTime,       \* bound: the clock of the simulator stops there
  MaxPackets     \* bound: number of packets sent in a behaviour

ASSUME TransportConstants ==
  /\ RtpThreads \cap RtcpThreads = {}
  /\ Sender \in BOOLEAN
  /\ TraceInterval \in Nat /\ MaxTime \in Nat /\ MaxPackets \in Nat

VARIABLES
  now,            \* Simulator::Now(), in ms
  queue,          \* m_rtpQ and m_rtcpQ
  lock,           \* lock_ of m_rtpLock and m_rtcpLock
  app,            \* m_running, and whether the application has been started
  events,         \* number of scheduled DeliveryPacket events
  m_seq,          \* m_seq: the sequence number of the next WebrtcTag
  lastTraceTime,  \* m_lastTraceTime
  pc,             \* where each thread of the stack is
  packet,         \* the packet its call has
  ns3,            \* where the ns-3 thread is
  sendQ,          \* sendQ of DeliveryPacket
  wire,           \* history: the packets given to the socket, with their tags
  made,           \* history: number of packets sent by the stack
  traces,         \* history: when the bandwidth was traced
  missed          \* history: kinds with a call that saw ~m_running since the
                  \* queue was last emptied

vars == <<now, queue, lock, app, events, m_seq, lastTraceTime, pc, packet, ns3,
          sendQ, wire, made, traces, missed>>

Kinds == {"rtp", "rtcp"}
Threads == RtpThreads \cup RtcpThreads
Kind(t) == IF t \in RtpThreads THEN "rtp" ELSE "rtcp"
Packets == [id : 1..MaxPackets, kind : Kinds]
m_running == app = "running"

TypeOK ==
  /\ now \in 0..MaxTime
  /\ queue \in [Kinds -> Seq(Packets)]
  /\ lock \in [Kinds -> 0..1]
  /\ app \in {"new", "running", "stopped"}
  /\ events \in Nat /\ m_seq \in Nat /\ made \in 0..MaxPackets
  /\ lastTraceTime \in 0..MaxTime
  /\ pc \in [Threads -> {"idle", "enter", "push", "leave", "trace", "schedule"}]
  /\ packet \in [Threads -> 0..MaxPackets]
  /\ ns3 \in {"idle", "enter_rtp", "drain_rtp", "enter_rtcp", "drain_rtcp", "send"}
  /\ sendQ \in Seq(Packets)
  /\ wire \in Seq([seq : Nat, packet : Packets])
  /\ traces \in Seq(0..MaxTime)
  /\ missed \subseteq Kinds

Init ==
  /\ now = 0
  /\ queue = [k \in Kinds |-> <<>>]
  /\ lock = [k \in Kinds |-> 0]
  /\ app = "new"
  /\ events = 0 /\ m_seq = 1 /\ lastTraceTime = 0
  /\ pc = [t \in Threads |-> "idle"]
  /\ packet = [t \in Threads |-> 0]
  /\ ns3 = "idle" /\ sendQ = <<>>
  /\ wire = <<>> /\ made = 0 /\ traces = <<>> /\ missed = {}
------------------------------------------------------------------------------
(* AtomicLock: a compare-and-swap that is tried until it succeeds *)

\* Mutant: the lock is taken without waiting for it.
EnterAnyway(k) == lock' = [lock EXCEPT ![k] = @ + 1]

Enter(k) == lock[k] = 0 /\ lock' = [lock EXCEPT ![k] = 1]
Leave(k) == lock[k] = 1 /\ lock' = [lock EXCEPT ![k] = 0]
------------------------------------------------------------------------------
(* SendRtp and SendRtcp, on a thread of the stack *)

Step(t, from, to) == pc[t] = from /\ pc' = [pc EXCEPT ![t] = to]

Send(t) ==
  /\ Step(t, "idle", "enter")
  /\ made < MaxPackets
  /\ made' = made + 1
  /\ packet' = [packet EXCEPT ![t] = made + 1]
  /\ UNCHANGED <<now, queue, lock, app, events, m_seq, lastTraceTime, ns3, sendQ,
                 wire, traces, missed>>

EnterLock(t) ==
  /\ Step(t, "enter", "push")
  /\ Enter(Kind(t))
  /\ UNCHANGED <<now, queue, app, events, m_seq, lastTraceTime, packet, ns3, sendQ,
                 wire, made, traces, missed>>

Push(t) ==
  /\ Step(t, "push", "leave")
  /\ queue' = [queue EXCEPT ![Kind(t)] = Append(@, [id |-> packet[t], kind |-> Kind(t)])]
  /\ UNCHANGED <<now, lock, app, events, m_seq, lastTraceTime, packet, ns3, sendQ,
                 wire, made, traces, missed>>

LeaveLock(t) ==
  /\ Step(t, "leave", IF Sender /\ Kind(t) = "rtp" THEN "trace" ELSE "schedule")
  /\ Leave(Kind(t))
  /\ UNCHANGED <<now, queue, app, events, m_seq, lastTraceTime, packet, ns3, sendQ,
                 wire, made, traces, missed>>

\* WebrtcSender::SendRtp traces the bandwidth; 0 stands for "never traced".
TraceBw(t) ==
  /\ Step(t, "trace", "schedule")
  /\ IF lastTraceTime = 0 \/ now >= lastTraceTime + TraceInterval
     THEN lastTraceTime' = now /\ traces' = Append(traces, now)
     ELSE UNCHANGED <<lastTraceTime, traces>>
  /\ UNCHANGED <<now, queue, lock, app, events, m_seq, packet, ns3, sendQ, wire,
                 made, missed>>

\* Mutant: nothing is scheduled while DeliveryPacket is at work.
ScheduleWhenIdle(t) ==
  /\ Step(t, "schedule", "idle")
  /\ IF m_running
     THEN events' = (IF ns3 = "idle" THEN events + 1 ELSE events) /\ UNCHANGED missed
     ELSE missed' = missed \cup {Kind(t)} /\ UNCHANGED events
  /\ UNCHANGED <<now, queue, lock, app, m_seq, lastTraceTime, packet, ns3, sendQ,
                 wire, made, traces>>

Schedule(t) ==
  /\ Step(t, "schedule", "idle")
  /\ IF m_running
     THEN events' = events + 1 /\ UNCHANGED missed
     ELSE missed' = missed \cup {Kind(t)} /\ UNCHANGED events
  /\ UNCHANGED <<now, queue, lock, app, m_seq, lastTraceTime, packet, ns3, sendQ,
                 wire, made, traces>>
------------------------------------------------------------------------------
(* Events on the ns-3 thread *)

Entering(k) == IF k = "rtp" THEN "enter_rtp" ELSE "enter_rtcp"
Draining(k) == IF k = "rtp" THEN "drain_rtp" ELSE "drain_rtcp"
Ns3Step(from, to) == ns3 = from /\ ns3' = to

StartApplication ==
  /\ ns3 = "idle" /\ app = "new"
  /\ app' = "running"
  /\ UNCHANGED <<now, queue, lock, events, m_seq, lastTraceTime, pc, packet, ns3,
                 sendQ, wire, made, traces, missed>>

StopApplication ==
  /\ ns3 = "idle" /\ app = "running"
  /\ app' = "stopped"
  /\ UNCHANGED <<now, queue, lock, events, m_seq, lastTraceTime, pc, packet, ns3,
                 sendQ, wire, made, traces, missed>>

\* Mutant: DeliveryPacket returns at once when the application has stopped.
DeliverWhileRunning ==
  /\ ns3 = "idle" /\ ns3' = IF m_running THEN "enter_rtp" ELSE "idle"
  /\ events > 0 /\ events' = events - 1
  /\ UNCHANGED <<now, queue, lock, app, m_seq, lastTraceTime, pc, packet, sendQ,
                 wire, made, traces, missed>>

\* A DeliveryPacket event fires, whether or not the application still runs.
DeliveryPacket ==
  /\ Ns3Step("idle", "enter_rtp")
  /\ events > 0 /\ events' = events - 1
  /\ UNCHANGED <<now, queue, lock, app, m_seq, lastTraceTime, pc, packet, sendQ,
                 wire, made, traces, missed>>

\* Mutant: the queue is emptied without its lock.
EnterUnlocked(k) ==
  /\ Ns3Step(Entering(k), Draining(k))
  /\ UNCHANGED <<now, queue, lock, app, events, m_seq, lastTraceTime, pc, packet, sendQ,
                 wire, made, traces, missed>>

EnterQueue(k) ==
  /\ Ns3Step(Entering(k), Draining(k))
  /\ Enter(k)
  /\ UNCHANGED <<now, queue, app, events, m_seq, lastTraceTime, pc, packet, sendQ,
                 wire, made, traces, missed>>

\* Mutant: the newest packet first.
DrainNewest(k) ==
  /\ ns3 = Draining(k) /\ queue[k] # <<>>
  /\ sendQ' = Append(sendQ, Last(queue[k]))
  /\ queue' = [queue EXCEPT ![k] = Front(@)]
  /\ UNCHANGED <<now, lock, app, events, m_seq, lastTraceTime, pc, packet, ns3,
                 wire, made, traces, missed>>

Drain(k) ==
  /\ ns3 = Draining(k) /\ queue[k] # <<>>
  /\ sendQ' = Append(sendQ, Head(queue[k]))
  /\ queue' = [queue EXCEPT ![k] = Tail(@)]
  /\ UNCHANGED <<now, lock, app, events, m_seq, lastTraceTime, pc, packet, ns3,
                 wire, made, traces, missed>>

LeaveQueue(k) ==
  /\ Ns3Step(Draining(k), IF k = "rtp" THEN "enter_rtcp" ELSE "send")
  /\ queue[k] = <<>>
  /\ Leave(k)
  /\ missed' = missed \ {k}
  /\ UNCHANGED <<now, queue, app, events, m_seq, lastTraceTime, pc, packet, sendQ,
                 wire, made, traces>>

\* Only the sender tags what it sends.
SendToNetwork ==
  /\ ns3 = "send" /\ sendQ # <<>>
  /\ wire' = Append(wire, [seq |-> IF Sender THEN m_seq ELSE 0, packet |-> Head(sendQ)])
  /\ m_seq' = IF Sender THEN m_seq + 1 ELSE m_seq
  /\ sendQ' = Tail(sendQ)
  /\ UNCHANGED <<now, queue, lock, app, events, lastTraceTime, pc, packet, ns3,
                 made, traces, missed>>

DeliveryReturns ==
  /\ Ns3Step("send", "idle")
  /\ sendQ = <<>>
  /\ UNCHANGED <<now, queue, lock, app, events, m_seq, lastTraceTime, pc, packet,
                 sendQ, wire, made, traces, missed>>

TimePasses ==
  /\ ns3 = "idle" /\ now < MaxTime
  /\ now' = now + 1
  /\ UNCHANGED <<queue, lock, app, events, m_seq, lastTraceTime, pc, packet, ns3,
                 sendQ, wire, made, traces, missed>>
\* The simulation is over: no call, no event and no time is left.
SimulationOver ==
  /\ made = MaxPackets /\ now = MaxTime /\ app = "stopped"
  /\ ns3 = "idle" /\ events = 0
  /\ \A t \in Threads : pc[t] = "idle"
  /\ UNCHANGED vars
------------------------------------------------------------------------------
CallStep(t) == \/ EnterLock(t) \/ Push(t) \/ LeaveLock(t) \/ TraceBw(t) \/ Schedule(t)
Delivery == \/ DeliveryPacket \/ SendToNetwork \/ DeliveryReturns
            \/ \E k \in Kinds : EnterQueue(k) \/ Drain(k) \/ LeaveQueue(k)

Next ==
  \/ \E t \in Threads : Send(t) \/ CallStep(t)
  \/ Delivery
  \/ StartApplication \/ StopApplication \/ TimePasses \/ SimulationOver

Spec == Init /\ [][Next]_vars

\* Every thread is scheduled, and the ns-3 loop runs its events.
FairSpec == Spec /\ WF_vars(Delivery) /\ \A t \in Threads : WF_vars(CallStep(t))
------------------------------------------------------------------------------
\* Code that touches the queue of kind k, between Enter and Leave of its lock.
InCall(t, k) == Kind(t) = k /\ pc[t] \in {"push", "leave"}
InDrain(k) == ns3 = Draining(k)

\* The spin lock of a queue keeps the calls that push and the drain of
\* DeliveryPacket apart, and is held exactly while one of them is at work.
MutualExclusion ==
  \A k \in Kinds :
    /\ \A s, t \in Threads : InCall(s, k) /\ InCall(t, k) => s = t
    /\ \A t \in Threads : ~(InCall(t, k) /\ InDrain(k))
    /\ lock[k] = 1 <=> InDrain(k) \/ \E t \in Threads : InCall(t, k)

\* A packet never waits without anything on its way to send it: while a queue is
\* not empty a DeliveryPacket is scheduled, or is yet to reach the end of the
\* queue, or the call that pushed has yet to schedule one.  The one exception is
\* the code's: a call that found the application not running schedules nothing,
\* and its packet stays until some later call does.
PacketsCovered ==
  \A k \in Kinds : queue[k] # <<>> =>
    \/ events > 0
    \/ ns3 \in {"enter_rtp", "drain_rtp"}
    \/ k = "rtcp" /\ ns3 \in {"enter_rtcp", "drain_rtcp"}
    \/ \E t \in Threads : Kind(t) = k /\ pc[t] \in {"leave", "trace", "schedule"}
    \/ k \in missed

\* The packets of kind k in s, in order (SelectSeq, as a function a proof can use).
OfKind(s, k) ==
  LET of[n \in 0..Len(s)] == IF n = 0 THEN <<>>
                             ELSE IF s[n].kind = k THEN Append(of[n - 1], s[n])
                             ELSE of[n - 1]
  IN  of[Len(s)]

\* The application as a FIFO channel for each kind of packet.
Channel == INSTANCE MediaChannel WITH
  channel <- [k \in Kinds |-> OfKind(sendQ, k) \o queue[k]],
  wire <- [i \in DOMAIN wire |-> wire[i].packet]

\* Packets are neither lost, duplicated nor reordered within their kind, however
\* the calls, the drains and several scheduled DeliveryPackets interleave.
PacketsInOrder == Channel!Spec

\* A packet whose queue no call left unscheduled gets to the wire.
OnWire(p) == \E i \in DOMAIN wire : wire[i].packet = p
PacketsSent ==
  \A p \in Packets : p \in ToSet(queue[p.kind]) ~> (OnWire(p) \/ p.kind \in missed)
==============================================================================
